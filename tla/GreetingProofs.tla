---------------------------- MODULE GreetingProofs ----------------------------
(***************************************************************************)
(* How out of date Broadcaster's cache can be, and who is not greeted      *)
(* again, for all values of the constants.                                 *)
(***************************************************************************)
EXTENDS Greeting, Integers, SequenceTheorems, TLAPS

\* A caller waits for Twitch in hasUser or in saveUser; it goes on to the database
\* only with a stream.
CallsAsk ==
    \A m \in Messages :
        /\ asked[m] # Idle => call[m] # Idle /\ call[m].at \in {"has", "save"}
        /\ call[m] # Idle /\ call[m].at \in {"query", "insert"} => call[m].stream # NoStream

\* A timer due already stops the clock, and an outdated cache has one that was
\* started before it was last made out of date, or just then.
TimersDue ==
    /\ \A i \in DOMAIN timers : now <= timers[i] /\ timers[i] <= now + CacheTime
    /\ online /\ stream # current => \E i \in DOMAIN timers : timers[i] <= upset + CacheTime

\* What a call knows stays true until the stream flips: its row is there, and the
\* stream it is told of is the current one.
KnownIsSaved ==
    \A m \in Messages : call[m] # Idle /\ call[m].known =>
        /\ <<call[m].user, current>> \in rows
        /\ call[m].at \in {"has", "query"}
        /\ asked[m] \in Answers => asked[m] = current
        /\ call[m].at = "query" => call[m].stream = current

GreetInv == TypeOK /\ CallsAsk /\ TimersDue /\ KnownIsSaved

LEMMA InitGreetInv == Init => GreetInv
<1> SUFFICES ASSUME Init PROVE GreetInv
  OBVIOUS
<1> USE ConstantsAssumption, SlotsAssumption DEF Init
<1>1. TypeOK
  <2>1. now \in 0..MaxNow /\ upset \in 0..MaxNow
    OBVIOUS
  <2>2. begun \in Answers /\ current \in {NoStream, begun} /\ stream \in Answers
    BY DEF Answers, NoStream
  <2>3. online \in BOOLEAN /\ isLive \in BOOLEAN /\ notified \in BOOLEAN
    OBVIOUS
  <2>4. timers \in Seq(0..(MaxNow + CacheTime)) /\ (online => timers # <<>>)
    OBVIOUS
  <2>5. asked \in [Callers -> Answers \cup {Pending, Idle}]
    OBVIOUS
  <2>6. session \subseteq Users /\ rows \subseteq (Users \X (1..MaxStreams))
    OBVIOUS
  <2>7. call \in [Messages -> Call \cup {Idle}] /\ greeted \in [Users -> 0..MaxGreeted]
    BY DEF MaxGreeted
  <2> QED
    BY <2>1, <2>2, <2>3, <2>4, <2>5, <2>6, <2>7 DEF TypeOK
<1>2. \A m \in Messages : asked[m] = Idle /\ call[m] = Idle
  BY DEF Callers
<1> QED
  BY <1>1, <1>2 DEF GreetInv, CallsAsk, TimersDue, KnownIsSaved

-----------------------------------------------------------------------------
(* What the steps share.                                                   *)

\* An answer is cached: the cache has a timer more, and is out of date only if the
\* answer is.
LEMMA StoreDoes ==
    ASSUME GreetInv, NEW c \in Callers, asked[c] \in Answers, Store(c),
           UNCHANGED <<now, current, begun>>
    PROVE  /\ TimersDue' /\ timers' \in Seq(0..(MaxNow + CacheTime)) /\ timers' # <<>>
           /\ stream' \in Answers /\ online' = TRUE /\ upset' \in 0..MaxNow
           /\ asked' \in [Callers -> Answers \cup {Pending, Idle}] /\ asked'[c] = Idle
           /\ \A d \in Callers \ {c} : asked'[d] = asked[d]
<1> USE DEF CacheTime
<1>1. /\ now \in 0..MaxNow /\ upset \in 0..MaxNow /\ MaxNow \in Nat
      /\ timers \in Seq(0..(MaxNow + 1))
      /\ asked \in [Callers -> Answers \cup {Pending, Idle}]
  BY ConstantsAssumption DEF GreetInv, TypeOK
<1>2. /\ stream' = asked[c] /\ online' = TRUE /\ timers' = Append(timers, now + 1)
      /\ upset' = (IF asked[c] # current THEN now ELSE upset)
      /\ asked' = [asked EXCEPT ![c] = Idle]
  BY DEF Store
<1> DEFINE n == Len(timers) + 1
<1>3. /\ timers' \in Seq(0..(MaxNow + 1)) /\ timers' # <<>>
      /\ DOMAIN timers' = DOMAIN timers \cup {n} /\ timers'[n] = now + 1
      /\ \A i \in DOMAIN timers : timers'[i] = timers[i]
  <2> DEFINE D == 0..(MaxNow + 1)
  <2>1. now + 1 \in D
    BY <1>1
  <2>2. timers \in Seq(D)
    BY <1>1
  <2> HIDE DEF D
  <2>3. /\ timers' \in Seq(D) /\ timers' # <<>>
        /\ DOMAIN timers' = DOMAIN timers \cup {n} /\ timers'[n] = now + 1
        /\ \A i \in DOMAIN timers : timers'[i] = timers[i]
    BY <1>2, <2>1, <2>2
  <2> QED
    BY <2>3 DEF D
<1>4. TimersDue'
  <2>1. \A i \in DOMAIN timers' : now <= timers'[i] /\ timers'[i] <= now + 1
    BY <1>1, <1>3 DEF GreetInv, TimersDue
  <2>2. asked[c] # current => timers'[n] <= upset' + 1
    BY <1>1, <1>2, <1>3
  <2> QED
    BY <1>2, <1>3, <2>1, <2>2 DEF TimersDue
<1>5. upset' \in 0..MaxNow
  BY <1>1, <1>2
<1> QED
  BY <1>1, <1>2, <1>3, <1>4, <1>5

\* hasUser and saveUser go on with the stream they are given.
LEMMA ResumeDoes ==
    ASSUME call \in [Messages -> Call \cup {Idle}], session \subseteq Users,
           NEW m \in Messages, NEW c \in Call, NEW s \in Answers,
           c.at \in {"has", "save"}, Resume(m, c, s)
    PROVE  /\ call' \in [Messages -> Call \cup {Idle}] /\ session' \subseteq Users
           /\ \A j \in Messages \ {m} : call'[j] = call[j]
           /\ call'[m] # Idle =>
                  /\ call'[m].user = c.user /\ call'[m].known = c.known /\ call'[m].stream = s
                  /\ call'[m].at = IF s = NoStream THEN "say"
                                   ELSE IF c.at = "save" THEN "insert" ELSE "query"
<1>1. c.user \in Users
  BY DEF Call
<1>2. session' \subseteq Users
  BY <1>1 DEF Resume
<1>3. PICK d \in Call \cup {Idle} :
          /\ call' = [call EXCEPT ![m] = d]
          /\ d # Idle => /\ d.user = c.user /\ d.known = c.known /\ d.stream = s
                         /\ d.at = IF s = NoStream THEN "say"
                                   ELSE IF c.at = "save" THEN "insert" ELSE "query"
  <2>1. ASSUME NEW at \in {"insert", "query", "say"}
        PROVE  LET d == [c EXCEPT !.at = at, !.stream = s]
               IN  /\ d \in Call /\ d.user = c.user /\ d.known = c.known /\ d.stream = s /\ d.at = at
    <3> DEFINE u == [c EXCEPT !.at = at]
    <3>1. u \in Call /\ u.user = c.user /\ u.known = c.known /\ u.at = at
      BY DEF Call
    <3> DEFINE d == [u EXCEPT !.stream = s]
    <3> HIDE DEF u
    <3>2. d \in Call /\ d.user = u.user /\ d.known = u.known /\ d.stream = s /\ d.at = u.at
      BY <3>1 DEF Call
    <3> QED
      BY <3>1, <3>2 DEF u
  <2>2. CASE s # NoStream /\ c.at = "save"
    <3>1. call' = [call EXCEPT ![m] = [c EXCEPT !.at = "insert", !.stream = s]]
      BY <2>2 DEF Resume
    <3> QED
      BY <2>1, <2>2, <3>1
  <2>3. CASE s # NoStream /\ c.at # "save"
    <3>1. call' = [call EXCEPT ![m] = [c EXCEPT !.at = "query", !.stream = s]]
      BY <2>3 DEF Resume
    <3> QED
      BY <2>1, <2>3, <3>1
  <2>4. CASE s = NoStream /\ c.at # "save"
    <3>1. call' = [call EXCEPT ![m] = [c EXCEPT !.at = "say", !.stream = s]]
      BY <2>4 DEF Resume
    <3> QED
      BY <2>1, <2>4, <3>1
  <2>5. CASE s = NoStream /\ c.at = "save"
    <3>1. call' = [call EXCEPT ![m] = Idle]
      BY <2>5 DEF Resume
    <3> QED
      BY <3>1
  <2> QED
    BY <2>2, <2>3, <2>4, <2>5
<1> QED
  BY <1>2, <1>3

\* A step of one call leaves the others as they are.
LEMMA OneCall ==
    ASSUME GreetInv, NEW m \in Messages,
           \A j \in Messages \ {m} : call'[j] = call[j] /\ asked'[j] = asked[j],
           rows \subseteq rows', current' = current,
           asked'[m] # Idle => call'[m] # Idle /\ call'[m].at \in {"has", "save"},
           call'[m] # Idle =>
               /\ call'[m].at \in {"query", "insert"} => call'[m].stream # NoStream
               /\ call'[m].known =>
                      /\ <<call'[m].user, current>> \in rows
                      /\ call'[m].at \in {"has", "query"}
                      /\ asked'[m] \in Answers => asked'[m] = current
                      /\ call'[m].at = "query" => call'[m].stream = current
    PROVE  CallsAsk' /\ KnownIsSaved'
<1>1. ASSUME NEW j \in Messages
      PROVE  /\ asked'[j] # Idle => call'[j] # Idle /\ call'[j].at \in {"has", "save"}
             /\ call'[j] # Idle /\ call'[j].at \in {"query", "insert"} => call'[j].stream # NoStream
             /\ call'[j] # Idle /\ call'[j].known =>
                    /\ <<call'[j].user, current'>> \in rows'
                    /\ call'[j].at \in {"has", "query"}
                    /\ asked'[j] \in Answers => asked'[j] = current'
                    /\ call'[j].at = "query" => call'[j].stream = current'
  <2>1. CASE j = m
    BY <2>1
  <2>2. CASE j # m
    <3>1. call'[j] = call[j] /\ asked'[j] = asked[j]
      BY <2>2
    <3>2. /\ asked[j] # Idle => call[j] # Idle /\ call[j].at \in {"has", "save"}
          /\ call[j] # Idle /\ call[j].at \in {"query", "insert"} => call[j].stream # NoStream
          /\ call[j] # Idle /\ call[j].known =>
                    /\ <<call[j].user, current>> \in rows
                    /\ call[j].at \in {"has", "query"}
                    /\ asked[j] \in Answers => asked[j] = current
                    /\ call[j].at = "query" => call[j].stream = current
      BY DEF GreetInv, CallsAsk, KnownIsSaved
    <3> QED
      BY <3>1, <3>2
  <2> QED
    BY <2>1, <2>2
<1> QED
  BY <1>1 DEF CallsAsk, KnownIsSaved

\* The cached stream is gone on with at once; without one Twitch is asked.
LEMMA GetStreamDoes ==
    ASSUME GreetInv, NEW m \in Messages, NEW c \in Call, c.at \in {"has", "save"},
           asked[m] = Idle, GetStream(m, c), UNCHANGED <<rows, current>>,
           c.known => /\ c.at = "has" /\ <<c.user, current>> \in rows
                      /\ online => stream = current
    PROVE  /\ call' \in [Messages -> Call \cup {Idle}] /\ session' \subseteq Users
           /\ asked' \in [Callers -> Answers \cup {Pending, Idle}]
           /\ CallsAsk' /\ KnownIsSaved'
<1>1. /\ call \in [Messages -> Call \cup {Idle}] /\ session \subseteq Users
      /\ asked \in [Callers -> Answers \cup {Pending, Idle}] /\ stream \in Answers
      /\ current \in Answers /\ m \in Callers /\ c # Idle /\ Pending # Idle /\ Pending \notin Answers
      /\ rows \subseteq (Users \X (1..MaxStreams))
  BY ConstantsAssumption, SlotsAssumption DEF GreetInv, TypeOK, Callers, Answers, NoStream
<1>2. c.known => current # NoStream
  BY <1>1 DEF NoStream
<1>3. CASE online
  <2>1. Resume(m, c, stream) /\ asked' = asked
    BY <1>3 DEF GetStream
  <2>2. /\ call' \in [Messages -> Call \cup {Idle}] /\ session' \subseteq Users
        /\ \A j \in Messages \ {m} : call'[j] = call[j]
        /\ call'[m] # Idle =>
               /\ call'[m].user = c.user /\ call'[m].known = c.known /\ call'[m].stream = stream
               /\ call'[m].at = IF stream = NoStream THEN "say"
                                ELSE IF c.at = "save" THEN "insert" ELSE "query"
    BY <1>1, <2>1, ResumeDoes
  <2>3. CallsAsk' /\ KnownIsSaved'
    <3>1. call'[m] # Idle /\ call'[m].at \in {"query", "insert"} => call'[m].stream # NoStream
      BY <2>2
    <3>2. call'[m] # Idle /\ call'[m].known =>
              /\ <<call'[m].user, current>> \in rows
              /\ call'[m].at \in {"has", "query"}
              /\ call'[m].at = "query" => call'[m].stream = current
      BY <1>2, <1>3, <2>2
    <3>3. asked'[m] = Idle /\ Idle \notin Answers
      BY <2>1, SlotsAssumption
    <3> QED
      BY <2>1, <2>2, <3>1, <3>2, <3>3, OneCall
  <2> QED
    BY <1>1, <2>1, <2>2, <2>3
<1>4. CASE ~online
  <2>1. /\ asked' = [asked EXCEPT ![m] = Pending] /\ call' = [call EXCEPT ![m] = c]
        /\ session' = session
    BY <1>4 DEF GetStream
  <2>2. /\ call'[m] = c /\ asked'[m] = Pending
        /\ \A j \in Messages \ {m} : call'[j] = call[j] /\ asked'[j] = asked[j]
        /\ call' \in [Messages -> Call \cup {Idle}]
        /\ asked' \in [Callers -> Answers \cup {Pending, Idle}]
    BY <1>1, <2>1 DEF Callers
  <2>3. CallsAsk' /\ KnownIsSaved'
    BY <1>1, <2>2, OneCall
  <2> QED
    BY <1>1, <2>1, <2>2, <2>3
<1> QED
  BY <1>3, <1>4

-----------------------------------------------------------------------------
(* Twitch, the clock, the process and the cache.                           *)

LEMMA WorldKeeps == ASSUME GreetInv, StreamFlips \/ Tick \/ Crash PROVE GreetInv'
<1> USE ConstantsAssumption, SlotsAssumption DEF twitch, cache, service
<1>1. CASE StreamFlips
  <2>1. /\ current' \in {NoStream, begun'} /\ begun' \in Answers /\ upset' = now
        /\ call' = [m \in Messages |-> IF call[m] = Idle THEN Idle ELSE [call[m] EXCEPT !.known = FALSE]]
        /\ notified' \in BOOLEAN
        /\ UNCHANGED <<now, stream, online, timers, asked, isLive, session, rows, greeted>>
    <3>1. /\ begun' = (IF current = NoStream THEN begun + 1 ELSE begun)
          /\ current' = (IF current = NoStream THEN begun + 1 ELSE NoStream)
          /\ current # NoStream \/ begun < MaxStreams
      BY <1>1 DEF StreamFlips
    <3>2. begun \in Answers
      BY DEF GreetInv, TypeOK
    <3>3. current' \in {NoStream, begun'} /\ begun' \in Answers
      BY <3>1, <3>2 DEF Answers
    <3>4. notified' \in BOOLEAN
      BY <1>1 DEF StreamFlips, GreetInv, TypeOK
    <3> QED
      BY <1>1, <3>3, <3>4 DEF StreamFlips
  <2>2. \A m \in Messages :
            IF call[m] = Idle THEN call'[m] = Idle
            ELSE /\ call'[m] \in Call /\ call'[m].known = FALSE /\ call'[m].at = call[m].at
                 /\ call'[m].user = call[m].user /\ call'[m].stream = call[m].stream
    <3> TAKE m \in Messages
    <3>1. call[m] \in Call \cup {Idle}
      BY DEF GreetInv, TypeOK
    <3>2. CASE call[m] # Idle
      <4>1. call[m] \in Call /\ call'[m] = [call[m] EXCEPT !.known = FALSE]
        BY <2>1, <3>1, <3>2
      <4> QED
        BY <3>2, <4>1 DEF Call
    <3>3. CASE call[m] = Idle
      BY <2>1, <3>3
    <3> QED
      BY <3>2, <3>3
  <2>3. TypeOK'
    <3>1. call' \in [Messages -> Call \cup {Idle}]
      BY <2>1, <2>2
    <3>2. upset' \in 0..MaxNow
      BY <2>1 DEF GreetInv, TypeOK
    <3> QED
      BY <2>1, <3>1, <3>2 DEF GreetInv, TypeOK
  <2>4. CallsAsk' /\ KnownIsSaved'
    BY <2>1, <2>2 DEF GreetInv, CallsAsk, KnownIsSaved
  <2>5. TimersDue'
    <3>1. online => timers # <<>> /\ timers \in Seq(0..(MaxNow + CacheTime))
      BY DEF GreetInv, TypeOK
    <3>2. online => 1 \in DOMAIN timers
      BY <3>1
    <3> QED
      BY <2>1, <3>2 DEF GreetInv, TimersDue
  <2> QED
    BY <2>3, <2>4, <2>5 DEF GreetInv
<1>2. CASE Tick
  <2>1. /\ now < MaxNow /\ \A i \in DOMAIN timers : timers[i] > now
        /\ now' = now + 1
        /\ UNCHANGED <<current, begun, stream, online, timers, asked, isLive, notified, session,
                       rows, call, greeted, upset>>
    BY <1>2 DEF Tick
  <2>2. now \in 0..MaxNow
    BY DEF GreetInv, TypeOK
  <2>3. TypeOK'
    <3>1. now' \in 0..MaxNow
      BY <2>1, <2>2
    <3> QED
      BY <2>1, <3>1 DEF GreetInv, TypeOK
  <2>4. CallsAsk' /\ KnownIsSaved'
    BY <2>1 DEF GreetInv, CallsAsk, KnownIsSaved
  <2>5. TimersDue'
    <3>1. ASSUME NEW i \in DOMAIN timers
          PROVE  now + 1 <= timers[i] /\ timers[i] <= (now + 1) + CacheTime
      <4>1. timers[i] \in Int
        <5> DEFINE D == 0..(MaxNow + CacheTime)
        <5>1. timers \in Seq(D)
          BY DEF GreetInv, TypeOK
        <5> HIDE DEF D
        <5>2. timers[i] \in D
          BY <3>1, <5>1
        <5> QED
          BY <5>2 DEF D
      <4>2. timers[i] > now /\ timers[i] <= now + CacheTime
        BY <2>1, <3>1 DEF GreetInv, TimersDue
      <4> QED
        BY <2>2, <4>1, <4>2 DEF CacheTime
    <3> QED
      BY <2>1, <3>1 DEF GreetInv, TimersDue
  <2> QED
    BY <2>3, <2>4, <2>5 DEF GreetInv
<1>3. CASE Crash
  <2>1. /\ stream' = NoStream /\ online' = FALSE /\ timers' = <<>>
        /\ asked' = [c \in Callers |-> IF c = Start THEN Pending ELSE Idle]
        /\ isLive' = FALSE /\ notified' = FALSE /\ session' = {}
        /\ call' = [m \in Messages |-> Idle]
        /\ greeted' = [u \in Users |-> 0]
        /\ UNCHANGED <<now, current, begun, rows, upset>>
    BY <1>3 DEF Crash
  <2>2. \A m \in Messages : asked'[m] = Idle /\ call'[m] = Idle
    BY <2>1 DEF Callers
  <2>3. TypeOK'
    <3>1. asked' \in [Callers -> Answers \cup {Pending, Idle}] /\ stream' \in Answers
      BY <2>1 DEF Answers, NoStream
    <3>2. call' \in [Messages -> Call \cup {Idle}] /\ greeted' \in [Users -> 0..MaxGreeted]
      BY <2>1 DEF MaxGreeted
    <3>3. timers' \in Seq(0..(MaxNow + CacheTime)) /\ online' = FALSE
      BY <2>1
    <3>4. isLive' \in BOOLEAN /\ notified' \in BOOLEAN /\ session' \subseteq Users
      BY <2>1
    <3> QED
      BY <2>1, <3>1, <3>2, <3>3, <3>4 DEF GreetInv, TypeOK
  <2>4. CallsAsk' /\ KnownIsSaved'
    BY <2>2 DEF CallsAsk, KnownIsSaved
  <2>5. TimersDue'
    BY <2>1 DEF TimersDue
  <2> QED
    BY <2>3, <2>4, <2>5 DEF GreetInv
<1> QED
  BY <1>1, <1>2, <1>3

\* A timer that fires ends the caching, however new the answer cached.
LEMMA CacheExpiresKeeps == ASSUME GreetInv, CacheExpires PROVE GreetInv'
<1>1. /\ timers # <<>> /\ timers' = Tail(timers) /\ online' = FALSE
      /\ UNCHANGED <<now, current, begun, stream, asked, isLive, notified, session, rows, call,
                     greeted, upset>>
  BY DEF CacheExpires, twitch, service
<1>2. /\ timers' \in Seq(0..(MaxNow + CacheTime))
      /\ \A i \in DOMAIN timers' : i + 1 \in DOMAIN timers /\ timers'[i] = timers[i + 1]
  <2> DEFINE D == 0..(MaxNow + CacheTime)
  <2>1. timers \in Seq(D)
    BY DEF GreetInv, TypeOK
  <2> HIDE DEF D
  <2>2. timers' \in Seq(D) /\ Len(timers') = Len(timers) - 1 /\ Len(timers) \in Nat
    BY <1>1, <2>1
  <2>3. \A i \in DOMAIN timers' : i + 1 \in DOMAIN timers /\ timers'[i] = timers[i + 1]
    BY <1>1, <2>1, <2>2
  <2> QED
    BY <2>2, <2>3 DEF D
<1>3. TypeOK'
  BY <1>1, <1>2 DEF GreetInv, TypeOK
<1>4. TimersDue'
  BY <1>1, <1>2 DEF GreetInv, TimersDue
<1>5. CallsAsk' /\ KnownIsSaved'
  BY <1>1 DEF GreetInv, CallsAsk, KnownIsSaved
<1> QED
  BY <1>3, <1>4, <1>5 DEF GreetInv

LEMMA TwitchServesKeeps == ASSUME GreetInv, NEW c \in Callers, TwitchServes(c) PROVE GreetInv'
<1>1. /\ asked[c] = Pending /\ asked' = [asked EXCEPT ![c] = current]
      /\ UNCHANGED <<now, current, begun, stream, online, timers, isLive, notified, session, rows,
                     call, greeted, upset>>
  BY DEF TwitchServes, twitch, cache, service
<1>2. /\ asked \in [Callers -> Answers \cup {Pending, Idle}] /\ current \in Answers
      /\ Pending # Idle /\ Idle \notin Answers
  BY ConstantsAssumption, SlotsAssumption DEF GreetInv, TypeOK, Answers, NoStream
<1>3. TypeOK'
  <2>1. asked' \in [Callers -> Answers \cup {Pending, Idle}]
    BY <1>1, <1>2
  <2> QED
    BY <1>1, <2>1 DEF GreetInv, TypeOK
<1>4. \A m \in Messages : \/ asked'[m] = asked[m]
                          \/ asked[m] = Pending /\ asked'[m] = current
  BY <1>1, <1>2 DEF Callers
<1>5. CallsAsk' /\ KnownIsSaved'
  BY <1>1, <1>2, <1>4 DEF GreetInv, CallsAsk, KnownIsSaved
<1>6. TimersDue'
  BY <1>1 DEF GreetInv, TimersDue
<1> QED
  BY <1>3, <1>5, <1>6 DEF GreetInv

-----------------------------------------------------------------------------
(* The stream state and the greetings.                                     *)

LEMMA LiveKeeps ==
    ASSUME GreetInv, Initialized \/ EventHandled \/ SessionCleared PROVE GreetInv'
<1>1. CASE Initialized
  <2>1. /\ asked[Start] \in Answers /\ Store(Start) /\ SetLive(asked[Start] # NoStream)
        /\ UNCHANGED <<now, current, begun, notified, session, rows, call>>
    BY <1>1 DEF Initialized, twitch
  <2>2. isLive' \in BOOLEAN /\ greeted' \in [Users -> 0..MaxGreeted]
    BY <2>1 DEF SetLive, MaxGreeted, GreetInv, TypeOK
  <2>3. Start \in Callers /\ \A m \in Messages : m \in Callers \ {Start}
    BY ConstantsAssumption DEF Callers
  <2>4. /\ TimersDue' /\ timers' \in Seq(0..(MaxNow + CacheTime)) /\ timers' # <<>>
        /\ stream' \in Answers /\ online' = TRUE /\ upset' \in 0..MaxNow
        /\ asked' \in [Callers -> Answers \cup {Pending, Idle}]
        /\ \A d \in Callers \ {Start} : asked'[d] = asked[d]
    BY <2>1, <2>3, StoreDoes
  <2>5. TypeOK'
    BY <2>1, <2>2, <2>4 DEF GreetInv, TypeOK
  <2>6. CallsAsk' /\ KnownIsSaved'
    BY <2>1, <2>3, <2>4 DEF GreetInv, CallsAsk, KnownIsSaved
  <2> QED
    BY <2>4, <2>5, <2>6 DEF GreetInv
<1>2. CASE EventHandled
  <2>1. /\ notified' = FALSE /\ SetLive(current # NoStream)
        /\ UNCHANGED <<now, current, begun, stream, online, timers, asked, session, rows, call, upset>>
    BY <1>2 DEF EventHandled, twitch, cache
  <2>2. isLive' \in BOOLEAN /\ greeted' \in [Users -> 0..MaxGreeted] /\ notified' \in BOOLEAN
    <3>1. isLive' \in BOOLEAN
      BY <2>1 DEF SetLive
    <3>2. greeted' \in [Users -> 0..MaxGreeted]
      BY <2>1 DEF SetLive, MaxGreeted, GreetInv, TypeOK
    <3> QED
      BY <2>1, <3>1, <3>2
  <2>3. TypeOK'
    BY <2>1, <2>2 DEF GreetInv, TypeOK
  <2> QED
    BY <2>1, <2>3 DEF GreetInv, CallsAsk, TimersDue, KnownIsSaved
<1>3. CASE SessionCleared
  <2>1. /\ session' = {}
        /\ UNCHANGED <<now, current, begun, stream, online, timers, asked, isLive, notified, rows,
                       call, upset, greeted>>
    BY <1>3 DEF SessionCleared, twitch, cache
  <2>2. TypeOK'
    BY <2>1 DEF GreetInv, TypeOK
  <2> QED
    BY <2>1, <2>2 DEF GreetInv, CallsAsk, TimersDue, KnownIsSaved
<1> QED
  BY <1>1, <1>2, <1>3

LEMMA MessageArrivesKeeps ==
    ASSUME GreetInv, NEW m \in Messages, NEW u \in Users, MessageArrives(m, u) PROVE GreetInv'
<1> DEFINE known == <<u, current>> \in rows /\ (online => stream = current)
           c == [at |-> "has", user |-> u, stream |-> NoStream, known |-> known]
<1>1. /\ call[m] = Idle /\ GetStream(m, c)
      /\ UNCHANGED <<now, current, begun, stream, online, timers, isLive, notified, rows, upset, greeted>>
  BY DEF MessageArrives, twitch, cache
<1>2. c \in Call /\ c.at = "has" /\ c.user = u /\ c.known = known
  <2>1. NoStream \in Answers /\ known \in BOOLEAN
    BY ConstantsAssumption DEF NoStream, Answers
  <2> HIDE DEF known
  <2> QED
    BY <2>1 DEF Call
<1>3. asked[m] = Idle
  BY <1>1 DEF GreetInv, CallsAsk
<1>4. c.known => <<c.user, current>> \in rows /\ (online => stream = current)
  BY <1>2
<1> HIDE DEF c, known
<1>5. /\ call' \in [Messages -> Call \cup {Idle}] /\ session' \subseteq Users
      /\ asked' \in [Callers -> Answers \cup {Pending, Idle}]
      /\ CallsAsk' /\ KnownIsSaved'
  BY <1>1, <1>2, <1>3, <1>4, GetStreamDoes
<1>6. TypeOK' /\ TimersDue'
  BY <1>1, <1>5 DEF GreetInv, TypeOK, TimersDue
<1> QED
  BY <1>5, <1>6 DEF GreetInv

LEMMA AnswerKeeps ==
    ASSUME GreetInv, NEW m \in Messages, StreamAnswered(m) PROVE GreetInv'
<1> DEFINE c == call[m]
           s == asked[m]
<1>1. /\ s \in Answers /\ Store(m) /\ Resume(m, c, s)
      /\ UNCHANGED <<now, current, begun, isLive, notified, rows, greeted>>
  BY DEF StreamAnswered, twitch
<1>2. /\ call \in [Messages -> Call \cup {Idle}] /\ session \subseteq Users
      /\ rows \subseteq (Users \X (1..MaxStreams)) /\ m \in Callers
  BY DEF GreetInv, TypeOK, Callers
<1>3. c \in Call /\ c.at \in {"has", "save"}
  <2>1. s # Idle
    BY <1>1, SlotsAssumption
  <2> QED
    BY <1>2, <2>1 DEF GreetInv, CallsAsk
<1>4. /\ TimersDue' /\ timers' \in Seq(0..(MaxNow + CacheTime)) /\ timers' # <<>>
      /\ stream' \in Answers /\ online' = TRUE /\ upset' \in 0..MaxNow
      /\ asked' \in [Callers -> Answers \cup {Pending, Idle}] /\ asked'[m] = Idle
      /\ \A d \in Callers \ {m} : asked'[d] = asked[d]
  BY <1>1, <1>2, StoreDoes
<1>5. /\ call' \in [Messages -> Call \cup {Idle}] /\ session' \subseteq Users
      /\ \A j \in Messages \ {m} : call'[j] = call[j]
      /\ call'[m] # Idle =>
             /\ call'[m].user = c.user /\ call'[m].known = c.known /\ call'[m].stream = s
             /\ call'[m].at = IF s = NoStream THEN "say"
                              ELSE IF c.at = "save" THEN "insert" ELSE "query"
  <2> HIDE DEF c, s
  <2> QED
    BY <1>1, <1>2, <1>3, ResumeDoes
<1>6. CallsAsk' /\ KnownIsSaved'
  <2>1. c.known => <<c.user, current>> \in rows /\ c.at = "has" /\ s = current /\ s # NoStream
    <3>1. c.known => <<c.user, current>> \in rows /\ c.at = "has" /\ s = current
      BY <1>1, <1>3, SlotsAssumption DEF GreetInv, KnownIsSaved
    <3> QED
      BY <1>2, <3>1 DEF NoStream
  <2>2. \A j \in Messages \ {m} : call'[j] = call[j] /\ asked'[j] = asked[j]
    BY <1>4, <1>5 DEF Callers
  <2>3. Idle \notin Answers
    BY SlotsAssumption
  <2> HIDE DEF c, s
  <2>4. call'[m] # Idle /\ call'[m].at \in {"query", "insert"} => call'[m].stream # NoStream
    BY <1>5
  <2>5. call'[m] # Idle /\ call'[m].known =>
            /\ <<call'[m].user, current>> \in rows
            /\ call'[m].at \in {"has", "query"}
            /\ asked'[m] \in Answers => asked'[m] = current
            /\ call'[m].at = "query" => call'[m].stream = current
    BY <1>4, <1>5, <2>1, <2>3
  <2> QED
    BY <1>1, <1>4, <2>2, <2>4, <2>5, OneCall
<1>7. TypeOK'
  BY <1>1, <1>4, <1>5 DEF GreetInv, TypeOK
<1> QED
  BY <1>4, <1>6, <1>7 DEF GreetInv

LEMMA LookedUpKeeps == ASSUME GreetInv, NEW m \in Messages, LookedUp(m) PROVE GreetInv'
<1> DEFINE found == <<call[m].user, call[m].stream>> \in rows
<1>1. /\ call[m] # Idle /\ call[m].at = "query"
      /\ call' = [call EXCEPT ![m] = IF found THEN Idle ELSE [call[m] EXCEPT !.at = "say"]]
      /\ session' = (IF found THEN session \cup {call[m].user} ELSE session)
      /\ UNCHANGED <<now, current, begun, stream, online, timers, asked, isLive, notified, rows,
                     upset, greeted>>
  BY DEF LookedUp, InFlight, twitch, cache, GreetInv, TypeOK
<1>2. call \in [Messages -> Call \cup {Idle}] /\ call[m] \in Call /\ asked[m] = Idle
  BY <1>1 DEF GreetInv, TypeOK, CallsAsk
<1>3. call[m].known => found
  BY <1>1, <1>2 DEF GreetInv, KnownIsSaved
<1>4. call[m].user \in Users
  BY <1>2 DEF Call
<1>5. PICK d \in Call \cup {Idle} :
          call' = [call EXCEPT ![m] = d] /\ (d # Idle => d.at = "say" /\ d.known = FALSE)
  <2>1. CASE found
    BY <1>1, <2>1
  <2>2. CASE ~found
    <3> DEFINE d == [call[m] EXCEPT !.at = "say"]
    <3>1. d \in Call /\ d.at = "say" /\ d.known = call[m].known /\ call[m].known \in BOOLEAN
      BY <1>2 DEF Call
    <3>2. call' = [call EXCEPT ![m] = d]
      BY <1>1, <2>2
    <3> HIDE DEF d
    <3> QED
      BY <1>3, <2>2, <3>1, <3>2
  <2> QED
    BY <2>1, <2>2
<1>6. /\ call' \in [Messages -> Call \cup {Idle}] /\ call'[m] = d
      /\ \A j \in Messages \ {m} : call'[j] = call[j]
  BY <1>2, <1>5
<1>7. CallsAsk' /\ KnownIsSaved'
  BY <1>1, <1>2, <1>5, <1>6, OneCall
<1>8. TypeOK' /\ TimersDue'
  <2>1. session' \subseteq Users
    BY <1>1, <1>4 DEF GreetInv, TypeOK
  <2> QED
    BY <1>1, <1>6, <2>1 DEF GreetInv, TypeOK, TimersDue
<1> QED
  BY <1>7, <1>8 DEF GreetInv

LEMMA GreetedKeeps == ASSUME GreetInv, NEW m \in Messages, Greeted(m) PROVE GreetInv'
<1> DEFINE c == [call[m] EXCEPT !.at = "save"]
<1>1. /\ call[m] # Idle /\ call[m].at = "say" /\ GetStream(m, c)
      /\ greeted' = [greeted EXCEPT ![call[m].user] = IF @ < MaxGreeted THEN @ + 1 ELSE @]
      /\ UNCHANGED <<now, current, begun, stream, online, timers, isLive, notified, rows, upset>>
  BY DEF Greeted, InFlight, twitch, cache
<1>2. call[m] \in Call /\ asked[m] = Idle /\ ~call[m].known
  BY <1>1 DEF GreetInv, TypeOK, CallsAsk, KnownIsSaved
<1>3. c \in Call /\ c.at = "save" /\ c.known = call[m].known /\ call[m].user \in Users
  BY <1>2 DEF Call
<1> HIDE DEF c
<1>4. /\ call' \in [Messages -> Call \cup {Idle}] /\ session' \subseteq Users
      /\ asked' \in [Callers -> Answers \cup {Pending, Idle}]
      /\ CallsAsk' /\ KnownIsSaved'
  BY <1>1, <1>2, <1>3, GetStreamDoes
<1>5. greeted' \in [Users -> 0..MaxGreeted]
  BY <1>1, <1>3 DEF GreetInv, TypeOK, MaxGreeted
<1>6. TypeOK' /\ TimersDue'
  BY <1>1, <1>4, <1>5 DEF GreetInv, TypeOK, TimersDue
<1> QED
  BY <1>4, <1>6 DEF GreetInv

LEMMA CallEnds ==
    ASSUME GreetInv, NEW m \in Messages, Inserted(m) \/ Rejects(m) PROVE GreetInv'
<1>1. /\ call[m] # Idle /\ call' = [call EXCEPT ![m] = Idle]
      /\ UNCHANGED <<now, current, begun, stream, online, timers, isLive, notified, session,
                     upset, greeted>>
  BY DEF Inserted, Rejects, InFlight, twitch, cache
<1>2. /\ call \in [Messages -> Call \cup {Idle}] /\ call[m] \in Call
      /\ asked \in [Callers -> Answers \cup {Pending, Idle}]
      /\ rows \subseteq (Users \X (1..MaxStreams))
  BY <1>1 DEF GreetInv, TypeOK
<1>3. /\ call' \in [Messages -> Call \cup {Idle}] /\ call'[m] = Idle
      /\ \A j \in Messages \ {m} : call'[j] = call[j]
  BY <1>1, <1>2
<1>4. rows \subseteq rows' /\ rows' \subseteq (Users \X (1..MaxStreams))
  <2>1. CASE Inserted(m)
    <3>1. call[m].at = "insert" /\ rows' = rows \cup {<<call[m].user, call[m].stream>>}
      BY <2>1 DEF Inserted, InFlight
    <3>2. call[m].user \in Users /\ call[m].stream \in 0..MaxStreams /\ call[m].stream # 0
      BY <1>1, <1>2, <3>1 DEF Call, Answers, NoStream, GreetInv, CallsAsk
    <3>3. call[m].stream \in 1..MaxStreams
      BY <3>2, ConstantsAssumption
    <3> QED
      BY <1>2, <3>1, <3>2, <3>3
  <2>2. CASE Rejects(m)
    BY <1>2, <2>2 DEF Rejects
  <2> QED
    BY <2>1, <2>2
<1>5. /\ asked' \in [Callers -> Answers \cup {Pending, Idle}] /\ asked'[m] = Idle
      /\ \A j \in Messages \ {m} : asked'[j] = asked[j]
  <2>1. CASE Inserted(m)
    <3>1. asked' = asked /\ call[m].at = "insert"
      BY <2>1 DEF Inserted, InFlight
    <3> QED
      BY <1>2, <3>1 DEF GreetInv, CallsAsk
  <2>2. CASE Rejects(m)
    <3>1. asked' = [asked EXCEPT ![m] = Idle] /\ m \in Callers
      BY <2>2 DEF Rejects, Callers
    <3> QED
      BY <1>2, <3>1 DEF Callers
  <2> QED
    BY <2>1, <2>2
<1>6. CallsAsk' /\ KnownIsSaved'
  BY <1>1, <1>3, <1>4, <1>5, OneCall
<1>7. TypeOK' /\ TimersDue'
  BY <1>1, <1>3, <1>4, <1>5 DEF GreetInv, TypeOK, TimersDue
<1> QED
  BY <1>6, <1>7 DEF GreetInv

LEMMA GreetStep == GreetInv /\ [Next]_vars => GreetInv'
<1> SUFFICES ASSUME GreetInv, [Next]_vars PROVE GreetInv'
  OBVIOUS
<1>1. CASE Next
  BY <1>1, WorldKeeps, CacheExpiresKeeps, TwitchServesKeeps, LiveKeeps, MessageArrivesKeeps,
     AnswerKeeps, LookedUpKeeps, GreetedKeeps, CallEnds DEF Next
<1>2. CASE UNCHANGED vars
  BY <1>2 DEF vars, twitch, cache, service, GreetInv, TypeOK, CallsAsk, TimersDue, KnownIsSaved
<1> QED
  BY <1>1, <1>2

-----------------------------------------------------------------------------

LEMMA GreetInvariant == Spec => []GreetInv
<1>1. GreetInv /\ [Next]_vars => GreetInv'
  BY GreetStep
<1> QED
  BY InitGreetInv, <1>1, PTL DEF Spec

\* A timer that could fire stops the clock, and an outdated cache has one no later
\* than the cache time after it was made out of date.
LEMMA OutdatedFollows == GreetInv => OutdatedIsBounded
<1> SUFFICES ASSUME GreetInv, online, stream # current PROVE now <= upset + CacheTime
  BY DEF OutdatedIsBounded
<1>1. PICK i \in DOMAIN timers : timers[i] <= upset + CacheTime
  BY DEF GreetInv, TimersDue
<1>2. now <= timers[i] /\ timers[i] \in Int
  <2> DEFINE D == 0..(MaxNow + CacheTime)
  <2>1. timers \in Seq(D)
    BY DEF GreetInv, TypeOK
  <2> HIDE DEF D
  <2>2. timers[i] \in D
    BY <2>1
  <2> QED
    BY <2>2 DEF D, GreetInv, TimersDue
<1>3. now \in Int /\ upset + CacheTime \in Int
  BY DEF GreetInv, TypeOK, CacheTime
<1> QED
  BY <1>1, <1>2, <1>3

LEMMA SavedFollows == GreetInv => SavedIsNotGreeted
BY DEF GreetInv, KnownIsSaved, SavedIsNotGreeted, InFlight

\* Broadcaster's cache is out of date for the cache time at most, however refreshes,
\* late answers and flips of the stream interleave.
THEOREM OutdatedBounded == Spec => []OutdatedIsBounded
BY GreetInvariant, OutdatedFollows, PTL

\* The row of a user saved for the current stream keeps the user from being greeted
\* again, across crashes and whatever else is in flight.
THEOREM SavedNotGreeted == Spec => []SavedIsNotGreeted
BY GreetInvariant, SavedFollows, PTL
=============================================================================
