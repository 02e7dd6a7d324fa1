----------------------------- MODULE DeathCounter -----------------------------
(***************************************************************************)
(* !death and !lastdeathcount: a counter in the database for every stream  *)
(* and game, which every call finds, increments in memory and saves, and   *)
(* the cooldown in memory that decides which deaths are announced.         *)
(*                                                                         *)
(* A call is a step from each await to the next, so calls interleave; the  *)
(* next stream can begin and the game change meanwhile.  A unit of time is *)
(* just more than the five minutes of the cooldown.                        *)
(***************************************************************************)
EXTENDS Naturals, Sequences, FiniteSets, FiniteSetsExt

CONSTANTS
    Calls,              \* the calls that can be in flight
    Games,
    Milestone,          \* every how many deaths one is announced
    MaxStreams, MaxNow, MaxDeaths,      \* bounds
    Idle                \* a slot with no call in it

VARIABLES
    now,
    live,       \* Twitch: the stream that is live, or was last
    counts,     \* death_count, in the order of created_at
    cooldown,   \* DeathCommand.commandTimeout
    call,       \* each call of !death
    deaths,     \* history: the deaths recorded per stream and game
    raced,      \* history: where two calls have been in flight together
    late,       \* history: a row was inserted after its stream was over
    firsts      \* history: how often 'first' was said per stream and game

history == <<deaths, raced, late, firsts>>
vars == <<now, live, counts, cooldown, call, history>>

Streams == 1..MaxStreams
Sessions == Streams \X Games
FirstNow == 1      \* the clock starts later than the epoch, which is 0

Call == [at : {"find", "insert", "save", "reply"}, of : Sessions, row : Nat, count : Nat \ {0}]

Recorded == MapThenSumSet(LAMBDA s : deaths[s], Sessions)

TypeOK ==
    /\ now \in FirstNow..MaxNow /\ cooldown \in {0} \cup FirstNow..now
    /\ live \in Streams
    /\ counts \in Seq([of : Sessions, count : Nat \ {0}])
    /\ call \in [Calls -> Call \cup {Idle}]
    /\ \A k \in Calls : call[k] # Idle => call[k].row <= Len(counts)
    /\ deaths \in [Sessions -> Nat] /\ firsts \in [Sessions -> Nat]
    /\ raced \subseteq Sessions /\ late \in BOOLEAN

Init ==
    /\ now = FirstNow /\ live = 1
    /\ counts = <<>> /\ cooldown = 0
    /\ call = [k \in Calls |-> Idle]
    /\ deaths = [s \in Sessions |-> 0] /\ firsts = [s \in Sessions |-> 0]
    /\ raced = {} /\ late = FALSE

-----------------------------------------------------------------------------
(* Twitch, the clock and the process.                                      *)

\* Between two streams the command is refused.
NextStream ==
    /\ live < MaxStreams /\ live' = live + 1
    /\ UNCHANGED <<now, counts, cooldown, call, history>>

Tick ==
    /\ now < MaxNow /\ now' = now + 1
    /\ UNCHANGED <<live, counts, cooldown, call, history>>

\* The calls in flight and the cooldown are lost.
Crash ==
    /\ call' = [k \in Calls |-> Idle] /\ cooldown' = 0
    /\ UNCHANGED <<now, live, counts, history>>

-----------------------------------------------------------------------------
(* !death.                                                                 *)

InFlight(k, at) == call[k] # Idle /\ call[k].at = at

\* Twitch has answered with the stream that is live and the game of the moment.
StreamAnswered(k, g) ==
    /\ call[k] = Idle
    /\ Recorded + Cardinality({j \in Calls : call[j] # Idle}) < MaxDeaths
    /\ call' = [call EXCEPT ![k] = [at |-> "find", of |-> <<live, g>>, row |-> 0, count |-> 1]]
    /\ raced' = raced \cup {s \in {<<live, g>>} : \E j \in Calls : call[j] # Idle /\ call[j].of = s}
    /\ UNCHANGED <<now, live, counts, cooldown, deaths, late, firsts>>

MatchingAnyGame(s) == {i \in DOMAIN counts : counts[i].of[1] = s[1]}

Matching(s) == {i \in DOMAIN counts : counts[i].of = s}

\* findOrCreate looks the row up; no unique index keeps it to one.
Found(k) ==
    /\ InFlight(k, "find")
    /\ LET rows == Matching(call[k].of)
       IN  \/ /\ rows = {}
              /\ call' = [call EXCEPT ![k].at = "insert"]
           \/ \E i \in rows :
                  call' = [call EXCEPT ![k].at = "save", ![k].row = i,
                                       ![k].count = counts[i].count + 1]
    /\ UNCHANGED <<now, live, counts, cooldown, history>>

\* ... and inserts it if it found none.
Inserted(k) ==
    /\ InFlight(k, "insert")
    /\ counts' = Append(counts, [of |-> call[k].of, count |-> 1])
    /\ call' = [call EXCEPT ![k].at = "reply"]
    /\ deaths' = [deaths EXCEPT ![call[k].of] = @ + 1]
    /\ late' = (late \/ live # call[k].of[1])
    /\ UNCHANGED <<now, live, cooldown, raced, firsts>>

\* The incremented count is written over whatever the row holds by now.
Saved(k) ==
    /\ InFlight(k, "save")
    /\ counts' = [counts EXCEPT ![call[k].row].count = call[k].count]
    /\ call' = [call EXCEPT ![k].at = "reply"]
    /\ deaths' = [deaths EXCEPT ![call[k].of] = @ + 1]
    /\ UNCHANGED <<now, live, cooldown, raced, late, firsts>>

\* The repository logs a failing query and returns null: nothing is said.
QueryFails(k) ==
    /\ \E at \in {"find", "insert", "save"} : InFlight(k, at)
    /\ call' = [call EXCEPT ![k] = Idle]
    /\ UNCHANGED <<now, live, counts, cooldown, history>>

SaysFirstAgain(count) == count % Milestone = 1

SaysFirst(count) == count = 1

\* Once the cooldown is over only a first death is announced; until then every
\* milestone.
Replied(k) ==
    /\ InFlight(k, "reply")
    /\ LET elapsed == now > cooldown
           count == call[k].count
       IN  /\ cooldown' = IF elapsed \/ count % Milestone = 0 THEN now ELSE cooldown
           /\ firsts' = IF elapsed /\ SaysFirst(count)
                        THEN [firsts EXCEPT ![call[k].of] = @ + 1] ELSE firsts
    /\ call' = [call EXCEPT ![k] = Idle]
    /\ UNCHANGED <<now, live, counts, deaths, raced, late>>

-----------------------------------------------------------------------------
(* !lastdeathcount.                                                        *)

LastOfAnyStream(stream) == IF counts = <<>> THEN {} ELSE {counts[Len(counts)].of[1]}

\* getLastStreamDeathCount: the stream, but for the current one, that has the
\* row created last.
LastStream(stream) ==
    LET others == {i \in DOMAIN counts : counts[i].of[1] # stream}
    IN  {counts[i].of[1] : i \in {i \in others : \A j \in others : j <= i}}

-----------------------------------------------------------------------------

Next ==
    \/ NextStream \/ Tick \/ Crash
    \/ \E k \in Calls : \/ \E g \in Games : StreamAnswered(k, g)
                        \/ Found(k) \/ Inserted(k) \/ Saved(k)
                        \/ QueryFails(k) \/ Replied(k)

Spec == Init /\ [][Next]_vars

-----------------------------------------------------------------------------
(* Properties.                                                             *)

\* Without two calls in flight there together, a stream and game has one row at
\* most, and it counts the deaths that were recorded.  Failing queries and crashes
\* lose no death.
CountsExact ==
    \A s \in Sessions \ raced :
        /\ \A i, j \in Matching(s) : i = j
        /\ \A i \in Matching(s) : counts[i].count = deaths[s]

\* With them the counts of a stream and game can add up to less, never to more.
CountsAgree ==
    /\ \A s \in Sessions : MapThenSumSet(LAMBDA i : counts[i].count, Matching(s)) <= deaths[s]
    /\ CountsExact

\* The first death in a stream and game is announced as the first once at most,
\* whatever the cooldown, unless calls raced there.
FirstSaidOnce == \A s \in Sessions \ raced : firsts[s] <= 1

\* !lastdeathcount tells of the latest earlier stream that anybody died in,
\* unless a death was recorded after its stream was over.
LastStreamIsPrevious ==
    ~late =>
        LET died == {s \in Streams : s # live /\ \E g \in Games : deaths[<<s, g>>] > 0}
        IN  LastStream(live) = {s \in died : \A t \in died : t <= s}
=============================================================================
