------------------------------- MODULE MCRecords -------------------------------
(* What the bot records, for TLC: greetings, deaths, subscriptions, and changes  *)
(* of the database itself; and the ages it tells.  They share no state, so a     *)
(* behaviour is one of them.                                                     *)
EXTENDS Greeting, TLC

CONSTANTS
    m1, m2, u1, start, k1, k2, g1, g2, h1, h2, p1, s1,
    Calls, Games, Milestone, MaxDeathStreams, MaxDeaths,
    Handlers, Gifters, MaxNotices, MaxGift, Nobody, Free,
    Pairs, Tags, MaxWrites, None, MaxDays

VARIABLES
    part,
    clock, live, counts, cooldown, death, deaths, raced, late, firsts,
    notices, announced, handling, stamp, gifts, subscribers, single, failed, overlapped,
    db, app, step, script, dump, written, torn,
    age

Deaths == INSTANCE DeathCounter
              WITH now <- clock, call <- death, MaxStreams <- MaxDeathStreams
Subs == INSTANCE Subscriptions
Deploy == INSTANCE Deployment
Ages == INSTANCE Timespan

ASSUME DeathsAssumption ==
    {MaxDeathStreams, MaxNow, Milestone} \subseteq Nat \ {0} /\ Idle \notin Deaths!Call
ASSUME SubscriptionsAssumption == {MaxNotices, MaxGift} \subseteq Nat /\ Free \notin Subs!Handled
ASSUME DeploymentAssumption == Tags \subseteq Deploy!Migrations /\ Tags # {} /\ MaxWrites \in Nat
ASSUME AgesAssumption == MaxDays \in Nat

deathVars == <<clock, live, counts, cooldown, death, deaths, raced, late, firsts>>
subVars == <<notices, announced, handling, stamp, gifts, subscribers, single, failed, overlapped>>
deployVars == <<db, app, step, script, dump, written, torn>>
allVars == <<part, vars, deathVars, subVars, deployVars, age>>

\* Every number of days, and the hours and minutes at which a part turns over.
AgesTold == {d * 1440 + m : d \in 0..MaxDays, m \in {0, 59, 60, 1439}}

RecordsInit ==
    /\ part \in {"greeting", "deaths", "subscriptions", "deployment", "ages"}
    /\ Init /\ Deaths!Init /\ Subs!Init /\ Deploy!Init
    /\ part # "greeting" => begun = 0
    /\ part # "deployment" => db = Deploy!Empty
    /\ age \in IF part = "ages" THEN AgesTold ELSE {0}

RecordsNext ==
    /\ UNCHANGED <<part, age>>
    /\ \/ part = "greeting" /\ Next /\ UNCHANGED <<deathVars, subVars, deployVars>>
       \/ part = "deaths" /\ Deaths!Next /\ UNCHANGED <<vars, subVars, deployVars>>
       \/ part = "subscriptions" /\ Subs!Next /\ UNCHANGED <<vars, deathVars, deployVars>>
       \/ part = "deployment" /\ Deploy!Next /\ UNCHANGED <<vars, deathVars, subVars>>

RecordsSpec == RecordsInit /\ [][RecordsNext]_allVars

Symmetry == Permutations(Messages) \cup Permutations(Calls) \cup Permutations(Games)

RecordsTypeOK == TypeOK /\ Deaths!TypeOK /\ Subs!TypeOK /\ Deploy!TypeOK
CountsAgree == Deaths!CountsAgree
FirstSaidOnce == Deaths!FirstSaidOnce
LastStreamIsPrevious == Deaths!LastStreamIsPrevious
GiftsAddUp == Subs!GiftsAddUp
GiftsHaveTheirGiver == Subs!GiftsHaveTheirGiver
LastSubIsLatest == Subs!LastSubIsLatest
RestorePointIsComplete == Deploy!RestorePointIsComplete
PendingCanRun == Deploy!PendingCanRun
RemovedStaysRemoved == Deploy!RemovedStaysRemoved
AgesAddUp == Ages!AgesAddUp
=============================================================================
