---------------------------- MODULE Subscriptions ----------------------------
(***************************************************************************)
(* SubscriptionHandler and SubscriberRepository: five kinds of chat notice *)
(* are thanked for and then recorded, a gift in two tables, and !lastsub   *)
(* tells of the record made last.                                          *)
(*                                                                         *)
(* Every await is a step, so the handlers of several notices interleave,   *)
(* and each can fail: nothing undoes the steps before.                     *)
(***************************************************************************)
EXTENDS Naturals, Sequences, FiniteSetsExt

CONSTANTS
    Handlers,           \* the notices that can be in flight
    Gifters,
    MaxNotices, MaxGift,    \* bounds: notices in all, gifts at once
    Nobody,             \* no gifter
    Free                \* a slot with no notice in it

VARIABLES
    notices,    \* Twitch: the notices sent so far
    announced,  \* Twitch: gifts in community gifts, and those still to be sent
    handling,   \* each handler's notice, and where it stands
    stamp,      \* the clock that created_at is taken from
    gifts,      \* subscription_gift_user
    subscribers,    \* subscriber
    single,     \* history: gifts not part of a community gift
    failed,     \* history: something has failed
    overlapped       \* history: two notices have been in flight together

tables == <<gifts, subscribers>>
vars == <<notices, announced, handling, stamp, tables, single, failed, overlapped>>

\* SubscriptionType, and the extension, which is recorded as a ReSub.
Kinds == {"NewSub", "PrimeSub", "ReSub", "Extend", "CommunitySub", "GiftSub"}
Gifted == {"CommunitySub", "GiftSub"}

Gift == [gifter : Gifters, giftCount : Nat \ {0}]
Handled == [at : {"say", "gift", "subscriber"}, kind : Kinds, prime : BOOLEAN,
            gifter : Gifters \cup {Nobody}, count : Nat, total : Nat,
            gift : Nat, createdAt : Nat, of : Nat]
Subscriber == [type : Kinds \ {"Extend"}, isPrime : BOOLEAN, gift : Nat, createdAt : Nat, of : Nat]

TypeOK ==
    /\ notices \in 0..MaxNotices /\ stamp \in 0..MaxNotices
    /\ announced \in [Gifters -> [total : Nat, due : Nat]] /\ single \in [Gifters -> Nat]
    /\ handling \in [Handlers -> Handled \cup {Free}]
    /\ \A h \in Handlers : handling[h] # Free =>
           /\ handling[h].gift <= Len(gifts) /\ handling[h].createdAt <= stamp
           /\ handling[h].of \in 1..notices
    /\ gifts \in Seq(Gift)
    /\ subscribers \in Seq(Subscriber)
    /\ failed \in BOOLEAN /\ overlapped \in BOOLEAN

Init ==
    /\ notices = 0 /\ stamp = 0
    /\ announced = [g \in Gifters |-> [total |-> 0, due |-> 0]]
    /\ single = [g \in Gifters |-> 0]
    /\ handling = [h \in Handlers |-> Free]
    /\ gifts = <<>> /\ subscribers = <<>>
    /\ failed = FALSE /\ overlapped = FALSE

-----------------------------------------------------------------------------
(* Chat notices: the handler of each starts by thanking.                   *)

Notice(h, kind, prime, gifter, count, total) ==
    /\ handling[h] = Free /\ notices < MaxNotices
    /\ notices' = notices + 1
    /\ handling' = [handling EXCEPT ![h] =
           [at |-> "say", kind |-> kind, prime |-> prime, gifter |-> gifter, count |-> count,
            total |-> total, gift |-> 0, createdAt |-> 0, of |-> notices + 1]]
    /\ overlapped' = (overlapped \/ \E j \in Handlers : handling[j] # Free)
    /\ UNCHANGED <<stamp, tables, failed>>

\* onSubscribe, onResubHandler and onSubExtend.
Subscribed(h, kind, prime) ==
    /\ Notice(h, kind, prime, Nobody, 0, 0)
    /\ UNCHANGED <<announced, single>>

\* onCommunitySub: gifterGiftCount is what the gifter has given in all.
CommunityGift(h, g, n) ==
    /\ announced' = [announced EXCEPT ![g] = [total |-> @.total + n, due |-> @.due + n]]
    /\ Notice(h, "CommunitySub", FALSE, g, n, announced[g].total + single[g] + n)
    /\ UNCHANGED single

\* onSubGift, for one of a community gift and for a single gift alike:
\* giftCounts, which should tell them apart, is never filled.
GiftReceived(h, g) ==
    /\ Notice(h, "GiftSub", FALSE, g, 1, 0)
    /\ IF announced[g].due > 0
       THEN announced' = [announced EXCEPT ![g].due = @ - 1] /\ UNCHANGED single
       ELSE single' = [single EXCEPT ![g] = @ + 1] /\ UNCHANGED announced

-----------------------------------------------------------------------------
(* From the thanks to the records.                                         *)

At(h, at) == handling[h] # Free /\ handling[h].at = at

GiftCountInAll(c) == IF c.kind = "CommunitySub" THEN c.total ELSE 1

\* The giftCount of createSubscriptionCommunityRecord and ...GiftRecord.
GiftCount(c) == IF c.kind = "CommunitySub" THEN c.count ELSE 1

TypeOf(c) == IF c.kind = "Extend" THEN "ReSub" ELSE c.kind

\* onSubExtend takes every plan but Prime for Prime; no gift is.
IsPrime(c) == CASE c.kind = "Extend" -> ~c.prime
                [] c.kind \in Gifted -> FALSE
                [] OTHER             -> c.prime

\* The thanks are said, and the record is stamped before it is written.
Thanked(h) ==
    /\ At(h, "say")
    /\ stamp' = stamp + 1
    /\ handling' = [handling EXCEPT ![h].createdAt = stamp + 1,
                        ![h].at = IF handling[h].kind \in Gifted THEN "gift" ELSE "subscriber"]
    /\ UNCHANGED <<notices, announced, tables, single, failed, overlapped>>

\* create with an include writes the gift first, on its own.
GiftCreated(h) ==
    /\ At(h, "gift")
    /\ gifts' = Append(gifts, [gifter |-> handling[h].gifter, giftCount |-> GiftCount(handling[h])])
    /\ handling' = [handling EXCEPT ![h].gift = Len(gifts) + 1, ![h].at = "subscriber"]
    /\ UNCHANGED <<notices, announced, stamp, subscribers, single, failed, overlapped>>

LatestGift(c) == IF c.kind \in Gifted THEN Len(gifts) ELSE 0

\* The foreign key of BelongsTo.
GiftOf(c) == c.gift

SubscriberCreated(h) ==
    /\ At(h, "subscriber")
    /\ LET c == handling[h]
       IN  subscribers' = Append(subscribers, [type |-> TypeOf(c), isPrime |-> IsPrime(c),
                              gift |-> GiftOf(c), createdAt |-> c.createdAt, of |-> c.of])
    /\ handling' = [handling EXCEPT ![h] = Free]
    /\ UNCHANGED <<notices, announced, stamp, gifts, single, failed, overlapped>>

\* The chat or a query rejects.  The repository returns the promise without
\* awaiting it, so its catch is not reached and the handler rejects.
Rejects(h) ==
    /\ handling[h] # Free
    /\ handling' = [handling EXCEPT ![h] = Free] /\ failed' = TRUE
    /\ UNCHANGED <<notices, announced, stamp, tables, single, overlapped>>

-----------------------------------------------------------------------------

FirstSubscriber == {i \in DOMAIN subscribers :
                      \A j \in DOMAIN subscribers : subscribers[i].createdAt <= subscribers[j].createdAt}

\* getLastSubscriber.
LastSubscriber == {i \in DOMAIN subscribers :
                      \A j \in DOMAIN subscribers : subscribers[j].createdAt <= subscribers[i].createdAt}

Next ==
    \E h \in Handlers :
        \/ \E kind \in {"ReSub", "Extend"}, prime \in BOOLEAN : Subscribed(h, kind, prime)
        \/ Subscribed(h, "NewSub", FALSE) \/ Subscribed(h, "PrimeSub", TRUE)
        \/ \E g \in Gifters : GiftReceived(h, g) \/ \E n \in 1..MaxGift : CommunityGift(h, g, n)
        \/ Thanked(h) \/ GiftCreated(h) \/ SubscriberCreated(h) \/ Rejects(h)

Spec == Init /\ [][Next]_vars

-----------------------------------------------------------------------------
(* Properties.                                                             *)

RecordsOf(type, g) == {i \in DOMAIN subscribers :
    subscribers[i].type = type /\ gifts[subscribers[i].gift].gifter = g}

CountOf(type, g) ==
    MapThenSumSet(LAMBDA i : gifts[subscribers[i].gift].giftCount, RecordsOf(type, g))

\* When every notice has been handled and nothing failed, the gifts a gifter's
\* community gifts were recorded with are the gifts recorded one by one, less the
\* single ones, in whatever order the handlers were done.
GiftsAddUp ==
    (\A h \in Handlers : handling[h] = Free) /\ ~failed =>
        \A g \in Gifters : announced[g].due = 0 =>
            CountOf("GiftSub", g) = CountOf("CommunitySub", g) + single[g]

\* A recorded gift has a giver: its gift is written, its own, and no other
\* record's.  A gift that no record has is of a handler still on its way, or one
\* that failed in between.
GiftsHaveTheirGiver ==
    /\ \A i \in DOMAIN subscribers :
           LET s == subscribers[i]
           IN  /\ s.gift # 0 <=> s.type \in Gifted
               /\ s.gift \in 0..Len(gifts)
               /\ \A j \in DOMAIN subscribers : s.gift # 0 /\ subscribers[j].gift = s.gift => i = j
    /\ ~failed => \A n \in DOMAIN gifts :
           \/ \E i \in DOMAIN subscribers : subscribers[i].gift = n
           \/ \E h \in Handlers : handling[h] # Free /\ handling[h].gift = n

\* !lastsub tells of the latest notice, unless notices overlapped or one failed.
LastSubIsLatest ==
    (\A h \in Handlers : handling[h] = Free) /\ ~failed /\ ~overlapped =>
        \A i \in LastSubscriber : subscribers[i].of = notices
=============================================================================
