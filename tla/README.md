# TLA+ models of Stream Assist Bot

Models, model checking and proofs for the Twitch chat bot in `src/`. The bot is
one Node process: everything it does is a callback of a chat message, an
EventSub notification, a timer or an HTTP request, and each `await` in a
callback is a point where any other callback can run. What is hard to test in
it is what is read before an await and used after it, what two callbacks do to
shared state in an order nobody tried, and what a crash leaves behind in the
database.

## Inventory

| Component | State | Operations | Interacts with | What makes it correct |
| --- | --- | --- | --- | --- |
| `MessageHandler` | `globalTimeouts` | `handle` per chat message | `Broadcaster`, `StreamStateService`, Twitch follower lookup, every command | one timer per bucket, at its latest execution; executions of a bucket are spaced; restrictions hold when the command starts; a refusal's waiting time is enough |
| `CommandResponseService` | `responseCache` | `initialize`, add, update, remove and restore a text, pick one | the repository; read by every command, written by `!command` | the cache holds the stored, active texts: never one that is not stored, and each once |
| `CommandResponseRepository` | tables `command_response`, `command_response_text`, soft-deleted rows with a deletion marker | transactions on texts, variants and whole commands | the database | restoring gives back what the removal took; a unique text per command and variant |
| `StreamEventHandler` | static `clearTimeoutRef`, Node timers, `stream_event_record` | `streamOnline`, `streamOffline`, the unlurk timer | `LurkRepository`, `ChatBot` | lurkers of a stream that has ended are swept, after a grace period |
| `StreamStateService` | `isLive`, `pendingOfflineTimers` | `initialize`, `setOnline`, `setOffline` | `Broadcaster`; read by `MessageHandler` and `JoinGreetingHandler` | `isLive` agrees with Twitch; a session is cleared after an unbroken grace period, once |
| Lurk commands | `lurking_user` | `!lurk`, `!unlurk`, `!lurking` | `StreamEventHandler` | one open row per lurker, closed by the lurker or a sweep |
| Greeting | `greetedUsers`, `greeted_user` | `greetIfEligible`, `clear` | `Broadcaster`, `StreamStateService` | each moderator and VIP is greeted once per stream |
| `Broadcaster` | cached user and stream, two expiry timers | `getBroadcaster`, `getStream`, `isOnline` | Twitch API | no answer older than the caching time is served |
| Death counter | `death_count`, announcement timer | `!death`, `!deathcount`, `!lastdeathcount` | Twitch API | no death is lost; a first death is announced once |
| Subscriptions | `subscriber`, `subscription_gift_user` | five kinds of chat notice, `!lastsub` | `ChatBot` | gifts add up, and each has its giver |
| Authentication | token file, `userAuthenticated`, the auth provider | load, authorise, refresh, revoke | `ChatBot.start` and `shutdown` | the bot runs only with a token it may use |
| Application | the start-up sequence, the database connection | `main`, `exit` | everything | nothing runs before the cache is loaded, or after the database is gone |
| Overlay | the socket server's clients, the page's socket and retry interval | broadcast, connect, close, retry | the process, whose restart ends every socket | the page is connected again after the bot returns |
| Deployment scripts | the database, its dumps, `SequelizeMeta` | backup, migrate, fresh, four migrations | Docker, Postgres, the operator | a failed step leaves a complete restore point, and a migration that is repeated succeeds |
| `Timespan` | none | an age in years, months, days, hours and minutes | `!followage` and others | the parts add up to the age |
| The rest | none that is read back | announcements and inserts of raids, bans, cheers, follows; stateless commands; templates; the scheduler; configuration, wiring, logging | | |

The behaviours that are hard to test: messages, editing calls, stream events
and timers that interleave at awaits; answers that arrive out of order; cached
or checked values that are stale when used (list indexes, the live state, a
timer reference); queries that fail between two steps; a crash between a commit
and the change it belongs with; and arithmetic on times, where milliseconds,
seconds and half periods meet. `PROJECT.json` lists each at its line.

## Modules

| Module | What it is |
| --- | --- |
| `MessageHandler` | `MessageHandler.handle` for any number of messages in flight |
| `MessageHandlerProofs` | its inductive invariant, and every safety property proved |
| `MCMessageHandler` | its instance for TLC |
| `CommandResponses` | `CommandResponseService` over the text transactions of the repository |
| `CommandResponsesProofs` | its properties proved: the types and the order of commit and cache for any calls, the rest for adds, or while no calls overlap |
| `MCCommandResponses` | its instance for TLC |
| `CommandRepository` | every writing operation of `CommandResponseRepository`, one transaction each |
| `CommandRepositoryProofs` | its inductive invariant, and its invariants and step properties proved |
| `MCCommandRepository` | its instance for TLC |
| `StreamLifecycle` | `StreamEventHandler`, `StreamStateService`, `ChatBot`'s stream callbacks and start, and the lurk rows |
| `StreamLifecycleProofs` | its inductive invariant, and every property proved |
| `MCStreamLifecycle` | its instance for TLC |
| `ResponseStore` | abstract: what the commands of `CommandResponseRepository` promise |
| `CommandRepositoryStore` | the refinement mapping from `CommandRepository` to `ResponseStore` |
| `CommandRepositoryStoreProofs` | the proof that it is one |
| `Greeting` | `JoinGreetingHandler`, `GreetUserService` and its table over `Broadcaster`'s cached stream |
| `GreetingProofs` | the inductive invariant of `Greeting`, and its properties proved |
| `DeathCounter` | `!death` and `!lastdeathcount` |
| `Subscriptions` | `SubscriptionHandler`, `SubscriberRepository`, `!lastsub` |
| `Deployment` | `database.sh` over the migrations |
| `Timespan` | `Timespan` and `getAgeReport` |
| `MCRecords` | these five for TLC |
| `RecordsProofs` | an inductive invariant for each of the other parts, and every property of `MCRecords` proved |
| `MCGreeting` | `Greeting` alone, for the run that shows a finding |
| `BotProcess` | `App`, `AuthenticationServer`, `auth.provider.ts`, `ChatBot.start` and `shutdown`, and the restart by Docker |
| `Overlay` | the overlay page |
| `MCOperations` | `BotProcess` and `Overlay` composed, for TLC |
| `OperationsProofs` | its inductive invariant, and its safety properties proved |

The modules meet where the components do. `MessageHandler` sees
`StreamStateService` as a flag that flips (its `StreamFlips`), which
`StreamLifecycle` models in full. `StreamLifecycle` in turn sees
`MessageHandler` as the admission of a lurk command (`Admit`): a check of
`isLive`, an await, then the command. `CommandResponses` and `CommandRepository`
share the two response tables: the first lets the text transactions interleave,
under keys that are always there; the second runs every operation whole, and
follows the rows through removals and restores. `Greeting` and `StreamLifecycle`
share `StreamStateService`: the first has no more of it than the flag and the
clearing of the session, and lets an event be handled any time after the stream
changed. `MCOperations` composes the page with the process: the instance of the
socket server that the page sees is the process's.

In every module an action is the code from one await to the next. A database or
Twitch answer and the code that resumes on it are one step; an action named
`...Rejects` or `...Fails` is the same await when it rejects. A definition that
`PROJECT.json` names under "mutants" ("as") is a plausible wrong version of
another one ("of"). No action uses it; it is there to see that a property
notices it.

### MessageHandler

`pc[m]` is the await at which message `m` stands and `call[m]` are its locals.
`ReceiveMessage` is `handle` up to `getBroadcaster`; `BroadcasterResolved`
checks the restriction and goes on to `isFollowedBy`; `FollowerResolved` is
everything after that in one piece, because the code awaits nothing between the
authorisation and the start of the command: `isAuthorized`, the look-up of the
timer, and then `Execute` or `RefuseOnCooldown`. `TwitchCallRejected` is a
failing Twitch call. Nothing in `handle` catches it, nor in `ChatBot`'s callback
(`chat-bot.ts:87`), so it ends the process; Docker starts another
(`ProcessRestarts`), which has no timers and none of the messages in flight.
`life` counts the processes. The cooldown is therefore kept within one process
and not over a restart, and `TimerIsLatestExecution` and `CooldownSpacing` say so.

`executions` and `promises` are history variables: what started when, and what
a refused user was told. The clock counts milliseconds and moves in steps of
`ClockStep`; periods are in half seconds, because a privileged user's is half
of `timeout`. Users are an abstract set with roles (`RolesOf`), commands have
flags, a restriction and a timeout, and a command has one or more buckets, as
`cooldownKey` makes them.

### CommandResponses

A call is a synchronous check of the cache (`AddCall`, `UpdateCall`, ...), the
awaited transaction (`...Lookup`, `...Commit`) and a synchronous change of the
cache (`...Apply`). `local[c]` holds what the code keeps across the await: the
index found in the list, and whether the key had an entry. Transactions run at
read committed, so one that reads and then writes is two steps, unless a row
lock keeps the others out (`LockParent`). A row's id is its place in `rows`;
`Fold` is the comparison of the unique index. A text's weight is left out: it
only weighs the random pick. `initialize` asks for
the texts in no order; the model takes some order, and no property or proof uses
which. `Restart` is a crash and the `initialize` after it. `TransactionFails` is any
other failure, rolled back.

### CommandRepository

`entries` and `texts` are the two tables, with a row's id its place. `removed` is
`deletedAt`, and `marker` the `deletionId`; since each removal draws a fresh id,
ids are numbered in the order of the removals (`removals`), which is also the
order of `deletedAt`. An operation that finds nothing or fails changes nothing and
is no step. `SoftDelete`, `RestoreDeletion` and `RestoreText` are the three private
helpers. The model keeps what is easily overlooked: `addCommand` and
`addCommandVariant` give a removed row back with its marker still on, while
`addCommandText` clears it; the look-ups of an add also see the removed rows, and
so does the unique index when a row is renamed. `taken` is a history variable:
by which removal a row was last removed, and the texts it had. The properties
compare it with what the code finds by the marker alone.

### StreamLifecycle

`live` is Twitch's state and `notices` are the EventSub notifications not yet
delivered; Twitch may repeat one. `OnlineArrives` and `OfflineArrives` are the
handlers up to their first await, `LookUp`, `CleanUp`, `SaveStart` and `SaveEnd`
the rest, each ended by `setOnline` or `setOffline` where the callback in
`ChatBot` goes on to call it. `ref` is `clearTimeoutRef`, `armed` the timers that
Node has yet to fire: the code never drops a reference to a timer that has
fired, so the two differ. `DueAfter` is Node's `setTimeout`, which replaces a
delay beyond 2^31 - 1 ms by one millisecond. `pending` are the grace timers of
`StreamStateService`. The sweep of a timer that fires may be rejected
(`SweepRejects`), which is only logged; `sweepFailed` remembers it.

`start` are the calls of `ChatBot.start`, of `main` and of every `/auth`, so one
can come while the bot runs, with timers and events in flight. Each asks
`Broadcaster`, which may have the stream in its `cache`; `TwitchAnswers` fixes
the answer, `Initialize` takes it over some time later, and leaves the grace
timers as they are; `listener` starts after that (`Listen`). `Shutdown` is that
of a `/revoke`: the handlers and timers go on. `spell.left` are the grace timers
that were there when `isLive` last changed. `ProcessEnds` loses everything but
the tables: a crash, or a clean-up that rejects in `streamOnline`, which nothing
catches.

In this module time is counted in units of five minutes, because the grace period is one such
unit and the unlurk delay two; `now` starts at a realistic date, since one of
the findings is about the size of dates.

### ResponseStore and CommandRepositoryStore

`ResponseStore` says what the repository does without its rows: a `shelf` with
the texts of every command and variant, and a `bin` with what was removed and by
which removal. `CommandRepositoryStore` maps rows to the two: an active row is on
the shelf; a row with a marker is in the bin, with the texts that bear the same
marker. `ImplementsStore` is the abstract specification as a property.

The abstract specification had to say something about the code that is easily
missed: a variant that was removed with its command and then added again without
a text keeps its marker. It is on the shelf and in the bin, and restoring the
command adds the old texts to the new ones. No document speaks of that case, so
it is no finding, but the store would be simpler without it.

### Greeting

`call[m]` is a message's `greetIfEligible` with the await at which it stands: for
Twitch's answer inside `hasUser` ("has") or `saveUser` ("save"), for the database
("query", "insert"), or about to greet ("say"). `asked` are the requests to
Twitch; `TwitchServes` fixes an answer and a later step delivers it, so answers
overtake one another, and each starts a timer (`timers`), as `getStream` does.
`Start` is the request that `ChatBot.start` makes. `session` is the set in
memory; `LookedUp` shows that it never decides anything, since the row does.
`upset` and `greeted` are history variables.

### DeathCounter

`counts` is the table in the order of `created_at`. A call is `StreamAnswered`,
`Found` and `Inserted` (the two halves of findOrCreate, with no unique index) or
`Saved`, then `Replied`. The clock's unit is just more than the five minutes of
the cooldown, which is all that the comparison tells apart. `SaysFirst` keeps a
detail: once the cooldown is over a death restarts it and is announced only if
it is the first, so a tenth death then goes unannounced. Two deaths in flight
lose one; `CountsAgree` says that nothing else does.

### Subscriptions

A notice is thanked for, stamped, and written; a gift in two inserts
(`GiftCreated`, `SubscriberCreated`), because `create` with an include opens no
transaction. Twitch announces a community gift and sends its gifts after it
(`announced`). The model keeps two oddities of the code: `onSubExtend` records
every plan but Prime as Prime (`subscription.handler.ts:42`), and `giftCounts`
is read but never filled, so each gift of a community gift is thanked for too.
The repository's `catch` is never reached, since the promise is returned without
an await: a failing insert rejects the handler.

### Deployment

`step` is the script's next step. A migration commits (`Migrated`) and is then
recorded in `SequelizeMeta` (`Recorded`); `Fails` can come before any step. `names`
are the sets of table names that are there, before and after the renaming;
`Runs` is whether a migration's statements find what they name. The renaming
cannot run again, so a run cut off before its record leaves a database (`torn`)
that only a restore repairs, as docs/production-database.md says. While the bot runs it
removes responses (`ResponseRemoved`) and gives them back, or adds them
(`ResponseAdded`); `RemovedStaysRemoved` says that nothing else gives one back.

### Timespan

The getters as operators on `age`, the minutes of a span. Floating-point
quotients are counted in thousandths of a day. `AgesAddUp` compares
`getAgeReport` with the age over every day of more than four years: it is exact
without months, short by less than a day with them, and never says 12 months,
although 12 of them (365.244 days) are shorter than the year (365.25). Not a
property, but a fact: an age below a minute gives an empty report, and the
getter `seconds`, which nothing uses, divides by 1000.

### BotProcess

`phase` is how far `main` is; "down" is a failed process that Docker starts
again, "stopped" one that exited with status 0. Reading the token file happens
when `auth.provider.ts` is imported (`Load`); a file cut short fails to parse,
and no start gets past it. `ops` are the calls to `fs.writeFile` and `fs.rm`,
which nobody awaits: they finish in any order, and a write first truncates. A write
that has opened the file before a removal goes on with what it opened, which is
no file any more ("detached"); `Settled` says that no call is in flight that can
still change the file. A call that fails (`WriteFails`, `RemoveFails`) is only
logged, and leaves the file as it was or cut short. `lastOp` is what the last call was
to make of the file, and what there was before it. `revoked` is the start of the
process in which the token was revoked: in that one the bot stays shut down
whatever becomes of the file, in a later one only if the removal succeeded.
`starts` are the `ChatBot.start` calls that await `initialize`, of `main` or of
a request to `/auth`; a shutdown in between does not stop them, and the listener
starts afterwards (`startRaced`). An error in a callback ends the process as
well (`Crash`): nothing handles an unhandled rejection.

### Overlay

Sockets are a small set that the page uses again; `handled` are those that have
`onclose`, which is set only when a socket opens, and on the newest one (`ws`),
whichever opened. The interval makes another socket every two seconds
(`Retry`), whether or not the attempts before it have ended. An attempt that is
refused starts no interval of its own: the one that runs goes on. When an older
attempt opens after the newest has ended, or after a close has made `ws` null,
the handlers are set on a socket that is dead, or `onOpenHandler` throws, with the
interval already cleared (`misplaced`): the page then never connects again.
`PageReconnects` says that it gets stuck in no other way. A page loaded while the
bot is down never retries, since no socket of it ever opened; the property speaks
of pages that were once connected.

## Runs

| Run | Shows |
| --- | --- |
| `dispatch` | the cooldown timers and the promised waits of `MessageHandler`, on three messages in flight, with Twitch calls that reject and end the process; a restricted command starts in the wrong state of the stream only if that changed while its message was in flight |
| `cooldown_period` | finding: a command can run again up to a second before its period is over |
| `responses_serial` | one editing call at a time, every operation, with failures and restarts: the cache is in sync when no call is in flight, and never ahead of the database |
| `responses_chat` | two adds in flight, the one operation chat offers: nothing unstored is served, nothing stored is missing at the end, and "already exists" is true |
| `responses_twice` | finding: two adds of one removed text serve it twice |
| `repository` | every sequence of the repository's operations: no text is active under a removed row, a restored row has the texts it was removed with, restoring a command takes back its latest removal only; and the repository implements `ResponseStore` |
| `lifecycle` | the unlurk sweep, the grace period and the live state, under repeats, overlapping handlers, a revocation, a crash, failing queries, of which one ends the process, and a second `ChatBot.start` in a process, which can overlap the first and take a cached or late answer |
| `live_state` | finding: a stream that ends while the bot starts is held for live |
| `unlurk_timer` | finding: the unlurk timer fires at once |
| `records` | how long an outdated stream is served; that nobody saved is greeted again; that deaths and gifts are counted once where no calls race; that a restore point is complete, the migrations after it can run and give no removed response back; that ages add up |
| `operations` | the token file against revoke, refresh, crashes and calls to `fs` that fail; who may be in chat; that the process comes back; that the overlay page comes back, with attempts that overlap, and never runs two intervals |
| `greet_once` | finding: a bot started before the stream greets a moderator with every message for up to five minutes |

### Bounds

* `dispatch`: three messages, of the broadcaster (no cooldown), a subscriber
  (half of it) and a viewer; two commands, one for everybody while the stream is
  live, one for followers at any time; a clock of 750 ms steps up to 3 s and a
  timeout of 3 s; one flip of the stream, since a message meets one state when it
  is checked and one when its command starts. Three messages are the least for a
  refusal that another execution overtakes, and for two executions around the end
  of a process; the step is no divisor of a second,
  so that elapsed times round up; the subscriber's period of 1.5 s is no whole
  number of seconds. Ends of the process need no bound of their own: each costs a
  message.
* `responses_serial`: one call, two keys of which one is not editable from
  chat, three texts of which two differ only in case, up to three rows.
  `responses_chat` and `responses_twice`: the same with two calls in flight.
  The bound on rows stops an insert, so that a third text of a key is restored
  or refused.
* `repository`: two rows, two texts and two removals, over two names, two
  variants and three texts of which two differ only in case. Two rows are two
  variants of a command removed at different times, or one that is renamed to
  where the other was; two texts of a row are one removed by itself and one
  removed with the row; two removals are an earlier and a later one.
* `lifecycle`: two handlers, since a third adds only longer
  queues; one lurk command and one row, since the sweep treats all rows alike;
  three flips (a stream, an outage and a return), one repeat, one crash, two starts of
  the bot in a process, which may overlap or follow one another, and a clock of three
  instants, which lets a grace period or a cache time run out between two events. The
  constraint `FewUpsets` keeps a behaviour from having all of them: it has three flips
  with a repeat or a crash, or two with both, or, with a second start in a process, two
  flips, or one and a repeat or a crash. The later flips are for the sweep, which needs
  a stream after an outage; what a second start upsets, it does within two.
  `live_state` and `unlurk_timer` have three flips and one start. `MaxTimers` bounds the identities of unlurk timers that are armed or
  referenced at a time, not how often one is started; eight are more than the other
  bounds let there be.
* `records`: five parts that share no state, each a set of initial states of one
  run. Greeting: two messages of one user, since users meet nowhere; two streams
  and two cache times, so that an answer about the first stream is still cached
  in the second. Deaths: two calls, two games, three streams, three deaths, with
  a milestone of two instead of ten; three streams are the least in which the
  last one with a death is not the previous one. Subscriptions: two handlers, one
  gifter, three notices, gifts of up to two: a community gift and its two gifts,
  or one of them and a single gift. Deployment: one pair of the seed data, removed
  and given back any number of times, images with three and with four migrations, two writes: one before a dump and one
  after. Ages: 1600 days, which is four years and a leap day and more, each at
  the four minutes at which another part turns over.
* `operations`: two ends of the process and two changes of the token, over one
  request to `/auth`: a write and a removal in flight together, and a restart
  after each. The page has two sockets and two retries instead of sixty: the newest
  attempt and an older one that opens late.
* `greet_once`: one message at a time of one user is enough.

The runs disable TLC's deadlock check where the bounds stop the system: messages
and the clock run out, and the bot itself never stops.

### Fairness

`BotProcess` assumes two things. Weak fairness of `Boots`: Docker starts a failed
process again (`restart: on-failure`, compose.yaml:14), and the queries of the
start-up are answered, or reject, which is a step too. Weak fairness of `Exited`:
an exit that was asked for ends. Nothing is assumed of a user who might
authorise, of `/revoke`, of crashes, or of calls to `fs`; failures are bounded by
`MaxEnds`, because a process that always fails never serves.

`Overlay` assumes weak fairness of the page's steps: the browser reports the end
of an attempt or a socket, and runs its interval. With it, `PageReconnects` says
that a page that was once connected is connected, has used up its retries, has
no server to connect to, or is stuck behind handlers set on the wrong socket.

All other properties are safety properties, and their specifications assume no
fairness.

## What is proved

Every invariant and every action property of the passing runs is stated by a
theorem, for every value of the constants that the modules' assumptions allow.
Those assumptions give the constants their types, and say that what stands for
an empty slot is none of the values. Two further conditions, on which operations
there are and on whether calls overlap, are stated in the theorems of
`CommandResponsesProofs` that need them.
`PROJECT.json` names the theorem of each property. Liveness and the findings stay
with TLC.

`MessageHandlerProofs` proves every property of the `dispatch` run for all
values of the constants: any number of users, commands, buckets and messages,
any timeouts and any clock. The assumptions are those that `MessageHandler`
states about its constants. The argument is one inductive invariant, `IInv`. The
properties of the run are most of its conjuncts; the others are what they need
to be inductive:

* `InThePast`: no timer, execution or promise is dated later than the clock, so
  that elapsed times are not negative, which the code's `Math.abs` hides;
* `RestrictionChecked`: a message beyond the restriction check saw the right
  live state, or the stream has flipped since it arrived;
* `PromiseBacked`: the arithmetic behind a promised wait, as long as the timer
  it was computed from is the bucket's latest.

`IInv` is preserved by one lemma per action. `FollowerResolved` is split as the
code is, into refusal of authorisation, execution without a timer, execution
past an expired one, and refusal on cooldown. Rounding up is handled by one
lemma on `CeilSeconds`.

`CommandRepositoryProofs` proves the invariants and the two properties of steps of
the `repository` run, for any
names, variants and texts, any comparison of texts, and any number of rows and
removals. `NoOrphans` is inductive with the types. The two action properties
need an invariant that says what a deletion id means:

* `MarkersIssued`: no row bears an id that has not been given out, so that a
  removal's id is fresh;
* `RemovedWhole`: as long as a row is removed, it bears the id of its removal, and
  the texts of the row that bear it are those the removal took, in their wording.

A removal establishes `RemovedWhole` because its id is fresh; a restore uses it;
every other operation touches texts of active rows only (`ActiveRowsIInv`, the
one lemma behind the adds, the changes and the operations on one text). That
`restoreCommand` takes back one removal and the whole of it follows because
within a name the ids order the rows as their removals did.

`CommandRepositoryStoreProofs` proves that `CommandRepository` implements
`ResponseStore` (`StoreImplemented`). It needs two invariants more, what the two
unique indexes keep: a name and variant is one row (`KeysUnique`), and the texts
of a row differ (`TextsUnique`). Without them a shelf would not be a function of
names and variants. There is one lemma per operation, which says what the
operation makes of each row and so of the shelf and the bin; an operation that
changes neither is a stutter.

`CommandResponsesProofs` proves the types and `CacheFollowsCommit` for any
operations from any number of callers. Their invariant, `BaseInv`, says of each
call what its locals still know after the await (`CallsSound`), and that a row is
never removed while it has an active text (`Parented`). The other properties do
not hold of any calls, as the findings show, so their theorems say of which:

* `NothingUnstoredServed`, `ServedIsStored` and `AlreadyExistsIsTrue` under
  `Ops \subseteq {"add"}`: chat can only add, from any number of messages. The
  invariant is that a stored text which is not served is that of a call about to
  put it in the cache (`Covered`);
* `CacheInSync` in the behaviours in which no two calls are in flight together
  (`[]OneAtATime`): all operations, from any number of callers, with failures and
  restarts. The condition is one on behaviours, which nothing in the code ensures
  (finding 2 is what happens without it). The invariant, `SyncInv`, says by how much the tables are
  ahead of the cache between a commit and the change of the cache, and that each
  list is without repetition, so that the index found before the await is the
  right one after it.

`StreamLifecycleProofs` proves the properties of the `lifecycle` run. Beyond the grace timers that a start left running, a spell
offline has at most one, started when the spell was, and the last of them (`Grace`). For
`QuietStateAgrees`, the last notice undelivered is what Twitch is now; with none
left, the one handler in flight is about to make `isLive` so (`Orderly`). For the
sweep, no end lies in the future (`EndsPast`), and once the last timer has swept no
lurker is older than an end, nor than an end still to be saved (`Swept`): a sweep
compares with the end its timer was started for, and every later end starts
another timer.

`GreetingProofs` proves how long the cache can be out of date and that nobody saved
is greeted again. A cache that is out of date has a timer which was started no
later than it last went out of date (`TimersDue`): an answer of Twitch never comes
without a timer of its own. What a call knows of a user stays true until the
stream flips (`KnownIsSaved`).

`RecordsProofs` proves the properties of the `records` run. The parts of
`MCRecords` share no state, so each has its own invariant, which the other parts
leave alone.

* Deaths: rows are in the order of their sessions; a call in flight knows its row;
  a row that no two calls met has as many deaths as were reported (`Unraced`). For
  `CountsAgree` in general, `RowsAddUp` says how often each row was written: a
  count is at most that, and over a stream and game the writes add up to the
  deaths.
* Subscriptions: stamps are in the order of arrival (`StampsCounted`), and a gift
  has its subscriber, or a handler about to create it (`GiftsOnTheWay`, `GiftsOwned`).
  For `GiftsAddUp`, `GiftSums` says that gifts recorded and gifts on the way
  together are those announced and given.
* Deployment: the migrations recorded are the first ones, and the shape of the
  tables is theirs, but for a renaming committed and not recorded (`Shapes`,
  `RecordDue`). Nothing is written from the dump on (`DumpIsLast`), and a
  restore by `fresh` finds its dump, and an empty database that no bot runs on
  (`RestoreReady`).
* Ages: `AgesAddUp` is arithmetic on any age.

`OperationsProofs` proves the safety properties of the `operations` run.
`TokenFileFollows` rests on `LastOpDecides`: as long as the last call to `fs` met no
other, either it has returned and the file is as it left it, done or failed, or it
is the one call in flight that can still change the file. `InChatOnlyWhenDue` needs
to know that the process that was revoked is past its start-up, and that a process
started after a removal does not find itself authenticated (`StaysShutDown`), and
`OneInterval` that no socket but the newest has handlers, and none while the page
retries (`OneSocket`).

Sums over tables, and the greatest and least elements of finite sets, would call
for induction over sets. The library's induction theorem cannot be
instantiated, but well-foundedness can: a finite set for which a fact fails would
have a least such subset (`WFMin` with `FS_StrictSubsetOrderingWellFounded`), and
taking an element from it contradicts that. `MaxExists`, `SumsExist` and the other
lemmas on sums are proved so.

Only model-checked: `StartsInTheEnd` and `PageReconnects`, which rest on fairness,
and so on ENABLED, which the provers do not handle; and the properties that the
findings violate. Of `CommandResponses`, what other operations than adds do when
they overlap is no theorem, because `CacheInSync` is false of them
(`responses_twice` has its smallest case).

## Findings

1. `message.handler.ts:56` rounds the elapsed time up before comparing it with
   the period, so the cooldown `docs/command-system.md:104` promises ends up to
   a second early (`cooldown_period`). `CooldownSpacing` states what does hold.
2. `command-response.service.ts:130`: two adds of the same removed text serve
   it twice, against "Writes through the service keep the cache in sync"
   (`docs/command-system.md:121`; `responses_twice`). The unique index does not
   help, because both transactions restore the row and neither inserts one.
3. `chat-bot.ts:220`: a stream that ends between the fetch and the start of the
   listener is held for live (`live_state`). `QuietStateAgrees` states under
   which order of events the live state is right.
4. `stream-event.handler.ts:66` passes a date to `setTimeout` as the delay
   (`unlurk_timer`). The timer then fires after a millisecond, and the recovery
   branch of `streamOnline` finds a fired timer, never one to cancel. The sweep
   itself is lost only if it is rejected (`OldLurkersWillBeSwept`).
5. `greet-user.service.ts:23` looks a user up, and saves one, only under the
   stream that `Broadcaster` names, which is none for up to five minutes after a
   stream began when the bot asked just before. Each message of a moderator is
   greeted until then, against "Does not greet the same user twice in a session"
   (`join-greeting.handler.spec.ts:103`; `greet_once`). `SavedIsNotGreeted` and
   `OutdatedIsBounded` state what does hold.

Met while modelling: `streamOnline` is to clean up the lurkers left over
(`stream-event.handler.ts:23`) unless a timeout is in progress (:28), but the
reference to a timer outlives it, so that after a sweep that was rejected, which is
only logged (:93), the next stream starts without the clean-up. And, with no
document that says otherwise: a start of the bot in
a running process leaves a pending grace timer, which then clears the greeting
session of a live stream, and takes `isLive` from a stream up to five minutes old;
the overlay page gets stuck when an attempt slower than the interval opens after a
newer one has ended; a rejected Twitch call ends the process and with it every
cooldown; a removal of the token file that fails leaves the revoked token to the
next start; a token write cut off
by a crash stops every later start, until somebody removes the file; a
`ChatBot.start` in flight outlives a revocation; a refresh in flight writes the
revoked token's file again; `!lastdeathcount` rejects when there is no earlier
row, since it reduces an empty list (`death.command.ts:182`); the scheduled
socials message never appears, because the job passes no arguments
(`scheduler.ts:47`).

## Plan

What is left:

1. `CommandResponses` shown to implement atomic edits when calls do not overlap:
   the rows and the cache as one list per key, each operation one step.
2. The text operations of `CommandRepository` and of `CommandResponses` related,
   so that `NoOrphans` carries over to what the service serves.
3. What a refreshed token needs of the calls to `fs`, as a property of
   `BotProcess`, once the code awaits them.
4. What the end date of a swept lurk may be, once a document says so.

## Not modelled

Each component of `PROJECT.json` that is not modelled says why. In short: code
that records or announces one event without reading state, stateless commands,
`!command` as a parser of arguments, texts and their formatting, the scheduler,
logging, configuration and dependency injection have no behaviour for a model to
check. The random pick of a response text is left out because no property
depends on which text is picked. Of the database, the down migrations are left
out, which no script runs, and the stage scripts, which work on a copy that is
thrown away. An exit that closes the database under handlers in flight leaves
what a crash leaves, which the modules of those handlers have.
