------------------------------ MODULE BotProcess ------------------------------
(***************************************************************************)
(* The life of the bot's process: the start-up sequence of App.main, the   *)
(* authentication server with the token file, ChatBot.start and shutdown,  *)
(* App.exit, crashes, and Docker, which starts a failed process again.     *)
(*                                                                         *)
(* The token file is written and removed by calls nobody awaits, and whose *)
(* failure is only logged.  A write truncates the file first, so the end   *)
(* of the process, or a failure, can cut it.                               *)
(***************************************************************************)
EXTENDS Naturals, Sequences

CONSTANTS
    Requests,       \* requests to /auth that can be in flight
    Main,           \* App.main, which starts the bot too
    MaxEnds, MaxTokens      \* bounds: ends of the process; changes of the token

VARIABLES
    phase,          \* how far main is
    exiting,        \* exit has been called
    boots,          \* how often the process has been started
    file,           \* the token file
    ops,            \* calls to fs that have not returned, in the order they were made
    authenticated,  \* userAuthenticated
    registered,     \* authProvider has the user
    refreshing,     \* authProvider is refreshing the token
    starts,         \* ChatBot.start calls that await initialize
    chat, listener, \* the chat client is connected; the EventSub listener is started
    revoked,        \* history: the start of the process in which the token was revoked,
                    \* or 0 if it has been authorised since
    startRaced,     \* history: a shutdown met a start in flight
    lastOp,         \* history: what the last operation makes of the file, what there was
                    \* before it, whether it met another, or the end of the process,
                    \* and whether a call has failed since it was made
    bound           \* bound: ends of the process, changes of the token

token == <<file, ops, lastOp>>
auth == <<authenticated, registered, refreshing>>
bot == <<starts, chat, listener, startRaced>>
process == <<phase, exiting, boots>>
vars == <<process, token, auth, bot, revoked, bound>>

ASSUME BoundsAssumption == {MaxEnds, MaxTokens} \subseteq Nat

Callers == Requests \cup {Main}
Running == {"connecting", "loading", "ready"}

\* No call in flight can change the file: a write goes on with what it has opened,
\* which is no longer the file once that was removed.
Settled == \A i \in DOMAIN ops : ops[i] = "detached"

FileState == {"none", "partial", "lacking", "good"}

TypeOK ==
    /\ phase \in Running \cup {"down", "stopped"} /\ boots \in 0..(MaxEnds + 1)
    /\ file \in FileState
    /\ ops \in Seq({"write", "truncated", "detached", "rm"}) /\ Len(ops) <= MaxTokens
    /\ {authenticated, registered, refreshing, chat, listener} \subseteq BOOLEAN
    /\ starts \subseteq Callers
    /\ {startRaced, exiting} \subseteq BOOLEAN
    /\ revoked \in 0..boots
    /\ lastOp \in [file : {"none", "lacking", "good"}, before : FileState,
                   alone : BOOLEAN, failed : BOOLEAN]
    /\ bound \in [ends : 0..MaxEnds, tokens : 0..MaxTokens]
    /\ phase \notin Running => ops = <<>> /\ starts = {} /\ ~chat /\ ~listener

Init ==
    /\ phase = "down" /\ exiting = FALSE /\ boots = 0
    /\ file \in {"none", "lacking", "good"} /\ ops = <<>>
    /\ authenticated = FALSE /\ registered = FALSE /\ refreshing = FALSE
    /\ starts = {} /\ chat = FALSE /\ listener = FALSE
    /\ revoked = 0 /\ startRaced = FALSE
    /\ lastOp = [file |-> file, before |-> file, alone |-> TRUE, failed |-> FALSE]
    /\ bound = [ends |-> 0, tokens |-> 0]

-----------------------------------------------------------------------------
(* The end of the process.                                                 *)

Ends(next) ==
    /\ phase' = next /\ exiting' = FALSE
    /\ ops' = <<>>
    /\ lastOp' = [lastOp EXCEPT !.alone = @ /\ Settled]
    /\ starts' = {} /\ chat' = FALSE /\ listener' = FALSE /\ startRaced' = FALSE
    /\ authenticated' = FALSE /\ registered' = FALSE /\ refreshing' = FALSE
    /\ UNCHANGED <<boots, file, revoked>>

Fails ==
    /\ bound.ends < MaxEnds /\ bound' = [bound EXCEPT !.ends = @ + 1]
    /\ Ends("down")

\* Any end with an error: a crash, or a rejection that nothing handles.
Crash == phase \in Running /\ Fails

-----------------------------------------------------------------------------
(* App.main.                                                               *)

\* Importing auth.provider.ts reads the token file; what is no JSON throws, and
\* the process ends before main.  The token's scopes decide whether it is used.
Load ==
    /\ phase = "down" /\ file # "partial"
    /\ phase' = "connecting" /\ boots' = boots + 1
    /\ authenticated' = (file = "good") /\ registered' = (file = "good")
    /\ UNCHANGED <<exiting, token, refreshing, bot, revoked, bound>>

DatabaseConnected ==
    /\ phase = "connecting" /\ phase' = "loading"
    /\ UNCHANGED <<exiting, boots, token, auth, bot, revoked, bound>>

\* main logs the reason and hangs, where the code exits.
MainHangs ==
    /\ phase \in {"connecting", "loading"} /\ bound.ends < MaxEnds
    /\ phase' = "hung" /\ bound' = [bound EXCEPT !.ends = @ + 1]
    /\ UNCHANGED <<exiting, boots, token, auth, bot, revoked>>

\* The database or the responses reject: main rejects, and the process exits.
MainRejects == phase \in {"connecting", "loading"} /\ Fails

\* ChatBot.start up to its await.
StartBegins(c) ==
    /\ chat' = TRUE
    /\ starts' = starts \cup {c}

\* The responses are in; both servers listen; the bot starts if it may.
ResponsesLoaded ==
    /\ phase = "loading" /\ phase' = "ready"
    /\ IF authenticated THEN StartBegins(Main) ELSE UNCHANGED <<chat, starts>>
    /\ UNCHANGED <<exiting, boots, token, auth, listener, startRaced, revoked, bound>>

\* initialize has returned.
StartEnds(c) ==
    /\ c \in starts
    /\ starts' = starts \ {c} /\ listener' = TRUE
    /\ UNCHANGED <<process, token, auth, chat, startRaced, revoked, bound>>

\* initialize rejects: /auth catches it and leaves the chat connected, main exits.
StartRejects(c) ==
    /\ c \in starts
    /\ \/ c = Main /\ Fails
       \/ /\ c # Main /\ starts' = starts \ {c}
          /\ UNCHANGED <<process, token, auth, chat, listener, startRaced, revoked, bound>>

-----------------------------------------------------------------------------
(* The token file.                                                         *)

Calls(op) ==
    /\ ops' = Append(ops, op)
    /\ lastOp' = [file |-> IF op = "rm" THEN "none" ELSE "good", before |-> file,
                  alone |-> Settled, failed |-> FALSE]

RemoveAt(s, i) == SubSeq(s, 1, i - 1) \o SubSeq(s, i + 1, Len(s))

\* Calls in flight run on several threads, so in any order.
Truncates(i) ==
    /\ ops[i] = "write" /\ ops' = [ops EXCEPT ![i] = "truncated"]
    /\ file' = "partial"
    /\ UNCHANGED <<process, lastOp, auth, bot, revoked, bound>>

Written(i) ==
    /\ ops[i] \in {"truncated", "detached"} /\ ops' = RemoveAt(ops, i)
    /\ file' = IF ops[i] = "truncated" THEN "good" ELSE file
    /\ UNCHANGED <<process, lastOp, auth, bot, revoked, bound>>

RemovedElsewhere(i) ==
    /\ ops[i] = "rm" /\ ops' = RemoveAt(ops, i)
    /\ UNCHANGED <<process, file, lastOp, auth, bot, revoked, bound>>

Removed(i) ==
    /\ ops[i] = "rm"
    /\ LET Detached(op) == IF op = "truncated" THEN "detached" ELSE op
       IN  ops' = RemoveAt([j \in DOMAIN ops |-> Detached(ops[j])], i)
    /\ file' = "none"
    /\ UNCHANGED <<process, lastOp, auth, bot, revoked, bound>>

\* The callback of a call that failed does no more than log it.  A detached write can
\* fail too, but what becomes of what it has opened is nothing to the file.
CallFails(i) ==
    /\ ops' = RemoveAt(ops, i)
    /\ lastOp' = [lastOp EXCEPT !.failed = @ \/ ops[i] # "detached"]
    /\ UNCHANGED <<process, file, auth, bot, revoked, bound>>

\* The file could not be opened, or what was written to it is cut short.
WriteFails(i) == ops[i] \in {"write", "truncated", "detached"} /\ CallFails(i)

RemoveFails(i) == ops[i] = "rm" /\ CallFails(i)

ChangesToken == bound.tokens < MaxTokens /\ bound' = [bound EXCEPT !.tokens = @ + 1]

\* Any call to Twitch may find the token expired and refresh it.
RefreshBegins ==
    /\ phase = "ready" /\ registered /\ ~refreshing /\ bound.tokens < MaxTokens
    /\ refreshing' = TRUE
    /\ UNCHANGED <<process, token, authenticated, registered, bot, revoked, bound>>

Refreshed ==
    /\ refreshing /\ refreshing' = FALSE
    /\ ChangesToken /\ Calls("write")
    /\ UNCHANGED <<process, file, authenticated, registered, bot, revoked>>

-----------------------------------------------------------------------------
(* AuthenticationServer and App.exit.                                      *)

\* The phases in which the authentication server listens.
Serves == {"ready"}

\* /auth, once Twitch has exchanged the code.
Authorised(r) ==
    /\ phase \in Serves /\ r \notin starts
    /\ ChangesToken
    /\ Calls("write")
    /\ authenticated' = TRUE /\ registered' = TRUE /\ revoked' = 0
    /\ StartBegins(r)
    /\ UNCHANGED <<process, file, refreshing, listener, startRaced>>

ShutdownOfChat == chat' = FALSE /\ UNCHANGED listener

\* ChatBot.shutdown.
Shutdown == chat' = FALSE /\ listener' = FALSE

\* /revoke, once Twitch has revoked the token.  authenticated stays set.
Revoked ==
    /\ phase \in Serves /\ registered
    /\ ChangesToken
    /\ Calls("rm")
    /\ registered' = FALSE /\ revoked' = boots
    /\ Shutdown
    /\ startRaced' = (starts # {})
    /\ UNCHANGED <<process, file, authenticated, refreshing, starts>>

\* exit, on a signal.  main goes on meanwhile, and so do starts ...
Exit ==
    /\ phase \in Running /\ ~exiting /\ exiting' = TRUE
    /\ Shutdown
    /\ startRaced' = (starts # {})
    /\ UNCHANGED <<phase, boots, token, auth, starts, revoked, bound>>

\* ... until the database is closed and the process ends, with a status that
\* Docker leaves alone.
Exited ==
    /\ exiting /\ Ends("stopped")
    /\ UNCHANGED bound

StartedAgain ==
    /\ phase = "stopped" /\ bound.ends < MaxEnds /\ phase' = "down"
    /\ bound' = [bound EXCEPT !.ends = @ + 1]
    /\ UNCHANGED <<exiting, boots, token, auth, bot, revoked>>

-----------------------------------------------------------------------------

Boots == Load \/ DatabaseConnected \/ ResponsesLoaded

Next ==
    \/ Boots \/ MainRejects \/ Crash
    \/ \E c \in Callers : StartEnds(c) \/ StartRejects(c)
    \/ \E i \in DOMAIN ops :
           Truncates(i) \/ Written(i) \/ Removed(i) \/ WriteFails(i) \/ RemoveFails(i)
    \/ RefreshBegins \/ Refreshed
    \/ \E r \in Requests : Authorised(r)
    \/ Revoked \/ Exit \/ Exited \/ StartedAgain

\* Docker starts a failed process again, queries are answered and an exit ends.
Fairness == WF_vars(Boots) /\ WF_vars(Exited)

Spec == Init /\ [][Next]_vars /\ Fairness

-----------------------------------------------------------------------------
(* Properties.                                                             *)

\* The token file is what its last writer or remover made of it, unless that one
\* met another operation in flight or the end of the process.  If that one failed,
\* the file is as it was before it, or it is cut short by a write, and no later start
\* gets past reading it: a removal that fails leaves a token no better or worse.
TokenFileFollows ==
    Settled /\ lastOp.alone =>
        IF ~lastOp.failed
        THEN file = lastOp.file
        ELSE file = lastOp.before \/ (file = "partial" /\ lastOp.file = "good")

\* The last call for the token file removed it, and nothing came in between.
TokenRemoved == lastOp.file = "none" /\ lastOp.alone /\ ~lastOp.failed

\* The chat is connected only once the responses are loaded, whoever starts it; and
\* auth.server.ts:142 "The token has been revoked and the bot has been shut down":
\* unless a start was in flight, it stays shut down for as long as this process
\* lives, whatever becomes of the token file.  The next one stays out of the chat
\* too, unless the removal of the file failed or was cut off, or a refresh wrote it
\* again.
InChatOnlyWhenDue ==
    /\ chat => phase = "ready"
    /\ revoked # 0 /\ ~startRaced /\ (revoked = boots \/ TokenRemoved)
           => starts = {} /\ ~chat /\ ~listener

\* However the start-up fails, the process is started again until it serves, or
\* is told to exit, unless a cut token file keeps it from ever starting.
StartsInTheEnd == []<>(phase \in {"ready", "stopped"} \/ file = "partial")
=============================================================================
