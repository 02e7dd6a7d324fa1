--------------------------- MODULE OperationsProofs ---------------------------
(***************************************************************************)
(* The invariants of the process and of the overlay page, for every number *)
(* of ends of the process, changes of the token, requests and sockets.     *)
(*                                                                         *)
(* The token file needs what is in flight: while the last call has met no  *)
(* other, it is the only one that can still change the file, or the file   *)
(* is as it left it, done or failed.  The page needs that only its newest  *)
(* socket is ever listened to, and none while it retries.                  *)
(***************************************************************************)
EXTENDS MCOperations, SequenceTheorems, TLAPS

Op == {"write", "truncated", "detached", "rm"}

LastOp == [file : {"none", "lacking", "good"}, before : FileState,
           alone : BOOLEAN, failed : BOOLEAN]

\* The bounds count what the type invariant bounds, and nothing is refreshed but
\* by a process that serves.
Counted ==
    /\ Len(ops) <= bound.tokens
    /\ boots <= bound.ends + (IF phase = "down" THEN 0 ELSE 1)
    /\ refreshing => phase = "ready"

\* The call at i is to make of the file what lastOp says, and so far has not.
Makes(i) ==
    \/ ops[i] = "write" /\ lastOp.file = "good" /\ file = lastOp.before
    \/ ops[i] = "truncated" /\ lastOp.file = "good" /\ file = "partial"
    \/ ops[i] = "rm" /\ lastOp.file = "none" /\ file = lastOp.before

\* What a call that met no other leaves behind.
Outcome ==
    IF ~lastOp.failed
    THEN file = lastOp.file
    ELSE file = lastOp.before \/ (file = "partial" /\ lastOp.file = "good")

\* The last call was alone: it has returned and the file is as it left it, or it is
\* the one call that can still change the file.
LastOpDecides ==
    lastOp.alone =>
        \/ Settled /\ Outcome
        \/ /\ ~lastOp.failed
           /\ \E i \in DOMAIN ops : Makes(i) /\ \A j \in DOMAIN ops \ {i} : ops[j] = "detached"

\* The process that was revoked is past its start-up; after a removal of the file no
\* other finds itself authenticated when it starts.
StaysShutDown ==
    phase \in {"connecting", "loading"} /\ revoked # 0 =>
        /\ revoked # boots
        /\ TokenRemoved => ~authenticated

ProcessInv == TypeOK /\ Counted /\ LastOpDecides /\ InChatOnlyWhenDue /\ StaysShutDown

\* No socket but the newest has handlers, and none while the page retries.
OneSocket ==
    /\ handled \subseteq {ws}
    /\ retrying => handled = {}

PageInv == Page!TypeOK /\ OneSocket

IInv == ProcessInv /\ PageInv

-----------------------------------------------------------------------------
(* Calls to fs.                                                            *)

\* What RemoveAt leaves: every element but one, in order.
LEMMA RemoveAtElements ==
    ASSUME NEW S, NEW s \in Seq(S), NEW i \in DOMAIN s
    PROVE  /\ RemoveAt(s, i) \in Seq(S)
           /\ Len(RemoveAt(s, i)) = Len(s) - 1
           /\ DOMAIN RemoveAt(s, i) = 1..(Len(s) - 1)
           /\ \A j \in 1..(Len(s) - 1) : RemoveAt(s, i)[j] = IF j < i THEN s[j] ELSE s[j + 1]
           /\ \A j \in DOMAIN RemoveAt(s, i) :
                  \E k \in DOMAIN s \ {i} : RemoveAt(s, i)[j] = s[k]
           /\ \A k \in DOMAIN s \ {i} :
                  \E j \in DOMAIN RemoveAt(s, i) : RemoveAt(s, i)[j] = s[k]
<1> DEFINE a == SubSeq(s, 1, i - 1)
           b == SubSeq(s, i + 1, Len(s))
<1>1. i \in 1..Len(s) /\ Len(s) \in Nat
  OBVIOUS
<1>2. /\ a \in Seq(S) /\ Len(a) = i - 1
      /\ \A j \in 1..(i - 1) : a[j] = s[j]
  BY <1>1, SubSeqProperties
<1>3. /\ b \in Seq(S) /\ Len(b) = Len(s) - i
      /\ \A j \in 1..(Len(s) - i) : b[j] = s[i + j]
  BY <1>1, SubSeqProperties
<1> HIDE DEF a, b
<1>4. /\ a \o b \in Seq(S) /\ Len(a \o b) = Len(s) - 1
      /\ \A j \in 1..(Len(s) - 1) : (a \o b)[j] = IF j < i THEN s[j] ELSE s[j + 1]
  <2>1. /\ a \o b \in Seq(S) /\ Len(a \o b) = Len(a) + Len(b)
        /\ \A j \in 1..(Len(a) + Len(b)) : (a \o b)[j] = IF j <= Len(a) THEN a[j] ELSE b[j - Len(a)]
    BY <1>2, <1>3, ConcatProperties
  <2>2. Len(a \o b) = Len(s) - 1 /\ Len(a) + Len(b) = Len(s) - 1 /\ i \in Nat
    BY <1>1, <1>2, <1>3, <2>1
  <2>3. ASSUME NEW j \in 1..(Len(s) - 1), j < i PROVE (a \o b)[j] = s[j]
    BY <1>1, <1>2, <2>1, <2>2, <2>3
  <2>4. ASSUME NEW j \in 1..(Len(s) - 1), ~(j < i) PROVE (a \o b)[j] = s[j + 1]
    <3>1. j - (i - 1) \in 1..(Len(s) - i) /\ i + (j - (i - 1)) = j + 1 /\ ~(j <= i - 1)
      BY <1>1, <2>2, <2>4
    <3>2. (a \o b)[j] = b[j - (i - 1)]
      BY <1>2, <2>1, <2>2, <3>1
    <3>3. b[j - (i - 1)] = s[j + 1]
      BY ONLY <1>3, <3>1
    <3> QED
      BY ONLY <3>2, <3>3
  <2> QED
    BY <2>1, <2>2, <2>3, <2>4
<1>5. RemoveAt(s, i) = a \o b
  BY DEF RemoveAt, a, b
<1> DEFINE r == a \o b
<1> HIDE DEF r
<1>6. /\ r \in Seq(S) /\ Len(r) = Len(s) - 1 /\ DOMAIN r = 1..(Len(s) - 1)
      /\ \A j \in 1..(Len(s) - 1) : r[j] = IF j < i THEN s[j] ELSE s[j + 1]
  BY <1>4 DEF r
<1>7. \A j \in DOMAIN r : \E k \in DOMAIN s \ {i} : r[j] = s[k]
  <2> TAKE j \in DOMAIN r
  <2>1. CASE j < i
    BY <1>1, <1>6, <2>1
  <2>2. CASE ~(j < i)
    <3>1. j + 1 \in DOMAIN s \ {i} /\ r[j] = s[j + 1]
      BY <1>1, <1>6, <2>2
    <3> QED
      BY <3>1
  <2> QED
    BY <2>1, <2>2
<1>8. \A k \in DOMAIN s \ {i} : \E j \in DOMAIN r : r[j] = s[k]
  <2> TAKE k \in DOMAIN s \ {i}
  <2>1. CASE k < i
    BY <1>1, <1>6, <2>1
  <2>2. CASE ~(k < i)
    <3>1. k - 1 \in DOMAIN r /\ ~(k - 1 < i) /\ k - 1 + 1 = k
      BY <1>1, <1>6, <2>2
    <3>2. r[k - 1] = s[k]
      BY <1>6, <3>1
    <3> QED
      BY <3>1, <3>2
  <2> QED
    BY <2>1, <2>2
<1> QED
  BY <1>5, <1>6, <1>7, <1>8 DEF r

\* A new call joins those in flight; LastOpDecides speaks of the new one then.
LEMMA CallsDecides ==
    ASSUME TypeOK, NEW op \in {"write", "rm"}, Calls(op), UNCHANGED file
    PROVE  /\ ops' \in Seq(Op) /\ Len(ops') = Len(ops) + 1
           /\ lastOp' \in LastOp
           /\ lastOp'.file = IF op = "rm" THEN "none" ELSE "good"
           /\ LastOpDecides'
<1>0. Settled \in BOOLEAN
  BY DEF Settled
<1>1. /\ ops \in Seq(Op) /\ op \in Op
      /\ ops' = Append(ops, op)
      /\ lastOp' = [file |-> IF op = "rm" THEN "none" ELSE "good", before |-> file,
                    alone |-> Settled, failed |-> FALSE]
      /\ lastOp' \in LastOp
  BY <1>0 DEF TypeOK, Op, Calls, LastOp
<1>2. /\ ops' \in Seq(Op) /\ Len(ops') = Len(ops) + 1
      /\ DOMAIN ops' = 1..(Len(ops) + 1) /\ DOMAIN ops = 1..Len(ops) /\ Len(ops) \in Nat
      /\ ops'[Len(ops) + 1] = op
      /\ \A i \in 1..Len(ops) : ops'[i] = ops[i]
  BY <1>1, AppendProperties
<1>3. ASSUME Settled
      PROVE  \E i \in DOMAIN ops' : Makes(i)' /\ \A j \in DOMAIN ops' \ {i} : ops'[j] = "detached"
  <2>1. PICK n \in Nat : n = Len(ops) + 1
    BY <1>2
  <2>2. n \in DOMAIN ops' /\ Makes(n)'
    BY <1>1, <1>2, <2>1 DEF Makes
  <2>3. \A j \in DOMAIN ops' \ {n} : ops'[j] = "detached"
    BY <1>2, <1>3, <2>1 DEF Settled
  <2> QED
    BY <2>2, <2>3
<1> QED
  BY <1>0, <1>1, <1>2, <1>3 DEF LastOpDecides

\* A call returns: the file is as it left it if it was the one that decides.
LEMMA ReturnDecides ==
    ASSUME TypeOK, LastOpDecides, NEW s \in Seq(Op), NEW i \in DOMAIN s, ops' = RemoveAt(s, i),
           DOMAIN s = DOMAIN ops, ops[i] = s[i],
           \A j \in DOMAIN ops \ {i} : ops[j] = "detached" => s[j] = "detached",
           UNCHANGED lastOp, Makes(i) => file' = lastOp.file,
           ops[i] = "detached" => s = ops /\ UNCHANGED file
    PROVE  LastOpDecides'
<1>1. SUFFICES ASSUME lastOp.alone
               PROVE  \/ Settled' /\ Outcome'
                      \/ /\ ~lastOp.failed
                         /\ \E k \in DOMAIN ops' :
                                Makes(k)' /\ \A j \in DOMAIN ops' \ {k} : ops'[j] = "detached"
  BY DEF LastOpDecides
<1>2. /\ DOMAIN s = 1..Len(s) /\ Len(s) \in Nat /\ DOMAIN ops' = 1..(Len(s) - 1)
      /\ \A j \in 1..(Len(s) - 1) : ops'[j] = IF j < i THEN s[j] ELSE s[j + 1]
      /\ \A j \in DOMAIN ops' : \E k \in DOMAIN s \ {i} : ops'[j] = s[k]
      /\ \A k \in DOMAIN s \ {i} : \E j \in DOMAIN ops' : ops'[j] = s[k]
  BY ONLY s \in Seq(Op), i \in DOMAIN s, ops' = RemoveAt(s, i), RemoveAtElements
<1>3. CASE Settled
  <2>1. ops[i] = "detached" /\ UNCHANGED file
    BY <1>3 DEF Settled
  <2>2. Outcome /\ Outcome' = Outcome
    BY <1>1, <1>3, <2>1 DEF LastOpDecides, Outcome, Makes, Settled
  <2>3. Settled'
    BY <1>2, <1>3, <2>1 DEF Settled
  <2> QED
    BY <2>2, <2>3
<1>4. CASE /\ ~lastOp.failed /\ Makes(i)
           /\ \A j \in DOMAIN ops \ {i} : ops[j] = "detached"
  BY <1>2, <1>4 DEF Settled, Outcome
<1>5. ASSUME NEW k \in DOMAIN ops \ {i}, Makes(k), \A j \in DOMAIN ops \ {k} : ops[j] = "detached"
      PROVE  \E l \in DOMAIN ops' :
                 Makes(l)' /\ \A j \in DOMAIN ops' \ {l} : ops'[j] = "detached"
  <2>1. s = ops
    BY <1>5
  <2>2. k \in 1..Len(s) /\ i \in 1..Len(s) /\ k # i
    BY <1>2, <1>5
  <2>3. Len(s) \in Nat
    OBVIOUS
  <2>4. PICK l \in 1..(Len(s) - 1) : k = IF l < i THEN l ELSE l + 1
    <3>1. CASE k < i
      BY <2>2, <2>3, <3>1
    <3>2. CASE k > i
      <4>1. k - 1 \in 1..(Len(s) - 1) /\ ~(k - 1 < i) /\ k = k - 1 + 1
        BY <2>2, <2>3, <3>2
      <4> QED
        BY <4>1
    <3> QED
      BY <2>2, <2>3, <3>1, <3>2
  <2>5. l \in DOMAIN ops' /\ ops'[l] = s[k]
    BY <1>2, <2>4
  <2>6. \A j \in 1..(Len(s) - 1) \ {l} : (IF j < i THEN j ELSE j + 1) \in 1..Len(s) \ {k}
    BY <2>2, <2>3, <2>4
  <2>7. \A j \in DOMAIN ops' \ {l} : ops'[j] = "detached"
    <3>1. TAKE j \in DOMAIN ops' \ {l}
    <3>2. \E n \in 1..Len(s) \ {k} : ops'[j] = s[n]
      BY <1>2, <2>6
    <3> QED
      BY <1>2, <1>5, <2>1, <3>2
  <2> QED
    BY <1>5, <2>1, <2>5, <2>7 DEF Makes
<1> QED
  BY <1>1, <1>3, <1>4, <1>5 DEF LastOpDecides

\* A call fails: the one that decides has then settled what there is.
LEMMA FailDecides ==
    ASSUME TypeOK, LastOpDecides, NEW i \in DOMAIN ops, CallFails(i)
    PROVE  lastOp' \in LastOp /\ LastOpDecides'
<1>1. /\ ops \in Seq(Op) /\ lastOp \in LastOp
      /\ ops' = RemoveAt(ops, i) /\ UNCHANGED file
  BY DEF TypeOK, Op, LastOp, CallFails
<1>2. /\ lastOp' = [lastOp EXCEPT !.failed = @ \/ ops[i] # "detached"]
      /\ lastOp' \in LastOp
  BY <1>1 DEF CallFails, LastOp
<1>3. CASE ops[i] = "detached"
  <2>1. lastOp' = lastOp
    BY <1>1, <1>2, <1>3 DEF LastOp
  <2>2. LastOpDecides'
    BY <1>1, <1>3, <2>1, ReturnDecides DEF Makes
  <2> QED
    BY <1>2, <2>2
<1>4. CASE ops[i] # "detached"
  <2>1. /\ lastOp'.file = lastOp.file /\ lastOp'.before = lastOp.before
        /\ lastOp'.alone = lastOp.alone /\ lastOp'.failed
    BY <1>1, <1>2, <1>4 DEF LastOp
  <2>2. ASSUME lastOp.alone
        PROVE  Settled' /\ Outcome'
    <3>1. Makes(i) /\ \A j \in DOMAIN ops \ {i} : ops[j] = "detached"
      BY <1>4, <2>2 DEF LastOpDecides, Settled
    <3>2. \A j \in DOMAIN ops' : \E k \in DOMAIN ops \ {i} : ops'[j] = ops[k]
      BY <1>1, RemoveAtElements
    <3>3. Settled'
      BY <3>1, <3>2 DEF Settled
    <3> QED
      BY <1>1, <2>1, <3>1, <3>3 DEF Makes, Outcome
  <2> QED
    BY <1>2, <2>1, <2>2 DEF LastOpDecides
<1> QED
  BY <1>3, <1>4

-----------------------------------------------------------------------------
(* The process.                                                            *)

LEMMA InitProcessInv == Init => ProcessInv
<1> SUFFICES ASSUME Init PROVE ProcessInv
  OBVIOUS
<1>1. TypeOK
  <2> USE BoundsAssumption DEF Init, Running
  <2>1. phase \in Running \cup {"down", "stopped"} /\ boots \in 0..(MaxEnds + 1)
    OBVIOUS
  <2>2. ops \in Seq({"write", "truncated", "detached", "rm"}) /\ Len(ops) <= MaxTokens
    OBVIOUS
  <2>3. {authenticated, registered, refreshing, chat, listener} \subseteq BOOLEAN
    OBVIOUS
  <2>4. /\ starts \subseteq Callers /\ {startRaced, exiting} \subseteq BOOLEAN
        /\ revoked \in 0..boots
    <3>1. starts = {} /\ startRaced = FALSE /\ exiting = FALSE /\ revoked = 0 /\ boots = 0
      OBVIOUS
    <3>2. starts \subseteq Callers
      BY ONLY <3>1
    <3>3. startRaced \in BOOLEAN /\ exiting \in BOOLEAN
      BY ONLY <3>1
    <3>4. revoked \in 0..boots
      BY ONLY <3>1
    <3> QED
      BY ONLY <3>2, <3>3, <3>4
  <2>5. lastOp \in LastOp /\ file \in FileState
    BY DEF LastOp, FileState
  <2>6. bound \in [ends : 0..MaxEnds, tokens : 0..MaxTokens]
    OBVIOUS
  <2> QED
    BY <2>1, <2>2, <2>3, <2>4, <2>5, <2>6 DEF TypeOK, LastOp
<1>2. LastOpDecides
  BY DEF Init, LastOpDecides, Settled, Outcome
<1> QED
  BY <1>1, <1>2, BoundsAssumption
  DEF Init, ProcessInv, Counted, InChatOnlyWhenDue, StaysShutDown

\* The process ends: a call that was in flight leaves the file as it is, so the last
\* one decides only if nothing was.
LEMMA EndsKeeps ==
    ASSUME ProcessInv, NEW next \in {"down", "stopped"}, Ends(next),
           bound' \in [ends : 0..MaxEnds, tokens : 0..MaxTokens],
           bound'.tokens = bound.tokens,
           boots <= bound'.ends + (IF next = "down" THEN 0 ELSE 1)
    PROVE  ProcessInv'
<1>1. /\ lastOp'.file = lastOp.file /\ lastOp'.before = lastOp.before
      /\ lastOp'.alone = (lastOp.alone /\ Settled) /\ lastOp'.failed = lastOp.failed
      /\ lastOp' \in LastOp
  <2>1. Settled \in BOOLEAN
    BY DEF Settled
  <2> QED
    BY <2>1 DEF ProcessInv, Ends, TypeOK, LastOp
<1>2. TypeOK'
  <2>1. ops' \in Seq({"write", "truncated", "detached", "rm"}) /\ Len(ops') <= MaxTokens
    BY BoundsAssumption DEF Ends
  <2>2. {authenticated, registered, refreshing, chat, listener}' \subseteq BOOLEAN
    BY DEF Ends
  <2>3. {startRaced, exiting}' \subseteq BOOLEAN /\ revoked' \in 0..boots'
    BY DEF ProcessInv, TypeOK, Ends
  <2> QED
    BY <1>1, <2>1, <2>2, <2>3 DEF ProcessInv, Ends, TypeOK, Running, LastOp
<1>3. Counted'
  BY DEF ProcessInv, Ends, TypeOK, Counted
<1>4. LastOpDecides'
  <2>1. lastOp'.alone => lastOp.alone /\ Settled
    BY <1>1
  <2>2. Settled' /\ (Outcome => Outcome')
    BY <1>1 DEF Ends, Settled, Outcome
  <2>3. Settled /\ LastOpDecides /\ lastOp.alone => Outcome
    BY DEF Settled, LastOpDecides, Makes, Outcome
  <2> QED
    BY <2>1, <2>2, <2>3 DEF ProcessInv, LastOpDecides
<1> QED
  BY <1>2, <1>3, <1>4 DEF ProcessInv, Ends, InChatOnlyWhenDue, StaysShutDown

LEMMA FailsKeeps ==
    ASSUME ProcessInv, phase # "down", Fails
    PROVE  ProcessInv'
<1>1. bound' = [bound EXCEPT !.ends = @ + 1] /\ Ends("down")
  BY DEF Fails
<1>2. /\ bound' \in [ends : 0..MaxEnds, tokens : 0..MaxTokens]
      /\ bound'.tokens = bound.tokens /\ boots <= bound'.ends
  BY <1>1, BoundsAssumption DEF ProcessInv, TypeOK, Counted, Fails
<1> QED
  BY <1>1, <1>2, EndsKeeps DEF ProcessInv, TypeOK

\* Once a revoke has removed the file, the process that starts finds none.
LEMMA LoadKeeps ==
    ASSUME ProcessInv, Load
    PROVE  ProcessInv'
<1>1. ops = <<>>
  BY DEF ProcessInv, TypeOK, Running, Load
<1>2. boots + 1 <= bound.ends + 1 /\ boots + 1 \in 0..(MaxEnds + 1)
  BY BoundsAssumption DEF ProcessInv, TypeOK, Counted, Load
<1>3. TypeOK'
  BY <1>1, <1>2 DEF ProcessInv, TypeOK, Running, Load, token, bot
<1>4. LastOpDecides'
  BY DEF ProcessInv, LastOpDecides, Settled, Makes, Outcome, Load, token
<1>5. TokenRemoved => file = "none"
  BY <1>1 DEF ProcessInv, LastOpDecides, TokenRemoved, Outcome
<1>6. revoked' # boots'
  BY DEF ProcessInv, TypeOK, Load
<1>7. InChatOnlyWhenDue' /\ StaysShutDown'
  BY <1>5, <1>6
  DEF ProcessInv, InChatOnlyWhenDue, StaysShutDown, TokenRemoved, Load, token, bot, TypeOK, Running
<1> QED
  BY <1>2, <1>3, <1>4, <1>7 DEF ProcessInv, Counted, Load, token

\* The start-up, the bot's starts and the shutdown leave the file alone.
LEMMA BotStepsKeep ==
    ASSUME ProcessInv,
           \/ DatabaseConnected \/ ResponsesLoaded \/ RefreshBegins \/ Exit
           \/ \E c \in Callers : StartEnds(c) \/ (StartRejects(c) /\ c # Main)
    PROVE  ProcessInv'
<1>1. UNCHANGED <<token, boots, revoked, bound>>
  BY DEF DatabaseConnected, ResponsesLoaded, RefreshBegins, Exit, StartEnds, StartRejects,
         process, token
<1>2. LastOpDecides'
  BY <1>1 DEF ProcessInv, LastOpDecides, Settled, Makes, Outcome, token
<1>3. /\ TypeOK' /\ Counted' /\ InChatOnlyWhenDue' /\ StaysShutDown'
  <2> USE DEF ProcessInv, TypeOK, Counted, InChatOnlyWhenDue, StaysShutDown, TokenRemoved,
              Running, Callers, process, token, auth, bot
  <2>1. CASE DatabaseConnected
    BY <2>1 DEF DatabaseConnected
  <2>2. CASE ResponsesLoaded
    BY <2>2 DEF ResponsesLoaded, StartBegins
  <2>3. CASE RefreshBegins
    BY <2>3 DEF RefreshBegins
  <2>4. CASE Exit
    BY <2>4 DEF Exit, Shutdown
  <2>5. ASSUME NEW c \in Callers, StartEnds(c)
        PROVE  TypeOK' /\ Counted' /\ InChatOnlyWhenDue' /\ StaysShutDown'
    BY <2>5 DEF StartEnds
  <2>6. ASSUME NEW c \in Callers, StartRejects(c), c # Main
        PROVE  TypeOK' /\ Counted' /\ InChatOnlyWhenDue' /\ StaysShutDown'
    BY <2>6 DEF StartRejects
  <2> QED
    BY <2>1, <2>2, <2>3, <2>4, <2>5, <2>6
<1> QED
  BY <1>2, <1>3 DEF ProcessInv

\* What a call to fs leaves of the invariant when it does not disturb the rest.
LEMMA FileStepKeeps ==
    ASSUME ProcessInv, ops # <<>>,
           ops' \in Seq(Op), Len(ops') <= Len(ops),
           file' \in FileState, lastOp' \in LastOp, TokenRemoved' => TokenRemoved,
           LastOpDecides',
           UNCHANGED <<process, auth, bot, revoked, bound>>
    PROVE  ProcessInv'
<1>1. phase \in Running
  BY DEF ProcessInv, TypeOK
<1>2. TypeOK'
  <2>1. Len(ops') \in Nat /\ Len(ops) \in Nat /\ Len(ops') <= MaxTokens
    BY BoundsAssumption DEF ProcessInv, TypeOK
  <2> QED
    BY <1>1, <2>1 DEF ProcessInv, TypeOK, Op, LastOp, process, auth, bot
<1>3. Counted'
  <2>1. Len(ops') \in Nat /\ Len(ops) \in Nat /\ bound.tokens \in Nat
    BY DEF ProcessInv, TypeOK
  <2> QED
    BY <2>1 DEF ProcessInv, Counted, process, auth
<1> QED
  BY <1>2, <1>3 DEF ProcessInv, InChatOnlyWhenDue, StaysShutDown, process, auth, bot

LEMMA FileStepsKeep ==
    ASSUME ProcessInv, NEW i \in DOMAIN ops,
           Truncates(i) \/ Written(i) \/ Removed(i) \/ WriteFails(i) \/ RemoveFails(i)
    PROVE  ProcessInv'
<1>0. /\ UNCHANGED lastOp => lastOp' \in LastOp /\ (TokenRemoved' => TokenRemoved)
      /\ file \in FileState /\ "partial" \in FileState /\ "good" \in FileState
      /\ "none" \in FileState
  BY DEF ProcessInv, TypeOK, LastOp, FileState, TokenRemoved
<1>1. /\ ops \in Seq(Op) /\ ops # <<>> /\ TypeOK /\ LastOpDecides
      /\ DOMAIN ops = 1..Len(ops) /\ Len(ops) \in Nat
  BY DEF ProcessInv, TypeOK, Op
<1>2. CASE Truncates(i)
  <2>1. /\ ops' = [ops EXCEPT ![i] = "truncated"] /\ ops[i] = "write" /\ file' = "partial"
        /\ UNCHANGED <<process, lastOp, auth, bot, revoked, bound>>
    BY <1>2 DEF Truncates
  <2>2. /\ ops' \in Seq(Op) /\ Len(ops') = Len(ops) /\ DOMAIN ops' = DOMAIN ops
        /\ ops'[i] = "truncated" /\ \A j \in DOMAIN ops \ {i} : ops'[j] = ops[j]
    BY <1>1, <2>1, ExceptSeq DEF Op
  <2>3. LastOpDecides'
    <3>1. CASE Settled
      BY <2>1, <3>1 DEF Settled
    <3>2. ASSUME lastOp.alone, NEW k \in DOMAIN ops, Makes(k), ~lastOp.failed,
                 \A j \in DOMAIN ops \ {k} : ops[j] = "detached"
          PROVE  Makes(k)' /\ \A j \in DOMAIN ops' \ {k} : ops'[j] = "detached"
      <4>1. k = i
        BY <2>1, <3>2
      <4> QED
        BY <2>1, <2>2, <3>2, <4>1 DEF Makes
    <3> QED
      BY <1>1, <2>1, <2>2, <3>1, <3>2 DEF LastOpDecides
  <2> QED
    BY <1>0, <1>1, <2>1, <2>2, <2>3, FileStepKeeps
<1>3. CASE Written(i)
  <2>1. /\ ops' = RemoveAt(ops, i) /\ ops[i] \in {"truncated", "detached"}
        /\ file' = IF ops[i] = "truncated" THEN "good" ELSE file
        /\ UNCHANGED <<process, lastOp, auth, bot, revoked, bound>>
    BY <1>3 DEF Written
  <2>2. ops' \in Seq(Op) /\ Len(ops') <= Len(ops)
    BY <1>1, <2>1, RemoveAtElements
  <2>3. Makes(i) => file' = lastOp.file
    BY <2>1 DEF Makes
  <2>4. LastOpDecides'
    BY <1>1, <2>1, <2>3, ReturnDecides
  <2> QED
    BY <1>0, <1>1, <2>1, <2>2, <2>4, FileStepKeeps
<1>4. CASE Removed(i)
  <2> DEFINE s == [j \in DOMAIN ops |-> IF ops[j] = "truncated" THEN "detached" ELSE ops[j]]
  <2>1. /\ ops' = RemoveAt(s, i) /\ ops[i] = "rm" /\ file' = "none"
        /\ UNCHANGED <<process, lastOp, auth, bot, revoked, bound>>
    BY <1>4 DEF Removed
  <2>2. /\ s \in Seq(Op) /\ Len(s) = Len(ops) /\ DOMAIN s = DOMAIN ops /\ s[i] = ops[i]
        /\ \A j \in DOMAIN ops \ {i} : ops[j] = "detached" => s[j] = "detached"
    BY <1>1, <2>1 DEF Op
  <2> HIDE DEF s
  <2>3. ops' \in Seq(Op) /\ Len(ops') <= Len(ops)
    BY <1>1, <2>1, <2>2, RemoveAtElements
  <2>4. Makes(i) => file' = lastOp.file
    BY <2>1 DEF Makes
  <2>5. LastOpDecides'
    BY <1>1, <2>1, <2>2, <2>4, ReturnDecides
  <2> QED
    BY <1>0, <1>1, <2>1, <2>3, <2>5, FileStepKeeps
<1>5. CASE CallFails(i)
  <2>1. /\ ops' = RemoveAt(ops, i) /\ UNCHANGED <<process, file, auth, bot, revoked, bound>>
        /\ lastOp' = [lastOp EXCEPT !.failed = @ \/ ops[i] # "detached"]
    BY <1>5 DEF CallFails
  <2>2. ops' \in Seq(Op) /\ Len(ops') <= Len(ops)
    BY <1>1, <2>1, RemoveAtElements
  <2>3. lastOp' \in LastOp /\ LastOpDecides'
    BY <1>1, <1>5, FailDecides
  <2>4. TokenRemoved' => TokenRemoved
    BY <2>1 DEF ProcessInv, TypeOK, TokenRemoved
  <2> QED
    BY <1>0, <1>1, <2>1, <2>2, <2>3, <2>4, FileStepKeeps
<1> QED
  BY <1>2, <1>3, <1>4, <1>5 DEF WriteFails, RemoveFails

\* The calls that write or remove the file.
LEMMA CallsKeep ==
    ASSUME ProcessInv, Refreshed \/ Revoked \/ \E r \in Requests : Authorised(r)
    PROVE  ProcessInv'
<1>1. PICK op \in {"write", "rm"} :
          /\ Calls(op) /\ ChangesToken
          /\ UNCHANGED <<process, file>> /\ phase = "ready"
          /\ op = "write" \/ Revoked
  BY DEF Refreshed, Revoked, Authorised, Serves, ProcessInv, Counted
<1>2. /\ ops' \in Seq(Op) /\ Len(ops') = Len(ops) + 1
      /\ lastOp' \in LastOp
      /\ lastOp'.file = IF op = "rm" THEN "none" ELSE "good"
      /\ LastOpDecides'
  BY <1>1, CallsDecides DEF ProcessInv
<1>3. /\ bound' \in [ends : 0..MaxEnds, tokens : 0..MaxTokens]
      /\ bound'.ends = bound.ends /\ bound'.tokens = bound.tokens + 1
      /\ bound'.tokens <= MaxTokens
  BY <1>1, BoundsAssumption DEF ChangesToken, ProcessInv, TypeOK
<1>4. Len(ops') <= bound'.tokens /\ Len(ops') <= MaxTokens
  <2>1. Len(ops) \in Nat /\ bound.tokens \in Nat
    BY DEF ProcessInv, TypeOK
  <2> QED
    BY <1>2, <1>3, <2>1, BoundsAssumption DEF ProcessInv, Counted
<1>5. /\ {authenticated, registered, refreshing, chat, listener}' \subseteq BOOLEAN
      /\ {startRaced, exiting}' \subseteq BOOLEAN /\ revoked' \in 0..boots'
      /\ starts' \subseteq Callers /\ (refreshing' => phase = "ready")
  <2>0. /\ {authenticated, registered, refreshing, chat, listener} \subseteq BOOLEAN
        /\ {startRaced, exiting} \subseteq BOOLEAN /\ starts \subseteq Callers
        /\ revoked \in 0..boots /\ boots \in Nat
    BY BoundsAssumption DEF ProcessInv, TypeOK
  <2>1. boots' = boots
    BY <1>1 DEF process
  <2>2. {startRaced, exiting}' \subseteq BOOLEAN
    <3>1. startRaced' \in BOOLEAN /\ exiting' = exiting
      BY <1>1, <2>0 DEF Refreshed, Revoked, Authorised, process, bot
    <3> QED
      BY <2>0, <3>1
  <2>3. revoked' \in 0..boots'
    <3>1. revoked' \in {0, boots, revoked}
      BY <1>1 DEF Refreshed, Revoked, Authorised
    <3> QED
      BY <2>0, <2>1, <3>1
  <2>4. starts' \subseteq Callers
    BY <1>1, <2>0 DEF Refreshed, Revoked, Authorised, StartBegins, Callers, bot
  <2>5. {authenticated, registered, refreshing, chat, listener}' \subseteq BOOLEAN
    BY <1>1, <2>0 DEF Refreshed, Revoked, Authorised, StartBegins, Shutdown, bot
  <2> QED
    BY <1>1, <2>2, <2>3, <2>4, <2>5
<1>6. TypeOK' /\ Counted'
  BY <1>1, <1>2, <1>3, <1>4, <1>5 DEF ProcessInv, TypeOK, Counted, Op, LastOp, Running, process
<1>7. revoked' # 0 /\ ~startRaced' /\ (revoked' = boots' \/ TokenRemoved')
          => starts' = {} /\ ~chat' /\ ~listener'
  <2>1. CASE Revoked
    BY <2>1 DEF Revoked, Shutdown
  <2>2. CASE Refreshed
    <3>1. ~TokenRemoved'
      BY <2>2 DEF Refreshed, Calls, TokenRemoved
    <3>2. UNCHANGED <<boots, starts, chat, listener, startRaced, revoked>>
      BY <2>2 DEF Refreshed, process, bot
    <3> QED
      BY <3>1, <3>2 DEF ProcessInv, InChatOnlyWhenDue
  <2>3. ASSUME NEW r \in Requests, Authorised(r)
        PROVE  revoked' = 0
    BY <2>3 DEF Authorised
  <2> QED
    BY <2>1, <2>2, <2>3
<1>8. InChatOnlyWhenDue' /\ StaysShutDown'
  BY <1>1, <1>7 DEF InChatOnlyWhenDue, StaysShutDown, process
<1> QED
  BY <1>2, <1>6, <1>8 DEF ProcessInv

LEMMA ProcessStep ==
    ASSUME ProcessInv, [Next]_vars
    PROVE  ProcessInv'
<1>1. CASE UNCHANGED vars
  BY <1>1 DEF ProcessInv, TypeOK, Counted, LastOpDecides, Settled, Makes, Outcome, InChatOnlyWhenDue,
     StaysShutDown, TokenRemoved, vars, process, token, auth, bot
<1>2. CASE Load
  BY <1>2, LoadKeeps
<1>3. CASE DatabaseConnected \/ ResponsesLoaded \/ RefreshBegins \/ Exit
  BY <1>3, BotStepsKeep
<1>4. CASE MainRejects \/ Crash
  BY <1>4, FailsKeeps DEF MainRejects, Crash, Running
<1>5. ASSUME NEW c \in Callers, StartEnds(c) \/ StartRejects(c)
      PROVE  ProcessInv'
  <2>1. CASE c = Main /\ Fails
    <3>1. phase # "down"
      BY <1>5 DEF StartEnds, StartRejects, ProcessInv, TypeOK, Running
    <3> QED
      BY <2>1, <3>1, FailsKeeps
  <2>2. CASE StartEnds(c) \/ (StartRejects(c) /\ c # Main)
    BY <2>2, BotStepsKeep
  <2> QED
    BY <1>5, <2>1, <2>2 DEF StartRejects
<1>6. ASSUME NEW i \in DOMAIN ops,
             Truncates(i) \/ Written(i) \/ Removed(i) \/ WriteFails(i) \/ RemoveFails(i)
      PROVE  ProcessInv'
  BY <1>6, FileStepsKeep
<1>7. CASE Refreshed \/ Revoked \/ \E r \in Requests : Authorised(r)
  BY <1>7, CallsKeep
<1>8. CASE Exited
  <2>1. Ends("stopped") /\ bound' = bound
    BY <1>8 DEF Exited
  <2>2. boots <= bound.ends + 1
    BY DEF ProcessInv, TypeOK, Counted
  <2> QED
    BY <2>1, <2>2, EndsKeeps DEF ProcessInv, TypeOK
<1>9. CASE StartedAgain
  <2>1. TypeOK' /\ Counted'
    BY <1>9, BoundsAssumption
    DEF StartedAgain, ProcessInv, TypeOK, Counted, Running, token, auth, bot
  <2>2. LastOpDecides'
    BY <1>9 DEF StartedAgain, ProcessInv, LastOpDecides, Settled, Makes, Outcome, token
  <2> QED
    BY <1>9, <2>1, <2>2
    DEF StartedAgain, ProcessInv, InChatOnlyWhenDue, StaysShutDown, TokenRemoved, token, auth, bot,
        TypeOK, Running
<1> QED
  BY <1>1, <1>2, <1>3, <1>4, <1>5, <1>6, <1>7, <1>8, <1>9 DEF Next, Boots

-----------------------------------------------------------------------------
(* The page.                                                               *)

LEMMA InitPageInv == Page!Init => PageInv
<1> SUFFICES ASSUME Page!Init PROVE PageInv
  OBVIOUS
<1>1. Page!TypeOK
  <2> USE PageAssumption DEF Page!Init
  <2>1. /\ ws \in Sockets \cup {NoSocket}
        /\ connecting \subseteq Sockets /\ handled \subseteq Sockets
    OBVIOUS
  <2>2. openTo \in [Sockets -> Nat] /\ \A s \in connecting : openTo[s] = 0
    OBVIOUS
  <2>3. {retrying, misplaced} \subseteq BOOLEAN
    OBVIOUS
  <2>4. retryCount \in 0..MaxRetryCount
    OBVIOUS
  <2>5. status \in {"connected", "disconnected"}
    OBVIOUS
  <2> QED
    BY <2>1, <2>2, <2>3, <2>4, <2>5 DEF Page!TypeOK
<1> QED
  BY <1>1 DEF Page!Init, PageInv, OneSocket

\* The server's instance is a start of the process, or none.
LEMMA InstanceType == ProcessInv => instance \in Nat
BY DEF ProcessInv, TypeOK, instance

\* onCloseHanlder ends the listening, and starts no second interval.
LEMMA OnCloseKeeps ==
    ASSUME PageInv, NEW s \in Sockets, Page!OnClose(s)
    PROVE  /\ OneSocket'
           /\ \A t \in handled \ handled' : ~retrying
           /\ handled' \subseteq Sockets /\ retrying' \in BOOLEAN
           /\ ws' \in Sockets \cup {NoSocket}
           /\ status' \in {"connected", "disconnected"}
BY DEF PageInv, OneSocket, Page!OnClose, Page!TypeOK

\* A step of the page keeps its invariant, and ends a socket's connection only while
\* no interval runs.
LEMMA PageStep ==
    ASSUME PageInv, instance \in Nat, Page!Next
    PROVE  PageInv' /\ \A s \in handled \ handled' : ~retrying
<1> USE DEF PageInv, Page!TypeOK
<1>1. ASSUME NEW s \in Sockets, Page!Opened(s)
      PROVE  PageInv' /\ \A t \in handled \ handled' : ~retrying
  <2>1. OneSocket' /\ \A t \in handled \ handled' : ~retrying
    BY <1>1 DEF Page!Opened, Page!Open, Page!SetHandlers, OneSocket
  <2>2. openTo' \in [Sockets -> Nat] /\ \A t \in connecting' : openTo'[t] = 0
    BY <1>1 DEF Page!Opened, Page!Open
  <2>3. /\ ws' \in Sockets \cup {NoSocket}
        /\ connecting' \subseteq Sockets /\ handled' \subseteq Sockets
        /\ {retrying, misplaced}' \subseteq BOOLEAN /\ status' \in {"connected", "disconnected"}
    BY <1>1 DEF Page!Opened, Page!Open, Page!SetHandlers
  <2>4. retryCount' \in 0..MaxRetryCount
    BY <1>1, PageAssumption DEF Page!Opened, Page!Open
  <2> QED
    BY <2>1, <2>2, <2>3, <2>4
<1>2. ASSUME NEW s \in Sockets, Page!Refused(s)
      PROVE  PageInv' /\ \A t \in handled \ handled' : ~retrying
  <2>1. /\ Page!OnClose(s) /\ connecting' \in SUBSET connecting
        /\ UNCHANGED <<openTo, retryCount, misplaced>>
    BY <1>2 DEF Page!Refused
  <2> QED
    BY <2>1, OnCloseKeeps
<1>3. ASSUME NEW s \in Sockets, Page!Closed(s)
      PROVE  PageInv' /\ \A t \in handled \ handled' : ~retrying
  <2>1. Page!OnClose(s) /\ UNCHANGED <<connecting, retryCount, misplaced>>
    BY <1>3 DEF Page!Closed
  <2>2. openTo' \in [Sockets -> Nat] /\ \A t \in connecting : openTo'[t] = 0
    BY <1>3 DEF Page!Closed
  <2> QED
    BY <2>1, <2>2, OnCloseKeeps
<1>4. ASSUME NEW s \in Sockets, Page!Retry(s)
      PROVE  PageInv' /\ \A t \in handled \ handled' : ~retrying
  BY <1>4, PageAssumption DEF Page!Retry, Page!CreateWebSocket, OneSocket
<1>5. CASE Page!GiveUp
  BY <1>5 DEF Page!GiveUp, OneSocket
<1> QED
  BY <1>1, <1>2, <1>3, <1>4, <1>5 DEF Page!Next

-----------------------------------------------------------------------------

LEMMA InitIInv == OperationsInit => IInv
BY InitProcessInv, InitPageInv DEF OperationsInit, IInv

LEMMA StepIInv ==
    ASSUME IInv, [OperationsNext]_allVars
    PROVE  IInv' /\ [\A s \in handled \ handled' : ~retrying]_(Page!vars)
<1>1. CASE [Next]_vars /\ UNCHANGED page
  <2>1. ProcessInv'
    BY <1>1, ProcessStep DEF IInv
  <2>2. PageInv'
    BY <1>1 DEF IInv, PageInv, Page!TypeOK, OneSocket, page
  <2>3. handled' = handled
    BY <1>1 DEF page
  <2> QED
    BY <2>1, <2>2, <2>3 DEF IInv
<1>2. CASE UNCHANGED vars /\ Page!Next
  <2>1. ProcessInv'
    BY <1>2, ProcessStep DEF IInv
  <2>2. PageInv' /\ \A s \in handled \ handled' : ~retrying
    BY <1>2, PageStep, InstanceType DEF IInv
  <2> QED
    BY <2>1, <2>2 DEF IInv
<1> QED
  BY <1>1, <1>2 DEF OperationsNext, allVars

LEMMA Invariant == OperationsSpec => []IInv
<1>1. IInv /\ [OperationsNext]_allVars => IInv'
  BY StepIInv
<1> QED
  BY InitIInv, <1>1, PTL DEF OperationsSpec

\* Every state of the process and of the page is of the declared types, and what a
\* process that has ended had in flight is gone with it.
THEOREM TypeCorrect == OperationsSpec => []OperationsTypeOK
<1>1. IInv => OperationsTypeOK
  BY DEF IInv, ProcessInv, PageInv, OperationsTypeOK
<1> QED
  BY Invariant, <1>1, PTL

\* However writes and removals of the token file overlap and fail, the file is what
\* the last of them made of it, or what it was before if that one failed, unless that
\* one met another or the end of the process.
THEOREM TokenFile == OperationsSpec => []TokenFileFollows
<1>1. IInv => TokenFileFollows
  BY DEF IInv, ProcessInv, LastOpDecides, TokenFileFollows, Outcome, Settled, Makes
<1> QED
  BY Invariant, <1>1, PTL

\* The bot is in the chat only once the responses are loaded, and a revoke keeps it
\* out: for the life of the process whatever the token file, and over any number of
\* restarts if the file was removed.
THEOREM InChat == OperationsSpec => []InChatOnlyWhenDue
<1>1. IInv => InChatOnlyWhenDue
  BY DEF IInv, ProcessInv
<1> QED
  BY Invariant, <1>1, PTL

\* The page never starts a second interval while one runs, however often its server
\* ends and returns.
THEOREM Interval == OperationsSpec => OneInterval
<1>1. IInv /\ [OperationsNext]_allVars => [\A s \in handled \ handled' : ~retrying]_(Page!vars)
  BY StepIInv
<1> QED
  BY Invariant, <1>1, PTL DEF OperationsSpec, OneInterval, Page!OneInterval
=============================================================================
