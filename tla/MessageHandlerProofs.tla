------------------------- MODULE MessageHandlerProofs -------------------------
(***************************************************************************)
(* The invariants of MessageHandler, for every set of messages, users,     *)
(* commands and buckets, every table of permissions and timeouts and every *)
(* length of run.                                                          *)
(*                                                                         *)
(* The inductive invariant adds to the properties what their proofs need:  *)
(* no timer was started in the future, and no command by a process still   *)
(* to come; a message past the restriction check has passed it unless the  *)
(* stream flipped since; and until somebody starts a command in its        *)
(* bucket, a cooldown reply is backed by whatever timer the bucket has.    *)
(***************************************************************************)
EXTENDS MessageHandler, TLAPS

USE DEF InHandle

\* No timer was started, and no reply sent, in the future, and no command by a
\* later process.
InThePast ==
    /\ \A e \in globalTimeouts : e.timeout <= now
    /\ \A i \in DOMAIN executions : executions[i].life <= life
    /\ \A p \in promises : p.at <= now

\* A message waiting for the follower lookup met its restriction when it was
\* checked, and flips counts the changes of the stream since it arrived.
RestrictionChecked ==
    \A m \in Messages :
        /\ pc[m] \in InHandle => call[m].flips <= flips
        /\ pc[m] = "isFollowedBy" /\ call[m].flips = flips =>
               CanExecute(call[m].command, isLive)

\* Nobody has started a command in p's bucket since p was made.
Undisturbed(p) ==
    \A i \in DOMAIN executions : executions[i].bucket = p.bucket => i <= p.seen

\* An undisturbed promise was computed from the timer its bucket still has, if the
\* process that made it has not ended.
PromiseBacked ==
    \A p \in promises :
        /\ p.seen <= Len(executions)
        /\ Undisturbed(p) =>
               \A e \in EntriesOf(p.bucket) :
                   /\ e.timeout <= p.at
                   /\ TimeoutPeriod(p.user, p.command)
                        = p.wait + 2 * CeilSeconds(p.at - e.timeout)

IInv ==
    /\ TypeOK
    /\ OneEntryPerBucket
    /\ InThePast
    /\ TimerIsLatestExecution
    /\ CooldownSpacing
    /\ RestrictionChecked
    /\ RestrictionHoldsUnlessFlipped
    /\ PromiseBacked

-----------------------------------------------------------------------------
(* Arithmetic.                                                             *)

\* Math.ceil(ms / 1000) is a natural number, within one second above ms.
LEMMA CeilSecondsBounds ==
    ASSUME NEW ms \in Nat
    PROVE  /\ CeilSeconds(ms) \in Nat
           /\ 1000 * CeilSeconds(ms) >= ms
           /\ 1000 * CeilSeconds(ms) < ms + 1000
  BY DEF CeilSeconds

\* Rounding up commutes with waiting whole seconds, and is monotone.
LEMMA CeilSecondsAfterWait ==
    ASSUME NEW a \in Nat, NEW s \in Nat, NEW b \in Nat, b >= a + 1000 * s
    PROVE  CeilSeconds(b) >= CeilSeconds(a) + s
  BY DEF CeilSeconds

\* timeoutPeriod never goes below zero.
LEMMA TimeoutPeriodNat ==
    ASSUME NEW u \in Users, NEW c \in Commands
    PROVE  TimeoutPeriod(u, c) \in Nat
  BY ConstantsAssumption DEF TimeoutPeriod

-----------------------------------------------------------------------------
(* The steps that touch neither the timers nor the histories.              *)

\* What IInv says about the timers and the two histories does not mention pc,
\* call, isLive or flips.
LEMMA HistoryUntouched ==
    ASSUME IInv, UNCHANGED <<globalTimeouts, now, life, executions, promises>>
    PROVE  /\ OneEntryPerBucket' /\ InThePast' /\ TimerIsLatestExecution'
           /\ CooldownSpacing' /\ RestrictionHoldsUnlessFlipped' /\ PromiseBacked'
  BY DEF IInv, OneEntryPerBucket, InThePast, TimerIsLatestExecution, OfThisLife, CooldownSpacing,
         RestrictionHoldsUnlessFlipped, PromiseBacked, Undisturbed, EntriesOf

\* A message that arrives counts the flips from here.
LEMMA ReceivePreserves ==
    ASSUME IInv, NEW m \in Messages, NEW u \in Users, NEW c \in Commands, NEW k \in Buckets,
           ReceiveMessage(m, u, c, k)
    PROVE  IInv'
  <1> USE NoCallAssumption DEF IInv, ReceiveMessage
  <1>1. TypeOK'
    BY DEF TypeOK, PC, Call
  <1>2. RestrictionChecked'
    BY DEF RestrictionChecked, TypeOK
  <1> QED BY <1>1, <1>2, HistoryUntouched

\* Ending a message's handling forgets its locals.
LEMMA FinishPreserves ==
    ASSUME IInv, NEW m \in Messages, Finish(m),
           UNCHANGED <<globalTimeouts, isLive, now, flips, life, executions, promises>>
    PROVE  IInv'
  <1> USE NoCallAssumption DEF IInv, Finish
  <1>1. TypeOK'
    BY DEF TypeOK, PC, Call
  <1>2. RestrictionChecked'
    BY DEF RestrictionChecked, TypeOK
  <1> QED BY <1>1, <1>2, HistoryUntouched

\* A message passes its restriction check only if the stream meets it now.
LEMMA BroadcasterResolvedPreserves ==
    ASSUME IInv, NEW m \in Messages, BroadcasterResolved(m)
    PROVE  IInv'
  <1>1. CASE CanExecute(call[m].command, isLive)
    <2> USE <1>1 DEF IInv, BroadcasterResolved, Await
    <2>1. TypeOK'
      BY DEF TypeOK, PC
    <2>2. RestrictionChecked'
      BY DEF RestrictionChecked, TypeOK
    <2> QED BY <2>1, <2>2, HistoryUntouched
  <1>2. CASE ~CanExecute(call[m].command, isLive)
    BY <1>2, FinishPreserves DEF BroadcasterResolved
  <1> QED BY <1>1, <1>2

\* A flip of the stream spoils the restriction check of every message under way,
\* and is counted.
LEMMA StreamFlipsPreserves ==
    ASSUME IInv, StreamFlips
    PROVE  IInv'
  <1> USE DEF IInv, StreamFlips
  <1>1. TypeOK'
    BY DEF TypeOK
  <1>2. RestrictionChecked'
    BY NoCallAssumption DEF RestrictionChecked, TypeOK, Call
  <1> QED BY <1>1, <1>2, HistoryUntouched

\* Time passing leaves every timer and reply in the past.
LEMMA TickPreserves ==
    ASSUME IInv, Tick
    PROVE  IInv'
  <1> USE ConstantsAssumption DEF IInv, Tick
  <1>1. TypeOK'
    BY DEF TypeOK
  <1>2. InThePast'
    BY DEF InThePast, TypeOK, CommandTimeout, Promise
  <1>3. OneEntryPerBucket' /\ TimerIsLatestExecution' /\ CooldownSpacing'
          /\ RestrictionHoldsUnlessFlipped' /\ RestrictionChecked'
    BY DEF OneEntryPerBucket, TimerIsLatestExecution, OfThisLife, CooldownSpacing,
           RestrictionHoldsUnlessFlipped, RestrictionChecked
  <1>4. PromiseBacked'
    BY DEF PromiseBacked, Undisturbed, EntriesOf
  <1> QED BY <1>1, <1>2, <1>3, <1>4

\* The process that follows has no timers, no messages and no starts of its own yet.
LEMMA RestartPreserves ==
    ASSUME IInv, ProcessRestarts
    PROVE  IInv'
  <1> USE DEF IInv, ProcessRestarts
  <1>1. TypeOK'
    BY DEF TypeOK, PC, InHandle
  <1>2. life \in Nat /\ executions \in Seq(Execution)
    BY DEF TypeOK
  <1>3. ASSUME NEW i \in DOMAIN executions
        PROVE  executions[i].life # life + 1 /\ executions[i].life <= life + 1
    <2>1. executions[i] \in Execution
      BY <1>2
    <2>2. executions[i].life \in Nat /\ executions[i].life <= life
      BY <2>1 DEF Execution, InThePast
    <2> QED BY <1>2, <2>2
  <1>4. OneEntryPerBucket' /\ InThePast'
    BY <1>3 DEF OneEntryPerBucket, InThePast
  <1>5. TimerIsLatestExecution'
    BY <1>3 DEF TimerIsLatestExecution, OfThisLife
  <1>6. CooldownSpacing' /\ RestrictionHoldsUnlessFlipped'
    BY DEF CooldownSpacing, RestrictionHoldsUnlessFlipped
  <1>7. RestrictionChecked'
    BY DEF RestrictionChecked, TypeOK, PC, InHandle
  <1>8. PromiseBacked'
    BY DEF PromiseBacked, Undisturbed, EntriesOf
  <1> QED BY <1>1, <1>4, <1>5, <1>6, <1>7, <1>8

-----------------------------------------------------------------------------
(* The two outcomes of the cooldown check.                                 *)

\* A cooldown reply promises a positive wait, and is backed by the very timer
\* it was computed from.
LEMMA RefusePreserves ==
    ASSUME IInv, NEW m \in Messages, pc[m] = "isFollowedBy",
           NEW entry \in EntriesOf(call[m].bucket),
           OnCooldown(entry, call[m].user, call[m].command),
           RefuseOnCooldown(m, entry), UNCHANGED <<isLive, now, flips, life>>
    PROVE  IInv'
  <1> DEFINE u == call[m].user
             c == call[m].command
             k == call[m].bucket
             new == [user |-> u, command |-> c, bucket |-> k, at |-> now,
                     seen |-> Len(executions), wait |-> TimeoutPeriod(u, c) - 2 * Ttl(entry)]
  <1>1. call[m] \in Call
    BY DEF IInv, TypeOK
  <1>2. u \in Users /\ c \in Commands /\ k \in Buckets
    BY <1>1 DEF Call
  <1>3. entry \in CommandTimeout /\ entry \in globalTimeouts /\ entry.name = k
    BY DEF IInv, TypeOK, EntriesOf
  <1>4. now \in Nat /\ entry.timeout \in Nat /\ now - entry.timeout \in Nat
    BY <1>3 DEF IInv, TypeOK, InThePast, CommandTimeout
  <1>5. Ttl(entry) \in Nat /\ TimeoutPeriod(u, c) \in Nat
    BY <1>2, <1>4, CeilSecondsBounds, TimeoutPeriodNat DEF Ttl
  <1>6. TimeoutPeriod(u, c) - 2 * Ttl(entry) \in Nat
    BY <1>5 DEF OnCooldown
  <1>7. Len(executions) \in Nat /\ new \in Promise
    BY <1>2, <1>4, <1>6 DEF IInv, TypeOK, Promise
  <1>8. promises' = promises \cup {new}
    BY DEF RefuseOnCooldown, Promised
  <1> HIDE DEF new
  <1>9. TypeOK'
    BY <1>7, <1>8, NoCallAssumption DEF IInv, TypeOK, PC, RefuseOnCooldown, Await
  <1>10. InThePast'
    BY <1>4, <1>8 DEF IInv, InThePast, RefuseOnCooldown, new
  <1>11. OneEntryPerBucket' /\ TimerIsLatestExecution' /\ CooldownSpacing'
           /\ RestrictionHoldsUnlessFlipped'
    BY DEF IInv, OneEntryPerBucket, TimerIsLatestExecution, OfThisLife, CooldownSpacing,
           RestrictionHoldsUnlessFlipped, RefuseOnCooldown
  <1>12. RestrictionChecked'
    BY DEF IInv, TypeOK, RestrictionChecked, RefuseOnCooldown, Await
  <1>13. TimeoutPeriod(u, c) = new.wait + 2 * CeilSeconds(new.at - entry.timeout)
    BY <1>5 DEF new, Ttl
  <1>14. PromiseBacked'
    <2> SUFFICES ASSUME NEW p \in promises'
                 PROVE  /\ p.seen <= Len(executions)
                        /\ Undisturbed(p) =>
                             \A e \in EntriesOf(p.bucket) :
                                 /\ e.timeout <= p.at
                                 /\ TimeoutPeriod(p.user, p.command)
                                      = p.wait + 2 * CeilSeconds(p.at - e.timeout)
      BY DEF PromiseBacked, Undisturbed, RefuseOnCooldown, EntriesOf
    <2>1. CASE p \in promises
      BY <2>1 DEF IInv, PromiseBacked
    <2>2. CASE p = new
      <3>1. p.seen <= Len(executions)
        BY <1>7, <2>2 DEF new
      <3>2. entry.name = p.bucket /\ entry.timeout <= p.at
              /\ TimeoutPeriod(p.user, p.command)
                   = p.wait + 2 * CeilSeconds(p.at - entry.timeout)
        BY <1>3, <1>4, <1>13, <2>2 DEF new
      <3>3. EntriesOf(p.bucket) = {entry}
        BY <1>3, <3>2 DEF IInv, OneEntryPerBucket, EntriesOf
      <3> QED BY <3>1, <3>2, <3>3
    <2> QED BY <1>8, <2>1, <2>2
  <1> QED BY <1>9, <1>10, <1>11, <1>12, <1>14 DEF IInv

\* A command starts only if no timer of its bucket holds it back; the timer then
\* restarts.  `expired` is what was spliced out: all the entries of the bucket.
LEMMA ExecutePreserves ==
    ASSUME IInv, NEW m \in Messages, pc[m] = "isFollowedBy",
           NEW expired, expired = EntriesOf(call[m].bucket),
           \A e \in expired : ~OnCooldown(e, call[m].user, call[m].command),
           Execute(m, expired), UNCHANGED <<isLive, now, flips, life>>
    PROVE  IInv'
  <1> DEFINE u == call[m].user
             c == call[m].command
             k == call[m].bucket
             n == Len(executions)
             timer == [name |-> k, timeout |-> now]
             new == [user |-> u, command |-> c, bucket |-> k, at |-> now, life |-> life,
                     live |-> isLive, flipped |-> call[m].flips # flips]
  <1>1. /\ call[m] \in Call /\ now \in Nat /\ executions \in Seq(Execution)
        /\ isLive \in BOOLEAN /\ life \in Nat
    BY DEF IInv, TypeOK
  <1>2. u \in Users /\ c \in Commands /\ k \in Buckets
    BY <1>1 DEF Call
  <1>3. new \in Execution /\ timer \in CommandTimeout
    BY <1>1, <1>2 DEF Execution, CommandTimeout
  <1>4. /\ globalTimeouts' = (globalTimeouts \ expired) \cup {timer}
        /\ executions' = Append(executions, new)
    BY DEF Execute, Started
  <1>5. /\ DOMAIN executions = 1..n /\ n \in Nat
        /\ DOMAIN executions' = 1..(n + 1)
        /\ \A i \in 1..n : executions'[i] = executions[i] /\ executions[i] \in Execution
        /\ executions'[n + 1] = new
        /\ Len(executions') = n + 1
    BY <1>1, <1>3, <1>4
  <1>6. \A e \in globalTimeouts : e \in globalTimeouts' <=> e.name # k \/ e = timer
    BY <1>4 DEF EntriesOf
  <1>6a. timer.name = k /\ timer.timeout = now /\ timer \in globalTimeouts'
    BY <1>4
  <1>6b. new.user = u /\ new.command = c /\ new.bucket = k /\ new.at = now
           /\ new.life = life /\ new.live = isLive /\ new.flipped = (call[m].flips # flips)
    OBVIOUS
  <1> HIDE DEF new, timer
  <1>7. TypeOK'
    <2>1. executions' \in Seq(Execution)
      BY <1>1, <1>3, <1>4
    <2>2. globalTimeouts' \in SUBSET CommandTimeout
      BY <1>3, <1>4 DEF IInv, TypeOK
    <2> QED BY <2>1, <2>2, NoCallAssumption DEF IInv, TypeOK, PC, Execute, Await
  <1>8. OneEntryPerBucket'
    BY <1>4, <1>6a DEF IInv, OneEntryPerBucket, EntriesOf
  <1>9. InThePast'
    <2>1. \A i \in 1..(n + 1) : executions'[i].life <= life
      BY <1>1, <1>5, <1>6b DEF IInv, InThePast
    <2> QED BY <1>1, <1>4, <1>5, <1>6a, <2>1 DEF IInv, InThePast, Execute
  <1>10. TimerIsLatestExecution'
    <2>1. ASSUME NEW i \in 1..(n + 1), executions'[i].life = life
          PROVE  \E e \in globalTimeouts' :
                     e.name = executions'[i].bucket /\ e.timeout >= executions'[i].at
      <3>1. CASE i = n + 1
        BY <1>1, <1>5, <1>6a, <1>6b, <3>1
      <3>2. CASE i \in 1..n
        <4>1. PICK e \in globalTimeouts :
                  e.name = executions[i].bucket /\ e.timeout >= executions[i].at
          BY <1>5, <2>1, <3>2 DEF IInv, TimerIsLatestExecution, OfThisLife
        <4>2. CASE e.name # k
          BY <1>5, <1>6, <3>2, <4>1, <4>2
        <4>3. CASE e.name = k
          <5>1. e.timeout <= now /\ e.timeout \in Nat /\ executions[i].at \in Nat
            BY <1>5, <3>2 DEF IInv, InThePast, TypeOK, CommandTimeout, Execution
          <5>2. executions'[i] = executions[i]
            BY <1>5, <3>2
          <5>3. timer.timeout >= executions[i].at
            BY <1>1, <1>6a, <4>1, <5>1
          <5> QED BY <1>6a, <4>1, <4>3, <5>2, <5>3
        <4> QED BY <4>2, <4>3
      <3> QED BY <1>5, <3>1, <3>2
    <2>2. ASSUME NEW e \in globalTimeouts'
          PROVE  \E i \in 1..(n + 1) :
                     /\ executions'[i].life = life
                     /\ executions'[i].bucket = e.name /\ executions'[i].at = e.timeout
      <3>1. CASE e = timer
        <4>1. n + 1 \in 1..(n + 1) /\ executions'[n + 1] = new
          BY <1>5
        <4>2. new.life = life /\ new.bucket = e.name /\ new.at = e.timeout
          BY <1>6a, <1>6b, <3>1
        <4> QED BY <4>1, <4>2
      <3>2. CASE e \in globalTimeouts
        <4>1. PICK i \in 1..n : /\ executions[i].life = life
                                /\ executions[i].bucket = e.name /\ executions[i].at = e.timeout
          BY <1>5, <3>2 DEF IInv, TimerIsLatestExecution, OfThisLife
        <4>2. i \in 1..(n + 1) /\ executions'[i] = executions[i]
          BY <1>5
        <4> QED BY <4>1, <4>2
      <3> QED BY <1>4, <3>1, <3>2
    <2> QED BY <1>5, <2>1, <2>2 DEF TimerIsLatestExecution, OfThisLife
  <1>11. ASSUME NEW i \in 1..n, executions[i].bucket = k, executions[i].life = life,
                TimeoutPeriod(u, c) > 0
         PROVE  now + 1000 > executions[i].at + 500 * TimeoutPeriod(u, c)
    <2>1. PICK e \in globalTimeouts : e.name = k /\ e.timeout >= executions[i].at
      BY <1>5, <1>11 DEF IInv, TimerIsLatestExecution, OfThisLife
    <2>2. ~OnCooldown(e, u, c)
      BY <2>1 DEF EntriesOf
    <2>3. e.timeout \in Nat /\ e.timeout <= now /\ executions[i].at \in Nat
      BY <1>5 DEF IInv, InThePast, TypeOK, CommandTimeout, Execution
    <2>4. TimeoutPeriod(u, c) \in Nat
      BY <1>2, TimeoutPeriodNat
    <2>5. /\ Ttl(e) \in Nat
          /\ 1000 * Ttl(e) < (now - e.timeout) + 1000
      <3>1. PICK age \in Nat : age = now - e.timeout
        BY <1>1, <2>3
      <3>2. CeilSeconds(age) \in Nat /\ 1000 * CeilSeconds(age) < age + 1000
        BY CeilSecondsBounds
      <3>3. Ttl(e) = CeilSeconds(age)
        BY <3>1 DEF Ttl
      <3> QED BY <3>1, <3>2, <3>3
    <2>6. 2 * Ttl(e) >= TimeoutPeriod(u, c)
      BY <2>2, <2>4, <2>5 DEF OnCooldown
    <2>7. 500 * TimeoutPeriod(u, c) < (now - e.timeout) + 1000
      <3> PICK t, p, d : t = Ttl(e) /\ p = TimeoutPeriod(u, c) /\ d = now - e.timeout
        OBVIOUS
      <3>1. d \in Nat
        BY <1>1, <2>3
      <3>2. t \in Nat /\ 1000 * t < d + 1000
        BY <2>5
      <3>3. p \in Nat /\ 2 * t >= p
        BY <2>4, <2>6
      <3>4. 500 * p < d + 1000
        BY ONLY <3>1, <3>2, <3>3
      <3> QED
        BY <3>4
    <2> QED
      BY <1>1, <2>1, <2>3, <2>4, <2>7
  <1>12. CooldownSpacing'
    <2> SUFFICES ASSUME NEW i \in 1..(n + 1), NEW j \in 1..(n + 1), i < j,
                        executions'[i].bucket = executions'[j].bucket,
                        executions'[i].life = executions'[j].life,
                        TimeoutPeriod(executions'[j].user, executions'[j].command) > 0
                 PROVE  executions'[j].at + 1000 > executions'[i].at
                          + 500 * TimeoutPeriod(executions'[j].user, executions'[j].command)
      BY <1>5 DEF CooldownSpacing
    <2>1. i \in 1..n
      BY <1>5
    <2>2. CASE j = n + 1
      BY <1>5, <1>6b, <1>11, <2>1, <2>2
    <2>3. CASE j \in 1..n
      BY <1>5, <2>1, <2>3 DEF IInv, CooldownSpacing
    <2> QED BY <1>5, <2>2, <2>3
  <1>13. RestrictionChecked'
    BY DEF IInv, TypeOK, RestrictionChecked, Execute, Await
  <1>14. RestrictionHoldsUnlessFlipped'
    <2> SUFFICES ASSUME NEW i \in 1..(n + 1), ~executions'[i].flipped
                 PROVE  Restriction[executions'[i].command]
                            \in {"always", IF executions'[i].live THEN "online" ELSE "offline"}
      BY <1>5 DEF RestrictionHoldsUnlessFlipped
    <2>1. CASE i = n + 1
      <3>1. CanExecute(c, isLive)
        BY <1>5, <1>6b, <2>1 DEF IInv, RestrictionChecked
      <3>2. Restriction[c] \in {"always", "online", "offline"}
        BY <1>2, ConstantsAssumption
      <3> QED BY <1>1, <1>5, <1>6b, <2>1, <3>1, <3>2 DEF CanExecute
    <2>2. CASE i \in 1..n
      BY <1>5, <2>2 DEF IInv, RestrictionHoldsUnlessFlipped
    <2> QED BY <1>5, <2>1, <2>2
  <1>15. PromiseBacked'
    <2> SUFFICES ASSUME NEW p \in promises
                 PROVE  /\ p.seen <= Len(executions')
                        /\ Undisturbed(p)' =>
                             \A e \in EntriesOf(p.bucket)' :
                                 /\ e.timeout <= p.at
                                 /\ TimeoutPeriod(p.user, p.command)
                                      = p.wait + 2 * CeilSeconds(p.at - e.timeout)
      BY DEF PromiseBacked, Execute
    <2>1. p.seen \in Nat /\ p.seen <= n
      BY DEF IInv, TypeOK, Promise, PromiseBacked
    <2>2. ASSUME Undisturbed(p)'
          PROVE  p.bucket # k /\ Undisturbed(p)
      BY <1>5, <1>6b, <2>1, <2>2 DEF Undisturbed
    <2>3. p.bucket # k => EntriesOf(p.bucket)' = EntriesOf(p.bucket)
      BY <1>4, <1>6a DEF EntriesOf
    <2> QED BY <1>5, <2>1, <2>2, <2>3 DEF IInv, PromiseBacked
  <1> QED BY <1>7, <1>8, <1>9, <1>10, <1>12, <1>13, <1>14, <1>15 DEF IInv

\* The follower lookup ends in a refusal of permission, a refusal on cooldown or
\* the start of the command.  OneEntryPerBucket makes the entry the code finds
\* first the only one, so that the splice leaves none behind.
LEMMA FollowerResolvedPreserves ==
    ASSUME IInv, NEW m \in Messages, NEW isFollower \in BOOLEAN,
           FollowerResolved(m, isFollower)
    PROVE  IInv'
  <1> DEFINE u == call[m].user
             c == call[m].command
             found == EntriesOf(call[m].bucket)
  <1>1. pc[m] = "isFollowedBy" /\ UNCHANGED <<isLive, now, flips, life>>
    BY DEF FollowerResolved
  <1>2. CASE Finish(m) /\ UNCHANGED <<globalTimeouts, executions, promises>>
    BY <1>1, <1>2, FinishPreserves
  <1>3. CASE found = {} /\ Execute(m, {})
    BY <1>1, <1>3, ExecutePreserves
  <1>4. ASSUME NEW entry \in found,
               IF OnCooldown(entry, u, c) THEN RefuseOnCooldown(m, entry)
                                          ELSE Execute(m, {entry})
        PROVE  IInv'
    <2>1. CASE OnCooldown(entry, u, c)
      BY <1>1, <1>4, <2>1, RefusePreserves
    <2>2. CASE ~OnCooldown(entry, u, c)
      <3>1. found = {entry}
        BY DEF IInv, OneEntryPerBucket, EntriesOf
      <3> QED BY <1>1, <1>4, <2>2, <3>1, ExecutePreserves
    <2> QED BY <2>1, <2>2
  <1> QED BY <1>2, <1>3, <1>4 DEF FollowerResolved

-----------------------------------------------------------------------------
(* The invariant, and the properties as its consequences.                  *)

LEMMA InitIInv == Init => IInv
  <1> SUFFICES ASSUME Init PROVE IInv
    OBVIOUS
  <1> USE DEF Init
  <1>1. TypeOK
    BY DEF TypeOK, PC
  <1>2. DOMAIN executions = {}
    OBVIOUS
  <1> QED BY <1>1, <1>2 DEF IInv, OneEntryPerBucket, InThePast, TimerIsLatestExecution,
            OfThisLife, CooldownSpacing, RestrictionChecked, RestrictionHoldsUnlessFlipped,
            PromiseBacked, InHandle

LEMMA NextIInv == IInv /\ [Next]_vars => IInv'
  <1> SUFFICES ASSUME IInv, [Next]_vars PROVE IInv'
    OBVIOUS
  <1>1. ASSUME NEW m \in Messages, NEW u \in Users, NEW c \in Commands, NEW k \in Buckets,
               ReceiveMessage(m, u, c, k)
        PROVE  IInv'
    BY <1>1, ReceivePreserves
  <1>2. ASSUME NEW m \in Messages, BroadcasterResolved(m)
        PROVE  IInv'
    BY <1>2, BroadcasterResolvedPreserves
  <1>3. ASSUME NEW m \in Messages, NEW isFollower \in BOOLEAN, FollowerResolved(m, isFollower)
        PROVE  IInv'
    BY <1>3, FollowerResolvedPreserves
  <1>4. ASSUME NEW m \in Messages, LastAwaitSettled(m) \/ TwitchCallRejected(m)
        PROVE  IInv'
    BY <1>4, FinishPreserves, RestartPreserves DEF LastAwaitSettled, TwitchCallRejected
  <1>5. CASE StreamFlips
    BY <1>5, StreamFlipsPreserves
  <1>6. CASE Tick
    BY <1>6, TickPreserves
  <1>7. CASE UNCHANGED vars
    <2>1. TypeOK' /\ RestrictionChecked'
      BY <1>7 DEF vars, IInv, TypeOK, RestrictionChecked
    <2> QED BY <1>7, <2>1, HistoryUntouched DEF vars, IInv
  <1> QED BY <1>1, <1>2, <1>3, <1>4, <1>5, <1>6, <1>7 DEF Next, HandleStep

\* An undisturbed promise whose wait is over is kept: the only timer its bucket can
\* have is the one it was computed from, and rounding up commutes with waiting
\* whole seconds.
LEMMA PromiseKept == IInv => WholeWaitSuffices
  <1> SUFFICES ASSUME IInv, NEW p \in promises, Due(p),
                      TimeoutPeriod(p.user, p.command) % 2 = 0,
                      NEW e \in EntriesOf(p.bucket)
               PROVE  ~OnCooldown(e, p.user, p.command)
    BY DEF WholeWaitSuffices
  <1> DEFINE period == TimeoutPeriod(p.user, p.command)
  <1>1. /\ e.timeout <= p.at
        /\ period = p.wait + 2 * CeilSeconds(p.at - e.timeout)
    BY DEF IInv, PromiseBacked, Undisturbed, Due
  <1>2. e \in globalTimeouts
    BY DEF EntriesOf
  <1>3. p \in Promise /\ e \in CommandTimeout /\ now \in Nat
    BY <1>2 DEF IInv, TypeOK
  <1>4. /\ p.at \in Nat /\ p.wait \in Nat /\ e.timeout \in Nat
        /\ p.at - e.timeout \in Nat /\ now - e.timeout \in Nat
        /\ now >= p.at + 500 * p.wait
    BY <1>1, <1>2, <1>3 DEF Promise, CommandTimeout, Due, IInv, InThePast
  <1>5. CeilSeconds(p.at - e.timeout) \in Nat /\ CeilSeconds(now - e.timeout) \in Nat
    <2>1. \A ms \in Nat : CeilSeconds(ms) \in Nat
      BY ONLY CeilSecondsBounds
    <2> QED BY ONLY <1>4, <2>1
  <1>6. PICK s \in Nat : p.wait = 2 * s
    <2> DEFINE w == p.wait
               d == CeilSeconds(p.at - e.timeout)
    <2>1. (w + 2 * d) % 2 = 0
      BY <1>1
    <2>2. w \in Nat /\ d \in Nat
      BY <1>4, <1>5
    <2> HIDE DEF w, d
    <2>3. w % 2 = 0
      BY <2>1, <2>2
    <2>4. w = 2 * (w \div 2) /\ w \div 2 \in Nat
      BY <2>2, <2>3
    <2> QED BY <2>4 DEF w
  <1>7. CeilSeconds(now - e.timeout) >= CeilSeconds(p.at - e.timeout) + s
    <2>1. now - e.timeout >= (p.at - e.timeout) + 1000 * s
      BY <1>3, <1>4, <1>6
    <2> QED BY <1>4, <2>1, CeilSecondsAfterWait
  <1>8. 2 * CeilSeconds(now - e.timeout) >= period
    <2> HIDE DEF period
    <2> QED BY <1>1, <1>4, <1>5, <1>6, <1>7
  <1>9. period \in Nat
    BY <1>3, TimeoutPeriodNat DEF Promise
  <1> QED BY <1>5, <1>8, <1>9 DEF OnCooldown, Ttl

THEOREM Invariance == Spec => []IInv
  BY InitIInv, NextIInv, PTL DEF Spec

\* The state of the dispatcher keeps its types: in particular no user is ever told
\* to wait a negative time.
THEOREM TypeCorrect == Spec => []TypeOK
  <1>1. IInv => TypeOK
    BY DEF IInv
  <1> QED BY <1>1, Invariance, PTL

\* However the handlings of messages interleave, a bucket has one timer.
THEOREM OneTimer == Spec => []OneEntryPerBucket
  <1>1. IInv => OneEntryPerBucket
    BY DEF IInv
  <1> QED BY <1>1, Invariance, PTL

\* ... and it measures from the latest start of a command in the bucket by the
\* process that runs: a process that ends over a rejected call leaves no timer.
THEOREM TimerFresh == Spec => []TimerIsLatestExecution
  <1>1. IInv => TimerIsLatestExecution
    BY DEF IInv
  <1> QED BY <1>1, Invariance, PTL

\* Two starts in a bucket by one process are further apart than the later user's
\* period less one second; over the end of a process nothing is claimed.
THEOREM Spacing == Spec => []CooldownSpacing
  <1>1. IInv => CooldownSpacing
    BY DEF IInv
  <1> QED BY <1>1, Invariance, PTL

\* A command runs outside its stream state only if the stream flipped while its
\* message was being handled.
THEOREM RestrictionKept == Spec => []RestrictionHoldsUnlessFlipped
  <1>1. IInv => RestrictionHoldsUnlessFlipped
    BY DEF IInv
  <1> QED BY <1>1, Invariance, PTL

\* The waits told to users whose period is a whole number of seconds suffice.
THEOREM WaitsSuffice == Spec => []WholeWaitSuffices
  BY PromiseKept, Invariance, PTL
=============================================================================
