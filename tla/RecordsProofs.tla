----------------------------- MODULE RecordsProofs -----------------------------
(***************************************************************************)
(* The invariants of what the bot records, for all values of the           *)
(* constants.  A behaviour is one of the parts, so each part has its       *)
(* inductive invariant, which the other parts leave as it is.              *)
(***************************************************************************)
EXTENDS MCRecords, GreetingProofs, Integers, FiniteSetTheorems, WellFoundedInduction, TLAPS

-----------------------------------------------------------------------------
(* Changes of the database.                                                *)
(*                                                                         *)
(* Migrations are recorded in order and never taken back, so the shape of  *)
(* a database, or of a dump, says which it can still run: only a renaming  *)
(* that was committed and not recorded breaks the link between the two.    *)

\* The migrations recorded are the first k, and the tables have their new names when
\* all are, or when the renaming is just not recorded.
Shape(d) ==
    \E k \in 0..4 :
        /\ d.meta = 1..k
        /\ k = 0 => d.names \in {{}, {"camel"}}
        /\ k \in {1, 2} => d.names = {"camel"}
        /\ k = 3 => d.names \in {{"camel"}, {"snake"}}
        /\ k = 4 => d.names = {"snake"}

Shapes == Shape(db) /\ (dump # None => Shape(dump))

\* The renaming is unrecorded only just after its commit, or torn says so; and a
\* migration to be recorded has been run.
RecordDue ==
    /\ ~torn /\ Deploy!Torn(db) => step = "record"
    /\ step = "record" =>
           /\ Deploy!PendingMigrations # {}
           /\ db.names = IF Deploy!Min(Deploy!PendingMigrations) = 4 THEN {"snake"} ELSE {"camel"}

\* The bot is stopped from the dump on, so nothing is written after it.
DumpIsLast ==
    /\ db.writes = written
    /\ step \in Deploy!Active \ {"stop"} => ~app
    /\ script.own => step \notin {"stop", "dump", "restore"}
    /\ script.own /\ step \in {"run", "record"} => dump.writes = written
    /\ script.own /\ step = "failed" => ~app /\ (db # Deploy!Empty => dump.writes = written)

\* A dump to restore is there; and it is restored over an empty database, over which
\* the bot does not run.
RestoreReady ==
    /\ script.given /\ step \in Deploy!Active => dump # None
    /\ step = "restore" => script.command = "fresh"
    /\ step = "dump" => ~script.given
    /\ step \in {"stop", "restore"} /\ script.command = "fresh" =>
           db = Deploy!Empty
    /\ app \/ step = "done" => db.names # {}

DeployInv == Deploy!TypeOK /\ Shapes /\ RecordDue /\ DumpIsLast /\ RestoreReady

\* The least element of a set of integers is the one that is least.
LEMMA MinIs ==
    ASSUME NEW S \in SUBSET Int, NEW m \in S, \A x \in S : m <= x
    PROVE  Deploy!Min(S) = m
<1>1. \A n \in S : (\A x \in S : n <= x) => n = m
  OBVIOUS
<1> QED
  BY <1>1 DEF Deploy!Min

LEMMA MaxTag == Deploy!Max(Tags) \in Tags
<1>1. Tags \subseteq 1..4 /\ Tags # {}
  BY DeploymentAssumption DEF Deploy!Migrations, Deploy!Baseline, Deploy!SnakeCase
<1>2. \E n \in Tags : \A x \in Tags : n >= x
  <2>1. CASE 4 \in Tags
    BY <1>1, <2>1
  <2>2. CASE 4 \notin Tags /\ 3 \in Tags
    BY <1>1, <2>2
  <2>3. CASE 4 \notin Tags /\ 3 \notin Tags /\ 2 \in Tags
    BY <1>1, <2>3
  <2>4. CASE 4 \notin Tags /\ 3 \notin Tags /\ 2 \notin Tags
    <3>1. PICK n \in Tags : TRUE
      BY <1>1
    <3>2. \A x \in Tags : x = 1
      BY <1>1, <2>4
    <3> QED
      BY <3>1, <3>2
  <2> QED
    BY <1>1, <2>1, <2>2, <2>3, <2>4
<1> QED
  BY <1>2 DEF Deploy!Max

\* The oldest pending migration is the one after those recorded.
LEMMA OldestPending ==
    ASSUME Deploy!TypeOK, NEW k \in 0..4, db.meta = 1..k
    PROVE  /\ Deploy!PendingMigrations # {} <=> k < script.tag
           /\ Deploy!PendingMigrations # {} => Deploy!Min(Deploy!PendingMigrations) = k + 1
           /\ script.tag \in 1..4
<1>1. script.tag \in 1..4
  BY DeploymentAssumption DEF Deploy!TypeOK, Deploy!Migrations, Deploy!Baseline, Deploy!SnakeCase
<1>2. Deploy!PendingMigrations = (k + 1)..script.tag
  BY <1>1 DEF Deploy!PendingMigrations
<1>3. ASSUME k < script.tag
      PROVE  Deploy!Min(Deploy!PendingMigrations) = k + 1
  <2> DEFINE S == Deploy!PendingMigrations
             m == k + 1
  <2>1. S \in SUBSET Int /\ m \in S /\ \A x \in S : m <= x
    BY <1>1, <1>2, <1>3
  <2> HIDE DEF S, m
  <2>2. Deploy!Min(S) = m
    BY <2>1, MinIs
  <2> QED
    BY <2>2 DEF S, m
<1>4. Deploy!PendingMigrations # {} <=> k < script.tag
  <2>1. k < script.tag => k + 1 \in Deploy!PendingMigrations
    BY <1>1, <1>2
  <2>2. \A x \in Deploy!PendingMigrations : k < script.tag
    BY <1>1, <1>2
  <2> QED
    BY <2>1, <2>2
<1> QED
  BY <1>1, <1>3, <1>4

LEMMA InitDeployInv == Deploy!Init => DeployInv
<1> SUFFICES ASSUME Deploy!Init PROVE DeployInv
  OBVIOUS
<1> USE DEF Deploy!Init, Deploy!Empty
<1>1. /\ db \in Deploy!Database /\ db.writes = 0
      /\ db.meta = {} /\ db.names \in {{}, {"camel"}}
  <2>1. Deploy!Empty \in Deploy!Database
    BY DeploymentAssumption DEF Deploy!Database
  <2>2. PICK pair \in [Pairs -> {"absent", "present", "removed"}] :
            \/ db = Deploy!Empty
            \/ db = [Deploy!Empty EXCEPT !.names = {"camel"}, !.raiders = TRUE, !.pair = pair]
    OBVIOUS
  <2>3. CASE db = Deploy!Empty
    BY <2>1, <2>3
  <2>4. CASE db = [Deploy!Empty EXCEPT !.names = {"camel"}, !.raiders = TRUE, !.pair = pair]
    <3>1. db = [names |-> {"camel"}, raiders |-> TRUE, meta |-> {}, metaTable |-> FALSE,
                writes |-> 0, pair |-> pair]
      BY <2>4
    <3> HIDE DEF Deploy!Init
    <3> QED
      BY <3>1, DeploymentAssumption DEF Deploy!Database
  <2> QED
    BY <2>2, <2>3, <2>4
<1>2. Deploy!TypeOK
  <2>1. script \in [command : {"migrate", "fresh"}, tag : Tags, given : BOOLEAN, own : BOOLEAN]
    BY MaxTag
  <2>2. app \in BOOLEAN /\ torn \in BOOLEAN /\ step = "none" /\ dump = None /\ written = 0
    OBVIOUS
  <2> QED
    BY <1>1, <2>1, <2>2, DeploymentAssumption DEF Deploy!TypeOK
<1>3. Shape(db)
  <2>1. db.meta = 1..0
    BY <1>1
  <2> QED
    BY <1>1, <2>1 DEF Shape
<1> QED
  BY <1>1, <1>2, <1>3
  DEF DeployInv, Shapes, RecordDue, Deploy!Torn, DumpIsLast, RestoreReady, Deploy!Active

\* The steps that leave names and records alone.
LEMMA DataSteps ==
    ASSUME DeployInv,
           \/ Deploy!AppWrites
           \/ \E p \in Pairs : Deploy!ResponseRemoved(p) \/ Deploy!ResponseAdded(p)
    PROVE  DeployInv'
<1>1. /\ UNCHANGED <<app, step, script, dump, torn>> /\ app /\ db' \in Deploy!Database
      /\ db'.meta = db.meta /\ db'.names = db.names
      /\ db'.writes = written' /\ written' \in 0..MaxWrites
  <2>1. CASE Deploy!AppWrites
    BY <2>1, DeploymentAssumption
    DEF Deploy!AppWrites, DeployInv, Deploy!TypeOK, Deploy!Database, DumpIsLast
  <2>2. ASSUME NEW p \in Pairs, Deploy!ResponseRemoved(p) \/ Deploy!ResponseAdded(p)
        PROVE  /\ UNCHANGED <<app, step, script, dump, torn>> /\ app /\ db' \in Deploy!Database
               /\ db'.meta = db.meta /\ db'.names = db.names
               /\ db'.writes = written' /\ written' \in 0..MaxWrites
    BY <2>2 DEF Deploy!ResponseRemoved, Deploy!ResponseAdded, DeployInv, Deploy!TypeOK, Deploy!Database, DumpIsLast
  <2> QED
    BY <2>1, <2>2
<1>2. Deploy!TypeOK'
  BY <1>1 DEF DeployInv, Deploy!TypeOK
<1>3. Shapes' /\ RecordDue'
  BY <1>1 DEF DeployInv, Shapes, Shape, RecordDue, Deploy!Torn, Deploy!PendingMigrations
<1>4. ~(step \in {"stop", "restore"} /\ script.command = "fresh")
  BY <1>1 DEF DeployInv, RestoreReady, Deploy!Empty
<1>5. DumpIsLast' /\ RestoreReady'
  BY <1>1, <1>4 DEF DeployInv, DumpIsLast, RestoreReady, Deploy!Active
<1> QED
  BY <1>2, <1>3, <1>5 DEF DeployInv

\* The operator's steps, which do not touch a script that runs.
LEMMA OperatorSteps ==
    ASSUME DeployInv,
           \/ Deploy!AppStarts \/ Deploy!Recreated \/ Deploy!Backup
           \/ \E tag \in Tags, given \in BOOLEAN :
                  Deploy!MigrateBegins(tag, given) \/ Deploy!FreshBegins(tag, given)
    PROVE  DeployInv'
<1> USE DEF DeployInv, Deploy!TypeOK
<1>1. CASE Deploy!AppStarts
  BY <1>1 DEF Deploy!AppStarts, Shapes, Shape, RecordDue, Deploy!Torn, Deploy!PendingMigrations,
     DumpIsLast, RestoreReady, Deploy!Active
<1>2. CASE Deploy!Recreated
  <2>1. Deploy!Empty \in Deploy!Database /\ Deploy!Empty.meta = {} /\ Deploy!Empty.names = {}
        /\ Deploy!Empty.writes = 0
    BY DeploymentAssumption DEF Deploy!Empty, Deploy!Database
  <2>2. Shape(Deploy!Empty)
    <3>1. Deploy!Empty.meta = 1..0
      BY <2>1
    <3> QED
      BY <2>1, <3>1 DEF Shape
  <2>3. /\ db' = Deploy!Empty /\ written' = 0 /\ torn' = FALSE /\ step = "failed" /\ ~app
        /\ UNCHANGED <<app, step, script, dump>>
    BY <1>2 DEF Deploy!Recreated
  <2>4. Deploy!TypeOK'
    <3>1. db' \in Deploy!Database /\ dump' \in Deploy!Database \cup {None}
      BY <2>1, <2>3
    <3>2. app' \in BOOLEAN /\ torn' \in BOOLEAN
      BY <2>3
    <3>3. written' \in 0..MaxWrites
      BY <2>3, DeploymentAssumption
    <3> QED
      BY <2>3, <3>1, <3>2, <3>3
  <2>5. Shapes' /\ RecordDue'
    BY <2>1, <2>2, <2>3 DEF Shapes, Shape, RecordDue, Deploy!Torn
  <2>6. DumpIsLast' /\ RestoreReady'
    BY <2>1, <2>3 DEF DumpIsLast, RestoreReady, Deploy!Active
  <2> QED
    BY <2>4, <2>5, <2>6
<1>3. CASE Deploy!Backup
  <2>1. /\ dump' = db /\ script' = [script EXCEPT !.own = FALSE] /\ step \notin Deploy!Active
        /\ UNCHANGED <<db, app, step, written, torn>>
    BY <1>3 DEF Deploy!Backup
  <2>2. /\ script' \in [command : {"migrate", "fresh"}, tag : Tags, given : BOOLEAN, own : BOOLEAN]
        /\ ~script'.own
    BY <2>1
  <2> QED
    BY <2>1, <2>2 DEF Shapes, Shape, RecordDue, Deploy!Torn, DumpIsLast, RestoreReady, Deploy!Active
<1>4. ASSUME NEW tag \in Tags, NEW given \in BOOLEAN,
             Deploy!MigrateBegins(tag, given) \/ Deploy!FreshBegins(tag, given)
      PROVE  DeployInv'
  <2>1. PICK command \in {"migrate", "fresh"} :
            /\ Deploy!Begins(command, tag, given)
            /\ command = "fresh" => db = Deploy!Empty
    BY <1>4 DEF Deploy!MigrateBegins, Deploy!FreshBegins
  <2>2. /\ script' = [command |-> command, tag |-> tag, given |-> given, own |-> FALSE]
        /\ step' = "stop" /\ step \notin Deploy!Active /\ (given => dump # None)
        /\ UNCHANGED <<db, app, dump, written, torn>>
    BY <2>1 DEF Deploy!Begins
  <2>4. /\ script' \in [command : {"migrate", "fresh"}, tag : Tags, given : BOOLEAN, own : BOOLEAN]
        /\ script'.command = command /\ script'.given = given /\ ~script'.own
    BY <2>2
  <2>5. Deploy!TypeOK'
    BY <2>2, <2>4 DEF Deploy!Active
  <2>6. Shapes' /\ RecordDue'
    BY <2>2 DEF Shapes, Shape, RecordDue, Deploy!Torn, Deploy!Active
  <2>7. DumpIsLast' /\ RestoreReady'
    BY <2>1, <2>2, <2>4 DEF DumpIsLast, RestoreReady, Deploy!Active
  <2> QED
    BY <2>5, <2>6, <2>7
<1> QED
  BY <1>1, <1>2, <1>3, <1>4

\* The script up to the migrations, and where it ends.
LEMMA ScriptSteps ==
    ASSUME DeployInv,
           \/ Deploy!AppStopped \/ Deploy!Dumped \/ Deploy!Restored
           \/ Deploy!Fails \/ Deploy!AllMigrated
    PROVE  DeployInv'
<1> USE DEF DeployInv, Deploy!TypeOK
<1>1. CASE Deploy!AppStopped
  <2>1. /\ step = "stop" /\ app' = FALSE /\ UNCHANGED <<db, script, dump, written, torn>>
        /\ \/ script.command = "fresh" /\ step' = "restore"
           \/ script.command # "fresh" /\ step' \in {"run", "dump"} /\ (step' = "dump" => ~script.given)
    BY <1>1 DEF Deploy!AppStopped, Deploy!AfterStop
  <2>2. Deploy!TypeOK'
    BY <2>1 DEF Deploy!Active
  <2>3. Shapes' /\ RecordDue'
    BY <2>1 DEF Shapes, Shape, RecordDue, Deploy!Torn, Deploy!PendingMigrations
  <2>4. DumpIsLast' /\ RestoreReady'
    BY <2>1 DEF DumpIsLast, RestoreReady, Deploy!Active
  <2> QED
    BY <2>2, <2>3, <2>4
<1>2. CASE Deploy!Dumped
  <2>1. /\ step = "dump" /\ step' = "run" /\ dump' = db
        /\ script' = [script EXCEPT !.own = TRUE]
        /\ UNCHANGED <<db, app, written, torn>>
    BY <1>2 DEF Deploy!Dumped
  <2>2. /\ script' \in [command : {"migrate", "fresh"}, tag : Tags, given : BOOLEAN, own : BOOLEAN]
        /\ script'.command = script.command /\ script'.given = script.given
    BY <2>1
  <2>3. Deploy!TypeOK' /\ Shapes' /\ RecordDue'
    BY <2>1, <2>2 DEF Shapes, Shape, RecordDue, Deploy!Torn, Deploy!Active
  <2>4. DumpIsLast' /\ RestoreReady'
    BY <2>1, <2>2 DEF DumpIsLast, RestoreReady, Deploy!Active
  <2> QED
    BY <2>3, <2>4
<1>3. CASE Deploy!Restored
  <2>1. /\ step = "restore" /\ step' = "run" /\ UNCHANGED <<app, script, dump>>
        /\ db' \in {db, dump} /\ (db' = dump \/ ~script.given) /\ (script.given \/ db' = db)
        /\ written' = db'.writes /\ torn' = Deploy!Torn(db')
    BY <1>3 DEF Deploy!Restored
  <2>2. db' \in Deploy!Database /\ Shape(db')
    BY <2>1 DEF RestoreReady, Shapes, Deploy!Active
  <2>3. Deploy!TypeOK'
    <3>1. torn' \in BOOLEAN
      BY <2>1 DEF Deploy!Torn
    <3>2. written' \in 0..MaxWrites
      BY <2>1, <2>2 DEF Deploy!Database
    <3> QED
      BY <2>1, <2>2, <3>1, <3>2 DEF Deploy!Active
  <2>4. Shapes' /\ RecordDue'
    <3>1. Shape(db)' /\ (dump' # None => Shape(dump)')
      BY <2>1, <2>2 DEF Shapes, Shape
    <3> QED
      BY <2>1, <3>1 DEF Shapes, RecordDue, Deploy!Torn
  <2>5. DumpIsLast' /\ RestoreReady'
    BY <2>1 DEF DumpIsLast, RestoreReady, Deploy!Active
  <2> QED
    BY <2>3, <2>4, <2>5
<1>4. CASE Deploy!Fails
  <2>1. /\ step \in Deploy!Active /\ step' = "failed"
        /\ torn' = (torn \/ (step = "record" /\ Deploy!Torn(db)))
        /\ UNCHANGED <<db, app, script, dump, written>>
    BY <1>4 DEF Deploy!Fails
  <2>2. Deploy!TypeOK' /\ Shapes' /\ RecordDue'
    <3>1. Deploy!TypeOK'
      BY <2>1 DEF Deploy!Active, Deploy!Torn
    <3>2. Shapes'
      BY <2>1 DEF Shapes, Shape
    <3>3. RecordDue'
      BY <2>1 DEF RecordDue, Deploy!Torn
    <3> QED
      BY <3>1, <3>2, <3>3
  <2>3. DumpIsLast' /\ RestoreReady'
    BY <2>1 DEF DumpIsLast, RestoreReady, Deploy!Active
  <2> QED
    BY <2>2, <2>3
<1>5. CASE Deploy!AllMigrated
  <2>1. /\ step = "run" /\ Deploy!PendingMigrations = {} /\ step' = "done"
        /\ UNCHANGED <<db, app, script, dump, written, torn>>
    BY <1>5 DEF Deploy!AllMigrated
  <2>2. db.names # {}
    <3>1. PICK k \in 0..4 :
              /\ db.meta = 1..k
              /\ k \in {1, 2} => db.names = {"camel"}
              /\ k = 3 => db.names \in {{"camel"}, {"snake"}}
              /\ k = 4 => db.names = {"snake"}
      BY DEF Shapes, Shape
    <3>2. k \in {1, 2} \/ k = 3 \/ k = 4
      BY <2>1, <3>1, OldestPending
    <3>3. db.names = {"camel"} \/ db.names = {"snake"}
      BY <3>1, <3>2
    <3> QED
      BY <3>3
  <2>3. Deploy!TypeOK' /\ Shapes' /\ RecordDue'
    BY <2>1 DEF Shapes, Shape, RecordDue, Deploy!Torn
  <2>4. DumpIsLast' /\ RestoreReady'
    BY <2>1, <2>2 DEF DumpIsLast, RestoreReady, Deploy!Active
  <2> QED
    BY <2>3, <2>4
<1> QED
  BY <1>1, <1>2, <1>3, <1>4, <1>5

\* What a migration that can run makes of a database, and what it leaves.
LEMMA UpDoes ==
    ASSUME NEW m \in Deploy!Migrations, NEW d \in Deploy!Database, Deploy!Runs(m)
    PROVE  /\ Deploy!Up(m, d) \in Deploy!Database
           /\ Deploy!Up(m, d).meta = d.meta /\ Deploy!Up(m, d).writes = d.writes
           /\ m = 1 => Deploy!Up(m, d).names = d.names \cup {"camel"}
           /\ m \in {2, 3} => Deploy!Up(m, d).names = d.names
           /\ m = 4 => Deploy!Up(m, d).names = {"snake"}
           /\ \A p \in Pairs : d.pair[p] = "removed" => Deploy!Up(m, d).pair[p] # "present"
<1> USE DEF Deploy!Migrations, Deploy!Baseline, Deploy!SeedData, Deploy!DropRaiders, Deploy!SnakeCase
<1> DEFINE u == Deploy!Up(m, d)
<1>1. /\ m = 1 => u = [d EXCEPT !.names = @ \cup {"camel"}, !.raiders = TRUE]
      /\ m = 2 => u = [d EXCEPT !.pair = [p \in Pairs |-> IF @[p] = "absent" THEN "present" ELSE @[p]]]
      /\ m = 3 => u = [d EXCEPT !.raiders = FALSE]
      /\ m = 4 => u = [d EXCEPT !.names = {"snake"}]
  BY DEF Deploy!Up, Deploy!CreateTables, Deploy!Seeds, Deploy!DropTableRaiders, Deploy!Rename
<1> HIDE DEF u
<1>2. /\ u.meta = d.meta /\ u.writes = d.writes /\ u \in Deploy!Database
      /\ m = 1 => u.names = d.names \cup {"camel"}
      /\ m \in {2, 3} => u.names = d.names
      /\ m = 4 => u.names = {"snake"}
      /\ m # 2 => u.pair = d.pair
  <2>1. CASE m = 1
    <3>1. /\ u = [d EXCEPT !.names = d.names \cup {"camel"}, !.raiders = TRUE]
          /\ d.names \cup {"camel"} \in SUBSET {"camel", "snake"}
      BY <1>1, <2>1 DEF Deploy!Database
    <3>2. u \in Deploy!Database
      BY <3>1 DEF Deploy!Database
    <3> QED
      BY <2>1, <3>1, <3>2 DEF Deploy!Database
  <2>2. CASE m = 2
    <3> DEFINE pair == [p \in Pairs |-> IF d.pair[p] = "absent" THEN "present" ELSE d.pair[p]]
    <3>1. u = [d EXCEPT !.pair = pair]
      BY <1>1, <2>2
    <3>2. pair \in [Pairs -> {"absent", "present", "removed"}]
      BY DEF Deploy!Database
    <3> HIDE DEF pair
    <3> QED
      BY <2>2, <3>1, <3>2 DEF Deploy!Database
  <2>3. CASE m = 3
    <3>1. u = [d EXCEPT !.raiders = FALSE]
      BY <1>1, <2>3
    <3>2. u \in Deploy!Database
      BY <3>1 DEF Deploy!Database
    <3>3. u.meta = d.meta /\ u.writes = d.writes /\ u.names = d.names /\ u.pair = d.pair
      BY <3>1 DEF Deploy!Database
    <3> QED
      BY <2>3, <3>2, <3>3
  <2>4. CASE m = 4
    <3>1. u = [d EXCEPT !.names = {"snake"}]
      BY <1>1, <2>4
    <3>2. u \in Deploy!Database
      BY <3>1 DEF Deploy!Database
    <3>3. u.meta = d.meta /\ u.writes = d.writes /\ u.names = {"snake"} /\ u.pair = d.pair
      BY <3>1 DEF Deploy!Database
    <3> QED
      BY <2>4, <3>2, <3>3
  <2> QED
    BY <2>1, <2>2, <2>3, <2>4
<1>3. \A p \in Pairs : d.pair[p] = "removed" => u.pair[p] # "present"
  <2>1. CASE m = 2
    BY <1>1, <2>1 DEF Deploy!Database
  <2> QED
    BY <1>2, <2>1
<1> QED
  BY <1>2, <1>3 DEF u

LEMMA MigrationSteps ==
    ASSUME DeployInv, Deploy!Migrated \/ Deploy!Recorded
    PROVE  DeployInv'
<1> USE DEF DeployInv, Deploy!TypeOK
<1>1. PICK k \in 0..4 :
          /\ db.meta = 1..k
          /\ k = 0 => db.names \in {{}, {"camel"}}
          /\ k \in {1, 2} => db.names = {"camel"}
          /\ k = 3 => db.names \in {{"camel"}, {"snake"}}
          /\ k = 4 => db.names = {"snake"}
  BY DEF Shapes, Shape
<1> DEFINE m == k + 1
<1>2. /\ k < script.tag /\ script.tag \in 1..4 /\ m \in Deploy!Migrations
      /\ Deploy!PendingMigrations # {} /\ Deploy!Min(Deploy!PendingMigrations) = m
  <2>1. Deploy!PendingMigrations # {}
    BY DEF Deploy!Migrated, Deploy!Recorded, RecordDue
  <2> QED
    BY <1>1, <2>1, OldestPending DEF Deploy!Migrations, Deploy!Baseline, Deploy!SnakeCase
<1>3. CASE Deploy!Migrated
  <2> DEFINE d == [db EXCEPT !.metaTable = TRUE]
  <2>1. /\ step = "run" /\ step' = "record" /\ Deploy!Runs(m) /\ db' = Deploy!Up(m, d)
        /\ UNCHANGED <<app, script, dump, written, torn>>
    BY <1>2, <1>3 DEF Deploy!Migrated
  <2>2. d \in Deploy!Database /\ d.meta = db.meta /\ d.names = db.names /\ d.writes = db.writes
    BY DEF Deploy!Database
  <2> HIDE DEF d
  <2>3. /\ db' \in Deploy!Database /\ db'.meta = 1..k /\ db'.writes = db.writes
        /\ m = 1 => db'.names = d.names \cup {"camel"}
        /\ m \in {2, 3} => db'.names = d.names
        /\ m = 4 => db'.names = {"snake"}
    BY <1>1, <1>2, <2>1, <2>2, UpDoes
  <2>4. db'.names = IF m = 4 THEN {"snake"} ELSE {"camel"}
    <3>1. CASE k = 0
      <4>1. db'.names = db.names \cup {"camel"} /\ db.names \in {{}, {"camel"}}
        BY <1>1, <2>2, <2>3, <3>1
      <4>2. db'.names = {"camel"}
        BY <4>1
      <4> QED
        BY <3>1, <4>2
    <3>2. CASE k \in {1, 2}
      <4>1. m \in {2, 3} /\ m # 4
        BY <3>2
      <4>2. db'.names = db.names
        BY <2>2, <2>3, <4>1
      <4> QED
        BY <1>1, <3>2, <4>1, <4>2
    <3>3. CASE k = 3
      BY <2>3, <3>3
    <3> QED
      BY <1>2, <3>1, <3>2, <3>3
  <2>5. Shape(db)'
    BY <1>1, <1>2, <2>3, <2>4 DEF Shape
  <2>6. Shapes' /\ Deploy!TypeOK'
    BY <2>1, <2>3, <2>5 DEF Shapes, Shape, Deploy!Active
  <2>7. Deploy!PendingMigrations' = Deploy!PendingMigrations
    BY <1>1, <2>1, <2>3 DEF Deploy!PendingMigrations
  <2>8. RecordDue'
    BY <1>2, <2>1, <2>4, <2>7 DEF RecordDue, Deploy!Torn
  <2>9. DumpIsLast' /\ RestoreReady'
    BY <2>1, <2>3 DEF DumpIsLast, RestoreReady, Deploy!Active
  <2> QED
    BY <2>6, <2>8, <2>9
<1>4. CASE Deploy!Recorded
  <2>1. /\ step = "record" /\ step' = "run" /\ db' = [db EXCEPT !.meta = db.meta \cup {m}]
        /\ UNCHANGED <<app, script, dump, written, torn>>
    BY <1>2, <1>4 DEF Deploy!Recorded
  <2>2. db.meta \cup {m} = 1..m /\ 1..m \subseteq Deploy!Migrations
    BY <1>1, <1>2 DEF Deploy!Migrations, Deploy!Baseline, Deploy!SnakeCase
  <2>3. /\ db' \in Deploy!Database /\ db'.meta = 1..m /\ db'.writes = db.writes
        /\ db'.names = db.names /\ db'.pair = db.pair
    BY <2>1, <2>2 DEF Deploy!Database
  <2>4. db.names = IF m = 4 THEN {"snake"} ELSE {"camel"}
    BY <1>2, <2>1 DEF RecordDue
  <2>5. Shape(db)'
    BY <1>1, <1>2, <2>3, <2>4 DEF Shape
  <2>6. Shapes' /\ Deploy!TypeOK'
    BY <2>1, <2>3, <2>5 DEF Shapes, Shape, Deploy!Active
  <2>7. ~Deploy!Torn(db)'
    BY <1>2, <2>3, <2>4 DEF Deploy!Torn, Deploy!SnakeCase
  <2>8. RecordDue'
    BY <2>1, <2>7 DEF RecordDue
  <2>9. DumpIsLast' /\ RestoreReady'
    BY <2>1, <2>3 DEF DumpIsLast, RestoreReady, Deploy!Active
  <2> QED
    BY <2>6, <2>8, <2>9
<1> QED
  BY <1>3, <1>4

LEMMA DeployStep ==
    ASSUME DeployInv, [Deploy!Next]_deployVars
    PROVE  DeployInv'
<1>1. CASE UNCHANGED deployVars
  <2> USE DEF deployVars, DeployInv
  <2>1. Deploy!TypeOK'
    BY <1>1 DEF Deploy!TypeOK
  <2>2. Shapes' /\ DumpIsLast' /\ RestoreReady'
    BY <1>1 DEF Shapes, Shape, DumpIsLast, RestoreReady
  <2>3. RecordDue'
    BY <1>1 DEF RecordDue, Deploy!Torn, Deploy!PendingMigrations
  <2> QED
    BY <2>1, <2>2, <2>3
<1> QED
  BY <1>1, DataSteps, OperatorSteps, ScriptSteps, MigrationSteps DEF Deploy!Next

\* A migration never makes present what was removed, and a restore replaces nothing:
\* only the bot's own add does.
LEMMA RemovalStep ==
    ASSUME DeployInv, [Deploy!Next]_deployVars
    PROVE  \A p \in Pairs :
               db.pair[p] = "removed" /\ db'.pair[p] = "present" => Deploy!ResponseAdded(p)
<1>1. SUFFICES ASSUME NEW p \in Pairs, db.pair[p] = "removed", ~Deploy!ResponseAdded(p)
               PROVE  db'.pair[p] # "present"
  OBVIOUS
<1> USE DEF DeployInv, Deploy!TypeOK
<1>2. CASE db' = db
  BY <1>1, <1>2
<1>3. CASE Deploy!AppWrites \/ Deploy!Recreated \/ Deploy!Recorded
  BY <1>1, <1>3
  DEF Deploy!AppWrites, Deploy!Recreated, Deploy!Recorded, Deploy!Empty, Deploy!Database
<1>4. ASSUME NEW q \in Pairs, Deploy!ResponseRemoved(q) \/ Deploy!ResponseAdded(q)
      PROVE  db'.pair[p] # "present"
  BY <1>1, <1>4 DEF Deploy!ResponseRemoved, Deploy!ResponseAdded, Deploy!Database
<1>5. CASE Deploy!Restored
  <2>1. db.pair[p] = "absent"
    BY <1>5 DEF Deploy!Restored, RestoreReady, Deploy!Empty
  <2> QED
    BY <1>1, <2>1
<1>6. CASE Deploy!Migrated
  <2> DEFINE d == [db EXCEPT !.metaTable = TRUE]
             m == Deploy!Min(Deploy!PendingMigrations)
  <2>1. Deploy!Runs(m) /\ db' = Deploy!Up(m, d)
    BY <1>6 DEF Deploy!Migrated
  <2>2. m \in Deploy!Migrations
    <3>1. PICK k \in 0..4 : db.meta = 1..k
      BY DEF Shapes, Shape
    <3> QED
      BY <1>6, <3>1, OldestPending
      DEF Deploy!Migrated, Deploy!Migrations, Deploy!Baseline, Deploy!SnakeCase
  <2>3. d \in Deploy!Database /\ d.pair = db.pair
    BY DEF Deploy!Database
  <2> HIDE DEF d, m
  <2> QED
    BY <1>1, <2>1, <2>2, <2>3, UpDoes
<1> QED
  BY <1>2, <1>3, <1>4, <1>5, <1>6
  DEF Deploy!Next, Deploy!AppStarts, Deploy!Backup, Deploy!MigrateBegins, Deploy!FreshBegins,
      Deploy!Begins, Deploy!AppStopped, Deploy!Dumped, Deploy!Fails, Deploy!AllMigrated, deployVars

-----------------------------------------------------------------------------
(* Ages.                                                                   *)

\* Division leaves a remainder smaller than the divisor.
LEMMA DivMod ==
    ASSUME NEW a \in Nat, NEW b \in Nat \ {0}
    PROVE  /\ a \div b \in Nat /\ (a % b) \in 0..(b - 1)
           /\ a = b * (a \div b) + (a % b)
BY SMT

\* The report of an age, part by part.
LEMMA ReportParts ==
    ASSUME NEW y, NEW mo, NEW d, NEW h, NEW mi,
           y = Ages!Years, mo = Ages!Months, d = Ages!Days, h = Ages!Hours,
           mi = IF Ages!Years = 0 /\ Ages!Months = 0 THEN Ages!Minutes ELSE 0
    PROVE  /\ Ages!Told("years") = y /\ Ages!Told("months") = mo /\ Ages!Told("days") = d
           /\ Ages!Told("hours") = h /\ Ages!Told("minutes") = mi
<1> DEFINE parts == [years |-> y, months |-> mo, days |-> d, hours |-> h, minutes |-> mi]
           shown == {q \in DOMAIN parts : parts[q] # 0}
<1>1. Ages!AgeReport = [p \in shown |-> parts[p]]
  BY DEF Ages!AgeReport
<1>2. \A p : Ages!Told(p) = IF p \in shown THEN parts[p] ELSE 0
  BY <1>1 DEF Ages!Told
<1>3. DOMAIN parts = {"years", "months", "days", "hours", "minutes"}
  OBVIOUS
<1>4. \A p \in DOMAIN parts : Ages!Told(p) = parts[p]
  BY <1>2
<1> QED
  BY <1>3, <1>4

\* A year is 12 months and 6 thousandths of a day: what is left of one, which is a
\* multiple of a quarter of a day, has no room for the twelfth.
LEMMA AgesCorrect ==
    ASSUME age \in Nat
    PROVE  AgesAddUp
<1> DEFINE y == Ages!Years
           mo == Ages!Months
           d == Ages!Days
           h == Ages!Hours
           mi == IF y = 0 /\ mo = 0 THEN Ages!Minutes ELSE 0
           total == Ages!TotalDays
           rest == Ages!RestOfYear
           month == rest % 30437
<1>1. /\ Ages!Told("years") = y /\ Ages!Told("months") = mo /\ Ages!Told("days") = d
      /\ Ages!Told("hours") = h /\ Ages!Told("minutes") = mi
  BY ReportParts
<1>2. /\ Ages!TotalHours \in Nat /\ age = Ages!TotalHours * 60 + Ages!Minutes
      /\ Ages!Minutes \in Nat
  BY SMT, DivMod DEF Ages!TotalHours, Ages!Minutes
<1>3. total \in Nat /\ h \in Nat /\ h < 24 /\ Ages!TotalHours = total * 24 + h
  BY SMT, <1>2, DivMod DEF Ages!TotalDays, Ages!Hours
<1>4. y \in Nat /\ rest \in Nat /\ rest < 365250 /\ total * 1000 = y * 365250 + rest
  BY SMT, <1>3, DivMod DEF Ages!Years, Ages!RestOfYear, Ages!Day, Ages!Year
<1>5. mo \in Nat /\ month \in Nat /\ month < 30437 /\ rest = mo * 30437 + month
  BY SMT, <1>4, DivMod DEF Ages!Months, Ages!Month
<1>6. d = month \div 1000
  BY DEF Ages!Days, Ages!Month, Ages!Day
<1> HIDE DEF y, mo, d, h, mi, total, rest, month
<1>7. d \in Nat /\ d * 1000 <= month /\ month < d * 1000 + 1000
  BY SMT, <1>5, <1>6, DivMod
<1>8. mo < 12
  <2> DEFINE n == 4 * total - 1461 * y
  <2>1. n \in Int
    BY SMT, <1>3, <1>4
  <2>2. rest = 250 * n
    BY SMT, <1>3, <1>4
  <2> HIDE DEF n
  <2>3. rest <= 365000
    <3>1. rest < 365250 /\ rest \in Nat
      BY SMT, <1>4
    <3> QED
      BY SMT, <2>1, <2>2, <3>1
  <2>4. mo \in Nat /\ mo * 30437 <= rest /\ rest \in Nat
    BY SMT, <1>4, <1>5
  <2> QED
    BY SMT, <2>3, <2>4
<1>9. d <= 30
  BY SMT, <1>5, <1>7
<1>10. /\ y * 365250 + mo * 30437 + d * 1000 <= total * 1000
      /\ total * 1000 < y * 365250 + mo * 30437 + d * 1000 + 1000
  BY SMT, <1>3, <1>4, <1>5, <1>7
<1>11. ASSUME y = 0, mo = 0
       PROVE  (d * 24 + h) * 60 + mi = age
  <2>1. d = total
    BY SMT, <1>3, <1>4, <1>5, <1>7, <1>11
  <2>2. mi = Ages!Minutes
    BY <1>11 DEF mi, y, mo
  <2> QED
    BY SMT, <1>2, <1>3, <2>1, <2>2
<1> QED
  BY SMT, <1>1, <1>3, <1>8, <1>9, <1>10, <1>11
  DEF AgesAddUp, Ages!AgesAddUp, Ages!Year, Ages!Month, Ages!Day, total

-----------------------------------------------------------------------------
(* Subscriptions.                                                          *)

Busy == {h \in Handlers : handling[h] # Free}
Saying == {h \in Handlers : Subs!At(h, "say")}

\* Every stamp is of a notice, and the notices still to be thanked have none.
StampsCounted ==
    IsFiniteSet(Saying) /\ notices \in Nat /\ stamp \in Nat /\ stamp + Cardinality(Saying) <= notices

\* A handler has a gift once it has written one, which only those of gifts do.
GiftsOnTheWay ==
    \A h \in Busy :
        LET c == handling[h]
        IN  /\ c.gift # 0 <=> c.at = "subscriber" /\ c.kind \in Subs!Gifted
            /\ c.at = "gift" => c.kind \in Subs!Gifted
            /\ c.kind \in Subs!Gifted => c.gifter \in Gifters
            /\ c.kind = "CommunitySub" => c.count # 0

\* A gift a handler has written is its own.
GiftsOwned ==
    \A h \in Busy : handling[h].gift # 0 =>
        /\ \A i \in DOMAIN subscribers : subscribers[i].gift # handling[h].gift
        /\ \A k \in Busy : handling[k].gift = handling[h].gift => k = h

\* While notices do not overlap nor fail, each is stamped and recorded before the
\* next is sent.
InTurn ==
    /\ \A i \in DOMAIN subscribers : subscribers[i].createdAt <= stamp
    /\ ~failed /\ ~overlapped =>
           /\ \A h \in Busy :
                  /\ Busy = {h} /\ handling[h].of = notices
                  /\ handling[h].at # "say" =>
                         /\ handling[h].createdAt = stamp
                         /\ \A i \in DOMAIN subscribers : subscribers[i].createdAt < stamp
           /\ Busy = {} =>
                  /\ \A i \in DOMAIN subscribers :
                         subscribers[i].createdAt = stamp => subscribers[i].of = notices
                  /\ subscribers # <<>> =>
                         \E i \in DOMAIN subscribers : subscribers[i].createdAt = stamp

SubInv ==
    /\ Subs!TypeOK /\ StampsCounted /\ GiftsOnTheWay /\ GiftsOwned
    /\ GiftsHaveTheirGiver /\ InTurn

LEMMA InitSubInv == Subs!Init => SubInv
<1> SUFFICES ASSUME Subs!Init PROVE SubInv
  OBVIOUS
<1> USE DEF Subs!Init
<1>1. Busy = {} /\ Saying = {}
  BY DEF Busy, Saying, Subs!At
<1>2. Subs!TypeOK
  <2>1. handling \in [Handlers -> Subs!Handled \cup {Free}] /\ \A h \in Handlers : handling[h] = Free
    OBVIOUS
  <2>2. announced \in [Gifters -> [total : Nat, due : Nat]] /\ single \in [Gifters -> Nat]
    OBVIOUS
  <2>3. failed \in BOOLEAN /\ overlapped \in BOOLEAN
    OBVIOUS
  <2>4. notices \in 0..MaxNotices /\ stamp \in 0..MaxNotices
    BY SubscriptionsAssumption
  <2>5. gifts \in Seq(Subs!Gift) /\ subscribers \in Seq(Subs!Subscriber)
    OBVIOUS
  <2> QED
    BY <2>1, <2>2, <2>3, <2>4, <2>5 DEF Subs!TypeOK
<1>3. StampsCounted
  BY <1>1, FS_EmptySet DEF StampsCounted
<1>4. GiftsHaveTheirGiver
  BY DEF GiftsHaveTheirGiver, Subs!GiftsHaveTheirGiver
<1> QED
  BY <1>1, <1>2, <1>3, <1>4 DEF SubInv, GiftsOnTheWay, GiftsOwned, InTurn

\* A notice arrives, with the parameters its handler was called with.
LEMMA NoticeKeeps ==
    ASSUME SubInv, NEW h \in Handlers, NEW kind \in Subs!Kinds, NEW prime \in BOOLEAN,
           NEW gifter \in Gifters \cup {Nobody}, NEW count \in Nat, NEW total \in Nat,
           kind \in Subs!Gifted => gifter \in Gifters, kind = "CommunitySub" => count # 0,
           Subs!Notice(h, kind, prime, gifter, count, total),
           announced' \in [Gifters -> [total : Nat, due : Nat]], single' \in [Gifters -> Nat]
    PROVE  SubInv'
<1> DEFINE c == [at |-> "say", kind |-> kind, prime |-> prime, gifter |-> gifter, count |-> count,
                 total |-> total, gift |-> 0, createdAt |-> 0, of |-> notices + 1]
<1>1. /\ handling[h] = Free /\ notices < MaxNotices /\ notices' = notices + 1
      /\ handling' = [handling EXCEPT ![h] = c]
      /\ overlapped' = (overlapped \/ \E j \in Handlers : handling[j] # Free)
      /\ UNCHANGED <<stamp, gifts, subscribers, failed>>
  BY DEF Subs!Notice, Subs!tables
<1>2. /\ notices \in 0..MaxNotices /\ stamp \in 0..MaxNotices /\ MaxNotices \in Nat
      /\ handling \in [Handlers -> Subs!Handled \cup {Free}]
  BY SubscriptionsAssumption DEF SubInv, Subs!TypeOK
<1>3. c \in Subs!Handled /\ c # Free
  <2>1. c \in Subs!Handled
    BY <1>2 DEF Subs!Handled
  <2> QED
    BY <2>1, SubscriptionsAssumption
<1>4. /\ c.at = "say" /\ c.kind = kind /\ c.gifter = gifter /\ c.count = count
      /\ c.gift = 0 /\ c.createdAt = 0 /\ c.of = notices + 1
  OBVIOUS
<1> HIDE DEF c
<1>5. /\ handling' \in [Handlers -> Subs!Handled \cup {Free}] /\ handling'[h] = c
      /\ \A j \in Handlers \ {h} : handling'[j] = handling[j]
      /\ Busy' = Busy \cup {h} /\ h \notin Busy
  BY <1>1, <1>2, <1>3 DEF Busy
<1>6. Saying' = Saying \cup {h} /\ h \notin Saying
  BY <1>1, <1>3, <1>4, <1>5 DEF Saying, Subs!At
<1>7. Subs!TypeOK'
  <2>1. \A j \in Handlers : handling'[j] # Free =>
            /\ handling'[j].gift <= Len(gifts) /\ handling'[j].createdAt <= stamp
            /\ handling'[j].of \in 1..(notices + 1)
    <3> SUFFICES ASSUME NEW j \in Handlers, handling'[j] # Free
                 PROVE  /\ handling'[j].gift <= Len(gifts) /\ handling'[j].createdAt <= stamp
                        /\ handling'[j].of \in 1..(notices + 1)
      OBVIOUS
    <3>1. CASE j = h
      BY <1>2, <1>4, <1>5, <3>1 DEF SubInv, Subs!TypeOK
    <3>2. CASE j # h
      <4>1. handling'[j] = handling[j]
        BY <1>5, <3>2
      <4>2. /\ handling[j].gift <= Len(gifts) /\ handling[j].createdAt <= stamp
            /\ handling[j].of \in 1..notices
        BY <4>1 DEF SubInv, Subs!TypeOK
      <4> QED
        BY <1>2, <4>1, <4>2
    <3> QED
      BY <3>1, <3>2
  <2>2. overlapped' \in BOOLEAN /\ notices' \in 0..MaxNotices
    BY <1>1, <1>2 DEF SubInv, Subs!TypeOK
  <2> QED
    BY <1>1, <1>5, <2>1, <2>2 DEF SubInv, Subs!TypeOK
<1>8. StampsCounted'
  <2>1. IsFiniteSet(Saying') /\ Cardinality(Saying') = Cardinality(Saying) + 1
    BY <1>6, FS_AddElement DEF SubInv, StampsCounted
  <2>2. Cardinality(Saying) \in Nat
    BY FS_CardinalityType DEF SubInv, StampsCounted
  <2> QED
    BY <1>1, <2>1, <2>2 DEF SubInv, StampsCounted
<1>9. GiftsOnTheWay' /\ GiftsOwned'
  BY <1>1, <1>4, <1>5 DEF SubInv, GiftsOnTheWay, GiftsOwned, Busy
<1>10. GiftsHaveTheirGiver'
  BY <1>1, <1>5 DEF SubInv, GiftsHaveTheirGiver, Subs!GiftsHaveTheirGiver
<1>11. InTurn'
  <2>1. ~failed' /\ ~overlapped' => Busy = {}
    BY <1>1 DEF Busy
  <2> QED
    BY <1>1, <1>4, <1>5, <2>1 DEF SubInv, InTurn
<1> QED
  BY <1>7, <1>8, <1>9, <1>10, <1>11 DEF SubInv

LEMMA NoticesKeep ==
    ASSUME SubInv, NEW h \in Handlers,
           \/ \E kind \in {"NewSub", "PrimeSub", "ReSub", "Extend"}, prime \in BOOLEAN :
                  Subs!Subscribed(h, kind, prime)
           \/ \E g \in Gifters : \/ Subs!GiftReceived(h, g)
                                \/ \E n \in 1..MaxGift : Subs!CommunityGift(h, g, n)
    PROVE  SubInv'
<1> USE DEF Subs!Kinds, Subs!Gifted
<1>1. announced \in [Gifters -> [total : Nat, due : Nat]] /\ single \in [Gifters -> Nat]
  BY DEF SubInv, Subs!TypeOK
<1>2. ASSUME NEW kind \in {"NewSub", "PrimeSub", "ReSub", "Extend"}, NEW prime \in BOOLEAN,
             Subs!Subscribed(h, kind, prime)
      PROVE  SubInv'
  <2>1. Subs!Notice(h, kind, prime, Nobody, 0, 0)
    BY <1>2 DEF Subs!Subscribed
  <2>2. announced' \in [Gifters -> [total : Nat, due : Nat]] /\ single' \in [Gifters -> Nat]
    BY <1>1, <1>2 DEF Subs!Subscribed
  <2>3. kind \in Subs!Kinds /\ kind \notin Subs!Gifted /\ kind # "CommunitySub"
    OBVIOUS
  <2>4. Nobody \in Gifters \cup {Nobody} /\ 0 \in Nat
    OBVIOUS
  <2> HIDE DEF Subs!Kinds, Subs!Gifted
  <2>5. SubInv /\ h \in Handlers /\ prime \in BOOLEAN
    OBVIOUS
  <2> QED
    BY ONLY <2>1, <2>2, <2>3, <2>4, <2>5, NoticeKeeps
<1>3. ASSUME NEW g \in Gifters, Subs!GiftReceived(h, g)
      PROVE  SubInv'
  <2>1. announced' \in [Gifters -> [total : Nat, due : Nat]] /\ single' \in [Gifters -> Nat]
    BY <1>1, <1>3 DEF Subs!GiftReceived
  <2>2. Subs!Notice(h, "GiftSub", FALSE, g, 1, 0)
    BY <1>3 DEF Subs!GiftReceived
  <2> QED
    BY <2>1, <2>2, NoticeKeeps
<1>4. ASSUME NEW g \in Gifters, NEW n \in 1..MaxGift, Subs!CommunityGift(h, g, n)
      PROVE  SubInv'
  <2>1. n \in Nat /\ n # 0 /\ announced[g].total + single[g] + n \in Nat
    BY <1>1, SubscriptionsAssumption
  <2>2. announced' \in [Gifters -> [total : Nat, due : Nat]] /\ single' \in [Gifters -> Nat]
    BY <1>1, <1>4, <2>1 DEF Subs!CommunityGift
  <2>3. Subs!Notice(h, "CommunitySub", FALSE, g, n, announced[g].total + single[g] + n)
    BY <1>4 DEF Subs!CommunityGift
  <2> QED
    BY <2>1, <2>2, <2>3, NoticeKeeps
<1> QED
  BY <1>2, <1>3, <1>4

\* A record's stamp is no later than the clock.
LEMMA Stamped ==
    ASSUME SubInv, NEW i \in DOMAIN subscribers
    PROVE  /\ subscribers[i] \in Subs!Subscriber /\ subscribers[i].createdAt \in Nat
           /\ subscribers[i].createdAt <= stamp
<1>1. subscribers \in Seq(Subs!Subscriber) /\ DOMAIN subscribers = 1..Len(subscribers)
  BY DEF SubInv, Subs!TypeOK
<1>2. subscribers[i] \in Subs!Subscriber
  BY <1>1
<1>3. subscribers[i].createdAt \in Nat
  BY <1>2 DEF Subs!Subscriber
<1> QED
  BY <1>2, <1>3 DEF SubInv, InTurn

\* The thanks are said: one more stamp, one less to say.
LEMMA ThankedKeeps == ASSUME SubInv, NEW h \in Handlers, Subs!Thanked(h) PROVE SubInv'
<1> DEFINE at == IF handling[h].kind \in Subs!Gifted THEN "gift" ELSE "subscriber"
           c == handling'[h]
<1>1. /\ h \in Busy /\ handling[h].at = "say" /\ stamp' = stamp + 1
      /\ UNCHANGED <<notices, announced, gifts, subscribers, single, failed, overlapped>>
  BY DEF Subs!Thanked, Subs!At, Subs!tables, Busy
<1>2. /\ notices \in 0..MaxNotices /\ stamp \in 0..MaxNotices /\ MaxNotices \in Nat
      /\ handling \in [Handlers -> Subs!Handled \cup {Free}] /\ handling[h] \in Subs!Handled
  BY <1>1, SubscriptionsAssumption DEF SubInv, Subs!TypeOK, Busy
<1>3. handling' = [handling EXCEPT ![h] = [[handling[h] EXCEPT !.createdAt = stamp + 1] EXCEPT !.at = at]]
  BY <1>2 DEF Subs!Thanked
<1>4. c = [[handling[h] EXCEPT !.createdAt = stamp + 1] EXCEPT !.at = at]
  BY <1>2, <1>3
<1>5. /\ c \in Subs!Handled /\ c.at = at /\ c.createdAt = stamp + 1 /\ c.kind = handling[h].kind
      /\ c.gift = handling[h].gift /\ c.of = handling[h].of /\ c.gifter = handling[h].gifter
      /\ c.count = handling[h].count
  <2> HIDE DEF c
  <2>1. at \in {"gift", "subscriber"}
    OBVIOUS
  <2> HIDE DEF at
  <2> DEFINE u == [handling[h] EXCEPT !.createdAt = stamp + 1]
  <2>2. stamp + 1 \in Nat
    BY <1>2
  <2>3. /\ u \in Subs!Handled /\ u.kind = handling[h].kind /\ u.gift = handling[h].gift
        /\ u.of = handling[h].of /\ u.gifter = handling[h].gifter /\ u.count = handling[h].count
        /\ u.createdAt = stamp + 1
    BY <1>2, <2>2 DEF Subs!Handled
  <2>4. c = [u EXCEPT !.at = at]
    BY <1>4
  <2> HIDE DEF u
  <2> QED
    BY <2>1, <2>3, <2>4 DEF Subs!Handled
<1>6. c # Free
  BY <1>5, SubscriptionsAssumption
<1> HIDE DEF c
<1>7. /\ handling' \in [Handlers -> Subs!Handled \cup {Free}] /\ handling'[h] = c
      /\ \A j \in Handlers \ {h} : handling'[j] = handling[j]
      /\ Busy' = Busy
  <2>1. handling' \in [Handlers -> Subs!Handled \cup {Free}] /\ handling'[h] = c
    BY <1>2, <1>3, <1>4, <1>5
  <2>2. \A j \in Handlers \ {h} : handling'[j] = handling[j]
    BY <1>2, <1>3
  <2> QED
    BY <1>1, <1>6, <2>1, <2>2 DEF Busy
<1>8. Saying' = Saying \ {h} /\ h \in Saying
  BY <1>1, <1>5, <1>7 DEF Saying, Subs!At, Busy
<1>9. /\ IsFiniteSet(Saying') /\ Cardinality(Saying') = Cardinality(Saying) - 1
      /\ Cardinality(Saying) \in Nat /\ Cardinality(Saying') \in Nat
  BY <1>8, FS_RemoveElement, FS_CardinalityType DEF SubInv, StampsCounted
<1>10. StampsCounted' /\ stamp < notices
  BY <1>1, <1>9 DEF SubInv, StampsCounted
<1>11. Subs!TypeOK'
  <2>1. \A j \in Handlers : handling'[j] # Free =>
            /\ handling'[j].gift <= Len(gifts) /\ handling'[j].createdAt <= stamp + 1
            /\ handling'[j].of \in 1..notices
    <3> SUFFICES ASSUME NEW j \in Handlers, handling'[j] # Free
                 PROVE  /\ handling'[j].gift <= Len(gifts) /\ handling'[j].createdAt <= stamp + 1
                        /\ handling'[j].of \in 1..notices
      OBVIOUS
    <3>1. CASE j = h
      BY <1>1, <1>2, <1>5, <1>7, <3>1 DEF SubInv, Subs!TypeOK, Busy
    <3>2. CASE j # h
      <4>1. handling'[j] = handling[j] /\ handling[j] \in Subs!Handled
        BY <1>2, <1>7, <3>2
      <4>2. handling[j].createdAt \in Nat
        BY <4>1 DEF Subs!Handled
      <4> QED
        BY <1>2, <4>1, <4>2 DEF SubInv, Subs!TypeOK
    <3> QED
      BY <3>1, <3>2
  <2>2. notices' \in 0..MaxNotices /\ stamp' \in 0..MaxNotices
    BY <1>1, <1>2, <1>10
  <2>3. failed' \in BOOLEAN /\ overlapped' \in BOOLEAN
    BY <1>1 DEF SubInv, Subs!TypeOK
  <2>4. announced' \in [Gifters -> [total : Nat, due : Nat]] /\ single' \in [Gifters -> Nat]
    BY <1>1 DEF SubInv, Subs!TypeOK
  <2>5. gifts' \in Seq(Subs!Gift) /\ subscribers' \in Seq(Subs!Subscriber)
    BY <1>1 DEF SubInv, Subs!TypeOK
  <2> QED
    BY <1>1, <1>7, <2>1, <2>2, <2>3, <2>4, <2>5 DEF Subs!TypeOK
<1>12. GiftsOnTheWay'
  BY <1>1, <1>5, <1>7 DEF SubInv, GiftsOnTheWay, Busy
<1>13. \A j \in Busy : handling'[j].gift = handling[j].gift
  BY <1>5, <1>7 DEF Busy
<1>14. GiftsOwned'
  BY <1>1, <1>7, <1>13 DEF SubInv, GiftsOwned
<1>15. GiftsHaveTheirGiver'
  BY <1>1, <1>7, <1>13 DEF SubInv, GiftsHaveTheirGiver, Subs!GiftsHaveTheirGiver, Busy
<1>16. InTurn'
  <2>1. \A i \in DOMAIN subscribers : subscribers[i].createdAt < stamp + 1
    BY <1>2, Stamped
  <2>2. ~failed /\ ~overlapped => Busy = {h} /\ handling[h].of = notices
    BY <1>1 DEF SubInv, InTurn
  <2>3. \A i \in DOMAIN subscribers : subscribers[i].createdAt <= stamp + 1
    BY <1>2, Stamped
  <2> QED
    BY <1>1, <1>5, <1>7, <2>1, <2>2, <2>3 DEF InTurn
<1> QED
  BY <1>10, <1>11, <1>12, <1>14, <1>15, <1>16 DEF SubInv

\* A handler's record of a gift is written, with a number of its own.
LEMMA GiftCreatedKeeps == ASSUME SubInv, NEW h \in Handlers, Subs!GiftCreated(h) PROVE SubInv'
<1> DEFINE n == Len(gifts) + 1
           c == handling'[h]
           gift == [gifter |-> handling[h].gifter, giftCount |-> Subs!GiftCount(handling[h])]
<1>1. /\ h \in Busy /\ handling[h].at = "gift" /\ gifts' = Append(gifts, gift)
      /\ UNCHANGED <<notices, announced, stamp, subscribers, single, failed, overlapped>>
  BY DEF Subs!GiftCreated, Subs!At, Busy
<1>2. /\ handling \in [Handlers -> Subs!Handled \cup {Free}] /\ handling[h] \in Subs!Handled
      /\ gifts \in Seq(Subs!Gift) /\ n \in Nat \ {0}
  BY <1>1, SubscriptionsAssumption DEF SubInv, Subs!TypeOK, Busy
<1>3. /\ handling[h].kind \in Subs!Gifted /\ handling[h].gifter \in Gifters
      /\ handling[h].kind = "CommunitySub" => handling[h].count # 0
      /\ handling[h].gift = 0
  BY <1>1 DEF SubInv, GiftsOnTheWay
<1>4. gift \in Subs!Gift
  <2>1. handling[h].count \in Nat
    BY <1>2 DEF Subs!Handled
  <2>2. Subs!GiftCount(handling[h]) \in Nat \ {0}
    BY <1>3, <2>1 DEF Subs!GiftCount
  <2> QED
    BY <1>3, <2>2 DEF Subs!Gift
<1> HIDE DEF gift
<1>5. gifts' \in Seq(Subs!Gift) /\ Len(gifts') = n /\ DOMAIN gifts' = 1..n
  BY <1>1, <1>2, <1>4
<1>6. c = [[handling[h] EXCEPT !.gift = n] EXCEPT !.at = "subscriber"]
      /\ handling' = [handling EXCEPT ![h] = [[handling[h] EXCEPT !.gift = n] EXCEPT !.at = "subscriber"]]
  BY <1>2 DEF Subs!GiftCreated
<1>7. /\ c \in Subs!Handled /\ c.at = "subscriber" /\ c.gift = n /\ c.kind = handling[h].kind
      /\ c.createdAt = handling[h].createdAt /\ c.of = handling[h].of
      /\ c.gifter = handling[h].gifter /\ c.count = handling[h].count
  <2> DEFINE u == [handling[h] EXCEPT !.gift = n]
  <2>1. /\ u \in Subs!Handled /\ u.kind = handling[h].kind /\ u.gift = n
        /\ u.of = handling[h].of /\ u.gifter = handling[h].gifter /\ u.count = handling[h].count
        /\ u.createdAt = handling[h].createdAt
    BY <1>2 DEF Subs!Handled
  <2>2. c = [u EXCEPT !.at = "subscriber"]
    BY <1>6
  <2> HIDE DEF u, c
  <2> QED
    BY <2>1, <2>2 DEF Subs!Handled
<1>8. c # Free
  BY <1>7, SubscriptionsAssumption
<1> HIDE DEF c
<1>9. /\ handling' \in [Handlers -> Subs!Handled \cup {Free}] /\ handling'[h] = c
      /\ \A j \in Handlers \ {h} : handling'[j] = handling[j]
      /\ Busy' = Busy
  <2>1. handling' \in [Handlers -> Subs!Handled \cup {Free}] /\ handling'[h] = c
    BY <1>2, <1>6, <1>7
  <2>2. \A j \in Handlers \ {h} : handling'[j] = handling[j]
    BY <1>2, <1>6
  <2> QED
    BY <1>1, <1>8, <2>1, <2>2 DEF Busy
<1>10. Saying' = Saying
  BY <1>1, <1>7, <1>9 DEF Saying, Subs!At, Busy
<1>11. StampsCounted'
  BY <1>1, <1>10 DEF SubInv, StampsCounted
<1>12. \A j \in Busy : j # h => handling[j].gift \in Nat /\ handling[j].gift < n
  <2> SUFFICES ASSUME NEW j \in Busy PROVE handling[j].gift \in Nat /\ handling[j].gift < n
    OBVIOUS
  <2>1. handling[j] \in Subs!Handled /\ handling[j].gift <= Len(gifts)
    BY <1>2 DEF SubInv, Subs!TypeOK, Busy
  <2>2. handling[j].gift \in Nat
    BY <2>1 DEF Subs!Handled
  <2> QED
    BY <1>2, <2>1, <2>2
<1>13. \A i \in DOMAIN subscribers : subscribers[i].gift \in 0..Len(gifts) /\ subscribers[i].gift # n
  BY <1>2 DEF SubInv, GiftsHaveTheirGiver, Subs!GiftsHaveTheirGiver
<1>14. Subs!TypeOK'
  <2>1. \A j \in Handlers : handling'[j] # Free =>
            /\ handling'[j].gift <= n /\ handling'[j].createdAt <= stamp
            /\ handling'[j].of \in 1..notices
    <3> SUFFICES ASSUME NEW j \in Handlers, handling'[j] # Free
                 PROVE  /\ handling'[j].gift <= n /\ handling'[j].createdAt <= stamp
                        /\ handling'[j].of \in 1..notices
      OBVIOUS
    <3>1. CASE j = h
      BY <1>1, <1>2, <1>7, <1>9, <3>1 DEF SubInv, Subs!TypeOK, Busy
    <3>2. CASE j # h
      BY <1>2, <1>9, <1>12, <3>2 DEF SubInv, Subs!TypeOK, Busy
    <3> QED
      BY <3>1, <3>2
  <2>2. notices' \in 0..MaxNotices /\ stamp' \in 0..MaxNotices
    BY <1>1 DEF SubInv, Subs!TypeOK
  <2>3. failed' \in BOOLEAN /\ overlapped' \in BOOLEAN
    BY <1>1 DEF SubInv, Subs!TypeOK
  <2>4. announced' \in [Gifters -> [total : Nat, due : Nat]] /\ single' \in [Gifters -> Nat]
    BY <1>1 DEF SubInv, Subs!TypeOK
  <2>5. subscribers' \in Seq(Subs!Subscriber)
    BY <1>1 DEF SubInv, Subs!TypeOK
  <2> QED
    BY <1>1, <1>5, <1>9, <2>1, <2>2, <2>3, <2>4, <2>5 DEF Subs!TypeOK
<1>15. GiftsOnTheWay'
  BY <1>1, <1>2, <1>3, <1>7, <1>9 DEF SubInv, GiftsOnTheWay, Busy
<1>16. GiftsOwned'
  <2>1. \A j \in Busy : j # h => handling'[j] = handling[j] /\ handling'[j].gift # n
    BY <1>2, <1>9, <1>12 DEF Busy
  <2> QED
    BY <1>1, <1>7, <1>9, <1>13, <2>1 DEF SubInv, GiftsOwned
<1>17. GiftsHaveTheirGiver'
  <2>1. \A i \in DOMAIN subscribers : subscribers[i].gift \in 0..n
    BY <1>2, <1>13
  <2>2. ASSUME ~failed, NEW m \in 1..n
        PROVE  \/ \E i \in DOMAIN subscribers : subscribers[i].gift = m
               \/ \E j \in Handlers : handling'[j] # Free /\ handling'[j].gift = m
    <3>1. CASE m = n
      BY <1>7, <1>8, <1>9, <3>1
    <3>2. CASE m # n
      <4>1. m \in DOMAIN gifts /\ m # 0
        BY <1>2, <3>2
      <4>2. \/ \E i \in DOMAIN subscribers : subscribers[i].gift = m
            \/ \E j \in Handlers : handling[j] # Free /\ handling[j].gift = m
        BY <2>2, <4>1 DEF SubInv, GiftsHaveTheirGiver, Subs!GiftsHaveTheirGiver
      <4> QED
        BY <1>3, <1>9, <4>1, <4>2
    <3> QED
      BY <3>1, <3>2
  <2> QED
    BY <1>1, <1>5, <2>1, <2>2 DEF SubInv, GiftsHaveTheirGiver, Subs!GiftsHaveTheirGiver
<1>18. InTurn'
  <2>1. handling'[h].at # "say" /\ handling[h].at # "say"
    BY <1>1, <1>7, <1>9
  <2> QED
    BY <1>1, <1>7, <1>9, <2>1 DEF SubInv, InTurn, Busy
<1> QED
  BY <1>11, <1>14, <1>15, <1>16, <1>17, <1>18 DEF SubInv

\* A handler is done: the others are as they were.
LEMMA Freed ==
    ASSUME SubInv, NEW h \in Busy, handling' = [handling EXCEPT ![h] = Free]
    PROVE  /\ handling' \in [Handlers -> Subs!Handled \cup {Free}]
           /\ Busy' = Busy \ {h} /\ handling'[h] = Free
           /\ \A j \in Handlers \ {h} : handling'[j] = handling[j]
           /\ Saying' = Saying \ {h}
           /\ IsFiniteSet(Saying') /\ Cardinality(Saying') \in Nat /\ Cardinality(Saying) \in Nat
           /\ Cardinality(Saying') <= Cardinality(Saying)
<1>1. handling \in [Handlers -> Subs!Handled \cup {Free}] /\ h \in Handlers
  BY DEF SubInv, Subs!TypeOK, Busy
<1>2. /\ handling' \in [Handlers -> Subs!Handled \cup {Free}]
      /\ handling'[h] = Free /\ \A j \in Handlers \ {h} : handling'[j] = handling[j]
  BY <1>1
<1>3. Busy' = Busy \ {h} /\ Saying' = Saying \ {h}
  BY <1>2 DEF Busy, Saying, Subs!At
<1>4. IsFiniteSet(Saying)
  BY DEF SubInv, StampsCounted
<1>5. CASE h \in Saying
  <2>1. Cardinality(Saying') = Cardinality(Saying) - 1 /\ IsFiniteSet(Saying')
    BY <1>3, <1>4, <1>5, FS_RemoveElement
  <2> QED
    BY <1>2, <1>3, <1>4, <2>1, FS_CardinalityType
<1>6. CASE h \notin Saying
  <2>1. Saying' = Saying
    BY <1>3, <1>6
  <2>2. Cardinality(Saying) \in Nat
    BY <1>4, FS_CardinalityType
  <2> QED
    BY <1>2, <1>3, <1>4, <2>1, <2>2
<1> QED
  BY <1>5, <1>6

\* A handler writes the record of its notice, with the gift it wrote before.
LEMMA SubscriberCreatedKeeps ==
    ASSUME SubInv, NEW h \in Handlers, Subs!SubscriberCreated(h) PROVE SubInv'
<1> DEFINE c == handling[h]
           s == [type |-> Subs!TypeOf(c), isPrime |-> Subs!IsPrime(c), gift |-> Subs!GiftOf(c),
                 createdAt |-> c.createdAt, of |-> c.of]
           n == Len(subscribers) + 1
<1>1. /\ h \in Busy /\ c.at = "subscriber" /\ subscribers' = Append(subscribers, s)
      /\ handling' = [handling EXCEPT ![h] = Free]
      /\ UNCHANGED <<notices, announced, stamp, gifts, single, failed, overlapped>>
  BY DEF Subs!SubscriberCreated, Subs!At, Busy
<1>2. c \in Subs!Handled /\ subscribers \in Seq(Subs!Subscriber) /\ gifts \in Seq(Subs!Gift)
  BY <1>1, SubscriptionsAssumption DEF SubInv, Subs!TypeOK, Busy
<1>3. /\ c.gift # 0 <=> c.kind \in Subs!Gifted
      /\ c.gift \in 0..Len(gifts) /\ c.createdAt <= stamp /\ c.createdAt \in Nat
  <2>1. c.gift \in Nat /\ c.createdAt \in Nat
    BY <1>2 DEF Subs!Handled
  <2>2. c.gift <= Len(gifts) /\ c.createdAt <= stamp
    BY <1>1 DEF SubInv, Subs!TypeOK, Busy
  <2>3. c.gift # 0 <=> c.kind \in Subs!Gifted
    BY <1>1 DEF SubInv, GiftsOnTheWay
  <2>4. Len(gifts) \in Nat
    BY <1>2
  <2> QED
    BY <2>1, <2>2, <2>3, <2>4
<1>4. s.gift = c.gift /\ s.createdAt = c.createdAt /\ s.of = c.of /\ s.type = Subs!TypeOf(c)
  BY DEF Subs!GiftOf
<1>5. s.type \in Subs!Gifted <=> c.kind \in Subs!Gifted
  BY <1>2, <1>4 DEF Subs!TypeOf, Subs!Gifted
<1>6. s \in Subs!Subscriber
  <2>1. c.kind \in Subs!Kinds /\ c.prime \in BOOLEAN /\ c.gift \in Nat /\ c.of \in Nat
    BY <1>2 DEF Subs!Handled
  <2>2. Subs!TypeOf(c) \in Subs!Kinds \ {"Extend"}
    BY <2>1 DEF Subs!TypeOf, Subs!Kinds
  <2>3. Subs!IsPrime(c) \in BOOLEAN
    <3>1. CASE c.kind = "Extend"
      BY <3>1 DEF Subs!IsPrime, Subs!Gifted
    <3>2. CASE c.kind \in Subs!Gifted
      BY <3>2 DEF Subs!IsPrime, Subs!Gifted
    <3>3. CASE c.kind # "Extend" /\ c.kind \notin Subs!Gifted
      BY <2>1, <3>3 DEF Subs!IsPrime
    <3> QED
      BY <3>1, <3>2, <3>3
  <2> HIDE DEF c
  <2> QED
    BY <1>3, <2>1, <2>2, <2>3 DEF Subs!Subscriber, Subs!GiftOf
<1> HIDE DEF c, s
<1>7. /\ subscribers' \in Seq(Subs!Subscriber) /\ n \in Nat /\ n \notin DOMAIN subscribers
      /\ DOMAIN subscribers' = DOMAIN subscribers \cup {n} /\ subscribers'[n] = s
      /\ \A i \in DOMAIN subscribers : subscribers'[i] = subscribers[i]
  BY <1>1, <1>2, <1>6
<1>8. /\ handling' \in [Handlers -> Subs!Handled \cup {Free}]
      /\ Busy' = Busy \ {h} /\ handling'[h] = Free
      /\ \A j \in Handlers \ {h} : handling'[j] = handling[j]
      /\ IsFiniteSet(Saying') /\ Cardinality(Saying') \in Nat /\ Cardinality(Saying) \in Nat
      /\ Cardinality(Saying') <= Cardinality(Saying)
  BY <1>1, Freed
<1>9. StampsCounted'
  BY <1>1, <1>8 DEF SubInv, StampsCounted
<1>10. Subs!TypeOK'
  <2>1. \A j \in Handlers : handling'[j] # Free =>
            /\ handling'[j].gift <= Len(gifts) /\ handling'[j].createdAt <= stamp
            /\ handling'[j].of \in 1..notices
    BY <1>8 DEF SubInv, Subs!TypeOK
  <2>2. failed' \in BOOLEAN /\ overlapped' \in BOOLEAN
    BY <1>1 DEF SubInv, Subs!TypeOK
  <2> QED
    BY <1>1, <1>7, <1>8, <2>1, <2>2 DEF SubInv, Subs!TypeOK
<1>11. GiftsOnTheWay'
  BY <1>8 DEF SubInv, GiftsOnTheWay, Busy
<1>12. GiftsOwned'
  <2>1. \A j \in Busy' : j \in Busy /\ j # h /\ handling'[j] = handling[j]
    BY <1>8 DEF Busy
  <2>2. \A j \in Busy' : handling[j].gift # 0 => c.gift # handling[j].gift
    BY <1>1, <2>1 DEF SubInv, GiftsOwned, c
  <2> QED
    BY <1>4, <1>7, <1>8, <2>1, <2>2 DEF SubInv, GiftsOwned
<1>13. GiftsHaveTheirGiver'
  <2>1. \A i \in DOMAIN subscribers : c.gift # 0 => subscribers[i].gift # c.gift
    BY <1>1 DEF SubInv, GiftsOwned, c
  <2>2. ASSUME NEW i \in DOMAIN subscribers'
        PROVE  LET t == subscribers'[i]
               IN  /\ t.gift # 0 <=> t.type \in Subs!Gifted
                   /\ t.gift \in 0..Len(gifts)
                   /\ \A j \in DOMAIN subscribers' : t.gift # 0 /\ subscribers'[j].gift = t.gift => i = j
    <3>1. CASE i = n
      BY <1>3, <1>4, <1>5, <1>7, <2>1, <3>1
    <3>2. CASE i # n
      BY <1>4, <1>7, <2>1, <3>2 DEF SubInv, GiftsHaveTheirGiver, Subs!GiftsHaveTheirGiver
    <3> QED
      BY <3>1, <3>2
  <2>3. ASSUME ~failed, NEW m \in DOMAIN gifts
        PROVE  \/ \E i \in DOMAIN subscribers' : subscribers'[i].gift = m
               \/ \E j \in Handlers : handling'[j] # Free /\ handling'[j].gift = m
    <3>1. \/ \E i \in DOMAIN subscribers : subscribers[i].gift = m
          \/ \E j \in Handlers : handling[j] # Free /\ handling[j].gift = m
      BY <2>3 DEF SubInv, GiftsHaveTheirGiver, Subs!GiftsHaveTheirGiver
    <3>2. CASE c.gift = m
      BY <1>4, <1>7, <3>2
    <3>3. CASE c.gift # m
      BY <1>7, <1>8, <3>1, <3>3 DEF c
    <3> QED
      BY <3>2, <3>3
  <2> QED
    BY <1>1, <2>2, <2>3 DEF GiftsHaveTheirGiver, Subs!GiftsHaveTheirGiver
<1>14. InTurn'
  <2>1. \A i \in DOMAIN subscribers' : subscribers'[i].createdAt <= stamp
    BY <1>3, <1>4, <1>7 DEF SubInv, InTurn
  <2>2. ASSUME ~failed, ~overlapped
        PROVE  /\ Busy' = {}
               /\ \A i \in DOMAIN subscribers' :
                      subscribers'[i].createdAt = stamp => subscribers'[i].of = notices
               /\ \E i \in DOMAIN subscribers' : subscribers'[i].createdAt = stamp
    <3>1. /\ Busy = {h} /\ c.of = notices /\ c.createdAt = stamp
          /\ \A i \in DOMAIN subscribers : subscribers[i].createdAt < stamp
      BY <1>1, <2>2 DEF SubInv, InTurn, c
    <3>2. \A i \in DOMAIN subscribers : subscribers[i].createdAt # stamp
      <4> TAKE i \in DOMAIN subscribers
      <4>1. subscribers[i].createdAt < stamp /\ subscribers[i].createdAt \in Nat
        BY <3>1, Stamped
      <4> QED
        BY <4>1 DEF SubInv, StampsCounted
    <3> QED
      BY <1>4, <1>7, <1>8, <3>1, <3>2
  <2> QED
    BY <1>1, <2>1, <2>2 DEF InTurn
<1> QED
  BY <1>9, <1>10, <1>11, <1>12, <1>13, <1>14 DEF SubInv

LEMMA RejectsKeeps == ASSUME SubInv, NEW h \in Handlers, Subs!Rejects(h) PROVE SubInv'
<1>1. /\ h \in Busy /\ handling' = [handling EXCEPT ![h] = Free] /\ failed' = TRUE
      /\ UNCHANGED <<notices, announced, stamp, gifts, subscribers, single, overlapped>>
  BY DEF Subs!Rejects, Subs!tables, Busy
<1>2. /\ handling' \in [Handlers -> Subs!Handled \cup {Free}]
      /\ Busy' = Busy \ {h} /\ handling'[h] = Free
      /\ \A j \in Handlers \ {h} : handling'[j] = handling[j]
      /\ IsFiniteSet(Saying') /\ Cardinality(Saying') \in Nat /\ Cardinality(Saying) \in Nat
      /\ Cardinality(Saying') <= Cardinality(Saying)
  BY <1>1, Freed
<1>3. StampsCounted'
  BY <1>1, <1>2 DEF SubInv, StampsCounted
<1>4. Subs!TypeOK'
  <2>1. \A j \in Handlers : handling'[j] # Free =>
            /\ handling'[j].gift <= Len(gifts) /\ handling'[j].createdAt <= stamp
            /\ handling'[j].of \in 1..notices
    BY <1>2 DEF SubInv, Subs!TypeOK
  <2>2. failed' \in BOOLEAN /\ overlapped' \in BOOLEAN
    BY <1>1 DEF SubInv, Subs!TypeOK
  <2> QED
    BY <1>1, <1>2, <2>1, <2>2 DEF SubInv, Subs!TypeOK
<1>5. GiftsOnTheWay'
  BY <1>2 DEF SubInv, GiftsOnTheWay, Busy
<1>6. GiftsOwned'
  <2>1. \A j \in Busy' : j \in Busy /\ handling'[j] = handling[j]
    BY <1>2 DEF Busy
  <2> QED
    BY <1>1, <2>1 DEF SubInv, GiftsOwned
<1>7. GiftsHaveTheirGiver'
  BY <1>1 DEF SubInv, GiftsHaveTheirGiver, Subs!GiftsHaveTheirGiver
<1>8. InTurn'
  BY <1>1 DEF SubInv, InTurn
<1> QED
  BY <1>3, <1>4, <1>5, <1>6, <1>7, <1>8 DEF SubInv

LEMMA SubStep == SubInv /\ [Subs!Next]_subVars => SubInv'
<1> SUFFICES ASSUME SubInv, [Subs!Next]_subVars PROVE SubInv'
  OBVIOUS
<1>1. CASE Subs!Next
  <2>1. PICK h \in Handlers :
            \/ \E kind \in {"ReSub", "Extend"}, prime \in BOOLEAN : Subs!Subscribed(h, kind, prime)
            \/ Subs!Subscribed(h, "NewSub", FALSE) \/ Subs!Subscribed(h, "PrimeSub", TRUE)
            \/ \E g \in Gifters : \/ Subs!GiftReceived(h, g)
                                 \/ \E n \in 1..MaxGift : Subs!CommunityGift(h, g, n)
            \/ Subs!Thanked(h) \/ Subs!GiftCreated(h) \/ Subs!SubscriberCreated(h) \/ Subs!Rejects(h)
    BY <1>1 DEF Subs!Next
  <2>2. CASE Subs!Subscribed(h, "NewSub", FALSE) \/ Subs!Subscribed(h, "PrimeSub", TRUE)
             \/ \E kind \in {"ReSub", "Extend"}, prime \in BOOLEAN : Subs!Subscribed(h, kind, prime)
    <3>1. \E kind \in {"NewSub", "PrimeSub", "ReSub", "Extend"}, prime \in BOOLEAN :
              Subs!Subscribed(h, kind, prime)
      BY <2>2
    <3> QED
      BY <3>1, NoticesKeep
  <2>3. CASE \E g \in Gifters : \/ Subs!GiftReceived(h, g)
                                \/ \E n \in 1..MaxGift : Subs!CommunityGift(h, g, n)
    BY <2>3, NoticesKeep
  <2> QED
    BY <2>1, <2>2, <2>3, ThankedKeeps, GiftCreatedKeeps, SubscriberCreatedKeeps, RejectsKeeps
<1>2. CASE UNCHANGED subVars
  BY <1>2 DEF subVars, SubInv, Subs!TypeOK, StampsCounted, GiftsOnTheWay, GiftsOwned, InTurn,
     GiftsHaveTheirGiver, Subs!GiftsHaveTheirGiver, Busy, Saying, Subs!At
<1> QED
  BY <1>1, <1>2

\* When the notices came one by one, the newest stamp is the last notice's.
LEMMA LatestIsLast == SubInv => LastSubIsLatest
<1> SUFFICES ASSUME SubInv, \A h \in Handlers : handling[h] = Free, ~failed, ~overlapped,
                    NEW i \in Subs!LastSubscriber
             PROVE  subscribers[i].of = notices
  BY DEF LastSubIsLatest, Subs!LastSubIsLatest
<1>1. Busy = {}
  BY DEF Busy
<1>2. /\ i \in DOMAIN subscribers
      /\ \A j \in DOMAIN subscribers : subscribers[j].createdAt <= subscribers[i].createdAt
  BY DEF Subs!LastSubscriber
<1>3. subscribers # <<>>
  BY <1>2
<1>4. PICK j \in DOMAIN subscribers : subscribers[j].createdAt = stamp
  BY <1>1, <1>3 DEF SubInv, InTurn
<1>5. subscribers[i].createdAt = stamp
  <2>1. subscribers[i].createdAt \in Nat /\ subscribers[i].createdAt <= stamp /\ stamp \in Nat
    BY <1>2, Stamped DEF SubInv, StampsCounted
  <2> QED
    BY <1>2, <1>4, <2>1
<1> QED
  BY <1>1, <1>2, <1>5 DEF SubInv, InTurn

-----------------------------------------------------------------------------
(* The death counter.                                                      *)

Flying == {k \in Calls : death[k] # Idle}

\* A call is of a stream that has begun, and saves the row it found.
CallsKnown ==
    \A k \in Flying :
        /\ death[k].of[1] <= live
        /\ death[k].at = "save" => /\ death[k].row \in DOMAIN counts
                                   /\ counts[death[k].row].of = death[k].of

\* There is a row where a death has been recorded, and nowhere else.
RowsAreDeaths == \A s \in Deaths!Sessions : deaths[s] > 0 <=> Deaths!Matching(s) # {}

\* While no row is late, those of the live stream come after all others.
InOrder ==
    ~late =>
        /\ \A i, j \in DOMAIN counts : i <= j => counts[i].of[1] <= counts[j].of[1]
        /\ \A i \in DOMAIN counts : counts[i].of[1] <= live
        /\ \E n \in 0..Len(counts) : \A i \in DOMAIN counts : counts[i].of[1] < live <=> i <= n

\* Where calls have not raced there is one row and one call at most; the row holds
\* the deaths, and only the call that inserted it can say 'first'.
Unraced ==
    \A s \in Deaths!Sessions \ raced :
        /\ \A k, j \in Flying : death[k].of = s /\ death[j].of = s => k = j
        /\ \A i, j \in Deaths!Matching(s) : i = j
        /\ \A i \in Deaths!Matching(s) : counts[i].count = deaths[s]
        /\ Deaths!Matching(s) = {} => firsts[s] = 0
        /\ \A k \in Flying : death[k].of = s =>
               /\ death[k].at = "insert" => Deaths!Matching(s) = {}
               /\ death[k].at = "save" => death[k].count = deaths[s] + 1
               /\ death[k].at = "reply" => Deaths!Matching(s) # {}
               /\ death[k].at = "reply" /\ death[k].count = 1 => firsts[s] = 0
        /\ firsts[s] <= 1

DeathInv == Deaths!TypeOK /\ CallsKnown /\ RowsAreDeaths /\ InOrder /\ Unraced

LEMMA InitDeathInv == Deaths!Init => DeathInv
<1> SUFFICES ASSUME Deaths!Init PROVE DeathInv
  OBVIOUS
<1> USE DEF Deaths!Init
<1>1. Flying = {} /\ \A s : Deaths!Matching(s) = {}
  BY DEF Flying, Deaths!Matching
<1>2. Deaths!TypeOK
  <2>1. clock \in Deaths!FirstNow..MaxNow /\ cooldown \in {0} \cup Deaths!FirstNow..clock
    BY DeathsAssumption DEF Deaths!FirstNow
  <2>2. live \in Deaths!Streams
    BY DeathsAssumption DEF Deaths!Streams
  <2>3. counts \in Seq([of : Deaths!Sessions, count : Nat \ {0}]) /\ raced \subseteq Deaths!Sessions
    OBVIOUS
  <2>4. death \in [Calls -> Deaths!Call \cup {Idle}] /\ \A k \in Calls : death[k] = Idle
    OBVIOUS
  <2>5. deaths \in [Deaths!Sessions -> Nat] /\ firsts \in [Deaths!Sessions -> Nat]
    OBVIOUS
  <2>6. late \in BOOLEAN
    OBVIOUS
  <2> QED
    BY <2>1, <2>2, <2>3, <2>4, <2>5, <2>6 DEF Deaths!TypeOK
<1>3. InOrder
  BY DEF InOrder
<1>4. CallsKnown /\ RowsAreDeaths /\ Unraced
  BY <1>1 DEF CallsKnown, RowsAreDeaths, Unraced
<1> QED
  BY <1>2, <1>3, <1>4 DEF DeathInv

\* What the type invariant says of a row and of a call.
LEMMA DeathTypes ==
    ASSUME DeathInv
    PROVE  /\ counts \in Seq([of : Deaths!Sessions, count : Nat \ {0}])
           /\ Len(counts) \in Nat /\ DOMAIN counts = 1..Len(counts)
           /\ \A i \in DOMAIN counts : /\ counts[i] \in [of : Deaths!Sessions, count : Nat \ {0}]
                                       /\ counts[i].of \in Deaths!Sessions
                                       /\ counts[i].of[1] \in Nat /\ counts[i].count \in Nat \ {0}
           /\ death \in [Calls -> Deaths!Call \cup {Idle}]
           /\ \A k \in Flying : /\ death[k] \in Deaths!Call /\ death[k].of \in Deaths!Sessions
                                /\ death[k].row \in Nat /\ death[k].count \in Nat \ {0}
                                /\ death[k].of[1] \in Nat
           /\ live \in Nat /\ live \in Deaths!Streams
           /\ clock \in Nat /\ clock >= 1 /\ cooldown \in Nat
           /\ deaths \in [Deaths!Sessions -> Nat] /\ firsts \in [Deaths!Sessions -> Nat]
<1> USE DEF DeathInv, Deaths!TypeOK
<1>1. \A s \in Deaths!Sessions : s[1] \in Nat
  BY DEF Deaths!Sessions, Deaths!Streams
<1>2. counts \in Seq([of : Deaths!Sessions, count : Nat \ {0}])
  OBVIOUS
<1>3. ASSUME NEW i \in DOMAIN counts
      PROVE  /\ counts[i] \in [of : Deaths!Sessions, count : Nat \ {0}]
             /\ counts[i].of \in Deaths!Sessions
             /\ counts[i].of[1] \in Nat /\ counts[i].count \in Nat \ {0}
  <2> DEFINE Row == [of : Deaths!Sessions, count : Nat \ {0}]
  <2>1. counts[i] \in Row
    <3>1. counts \in Seq(Row)
      BY <1>2
    <3> HIDE DEF Row, DeathInv, Deaths!TypeOK
    <3>2. i \in 1..Len(counts)
      BY <1>3, <3>1
    <3> QED
      BY <3>1, <3>2
  <2> QED
    BY <1>1, <2>1
<1>4. ASSUME NEW k \in Flying
      PROVE  /\ death[k] \in Deaths!Call /\ death[k].of \in Deaths!Sessions
             /\ death[k].row \in Nat /\ death[k].count \in Nat \ {0}
             /\ death[k].of[1] \in Nat
  <2>1. death[k] \in Deaths!Call
    BY <1>4 DEF Flying
  <2>2. death[k].of \in Deaths!Sessions /\ death[k].row \in Nat /\ death[k].count \in Nat \ {0}
    BY <2>1 DEF Deaths!Call
  <2> QED
    BY <1>1, <2>1, <2>2
<1>5. live \in Nat /\ live \in Deaths!Streams
  BY DEF Deaths!Streams
<1>6. clock \in Nat /\ clock >= 1 /\ cooldown \in Nat
  BY DEF Deaths!FirstNow
<1> QED
  BY <1>2, <1>3, <1>4, <1>5, <1>6

\* A call moves on, or another begins, in slot k.
LEMMA CallMoves ==
    ASSUME DeathInv, NEW k \in Calls, NEW c \in Deaths!Call, death' = [death EXCEPT ![k] = c],
           c.row <= Len(counts)
    PROVE  /\ death' \in [Calls -> Deaths!Call \cup {Idle}] /\ death'[k] = c
           /\ \A j \in Calls \ {k} : death'[j] = death[j]
           /\ Flying' = Flying \cup {k}
           /\ \A j \in Calls : death'[j] # Idle => death'[j].row <= Len(counts)
<1>1. death \in [Calls -> Deaths!Call \cup {Idle}]
  BY DEF DeathInv, Deaths!TypeOK
<1>2. c # Idle
  BY DeathsAssumption
<1> QED
  BY <1>1, <1>2 DEF Flying, DeathInv, Deaths!TypeOK

\* ... or is done.
LEMMA CallDone ==
    ASSUME DeathInv, NEW k \in Calls, death' = [death EXCEPT ![k] = Idle]
    PROVE  /\ death' \in [Calls -> Deaths!Call \cup {Idle}] /\ death'[k] = Idle
           /\ \A j \in Calls \ {k} : death'[j] = death[j]
           /\ Flying' = Flying \ {k}
           /\ \A j \in Calls : death'[j] # Idle => death'[j].row <= Len(counts)
<1>1. death \in [Calls -> Deaths!Call \cup {Idle}]
  BY DEF DeathInv, Deaths!TypeOK
<1> QED
  BY <1>1 DEF Flying, DeathInv, Deaths!TypeOK

\* Twitch, the clock and the process.
LEMMA WorldKeepsDeaths ==
    ASSUME DeathInv, Deaths!NextStream \/ Deaths!Tick \/ Deaths!Crash PROVE DeathInv'
<1>1. CASE Deaths!NextStream
  <2>1. /\ live < MaxDeathStreams /\ live' = live + 1
        /\ UNCHANGED <<clock, counts, cooldown, death, deaths, raced, late, firsts>>
    BY <1>1 DEF Deaths!NextStream, Deaths!history
  <2>2. Deaths!TypeOK'
    <3>1. live' \in Deaths!Streams
      BY <2>1, DeathsAssumption, DeathTypes DEF Deaths!Streams
    <3> QED
      BY <2>1, <3>1 DEF DeathInv, Deaths!TypeOK
  <2>3. CallsKnown'
    <3>1. \A k \in Flying : death[k].of[1] <= live + 1
      BY DeathTypes DEF DeathInv, CallsKnown
    <3> QED
      BY <2>1, <3>1 DEF DeathInv, CallsKnown, Flying, Deaths!Matching
  <2>4. RowsAreDeaths' /\ Unraced'
    BY <2>1 DEF DeathInv, RowsAreDeaths, Unraced, Flying, Deaths!Matching
  <2>5. InOrder'
    <3>1. ASSUME ~late, NEW i \in DOMAIN counts
          PROVE  counts[i].of[1] <= live + 1 /\ (counts[i].of[1] < live + 1 <=> i <= Len(counts))
      <4>1. counts[i].of[1] <= live /\ counts[i].of[1] \in Nat /\ live \in Nat
        BY <3>1, DeathTypes DEF DeathInv, InOrder
      <4>2. i <= Len(counts)
        BY DeathTypes
      <4> QED
        BY <4>1, <4>2
    <3>2. Len(counts) \in 0..Len(counts)
      BY DeathTypes
    <3> QED
      BY <2>1, <3>1, <3>2 DEF DeathInv, InOrder
  <2> QED
    BY <2>2, <2>3, <2>4, <2>5 DEF DeathInv
<1>2. CASE Deaths!Tick
  <2>1. /\ clock < MaxNow /\ clock' = clock + 1
        /\ UNCHANGED <<live, counts, cooldown, death, deaths, raced, late, firsts>>
    BY <1>2 DEF Deaths!Tick, Deaths!history
  <2>2. clock' \in Deaths!FirstNow..MaxNow /\ cooldown' \in {0} \cup Deaths!FirstNow..clock'
    BY <2>1, DeathsAssumption, DeathTypes DEF DeathInv, Deaths!TypeOK, Deaths!FirstNow
  <2>3. Deaths!TypeOK'
    BY <2>1, <2>2 DEF DeathInv, Deaths!TypeOK
  <2> QED
    BY <2>1, <2>3 DEF DeathInv, CallsKnown, RowsAreDeaths, InOrder, Unraced, Flying, Deaths!Matching
<1>3. CASE Deaths!Crash
  <2>1. /\ death' = [k \in Calls |-> Idle] /\ cooldown' = 0
        /\ UNCHANGED <<clock, live, counts, deaths, raced, late, firsts>>
    BY <1>3 DEF Deaths!Crash, Deaths!history
  <2>2. Flying' = {} /\ \A k \in Calls : death'[k] = Idle
    BY <2>1 DEF Flying
  <2>3. Deaths!TypeOK'
    <3>1. death' \in [Calls -> Deaths!Call \cup {Idle}]
      BY <2>1
    <3> QED
      BY <2>1, <2>2, <3>1 DEF DeathInv, Deaths!TypeOK
  <2>4. RowsAreDeaths' /\ InOrder'
    BY <2>1 DEF DeathInv, RowsAreDeaths, InOrder, Deaths!Matching
  <2>5. CallsKnown' /\ Unraced'
    BY <2>1, <2>2 DEF DeathInv, CallsKnown, Unraced, Deaths!Matching
  <2> QED
    BY <2>3, <2>4, <2>5 DEF DeathInv
<1> QED
  BY <1>1, <1>2, <1>3

LEMMA StreamAnsweredKeeps ==
    ASSUME DeathInv, NEW k \in Calls, NEW g \in Games, Deaths!StreamAnswered(k, g) PROVE DeathInv'
<1> DEFINE s == <<live, g>>
           c == [at |-> "find", of |-> s, row |-> 0, count |-> 1]
<1>1. /\ death[k] = Idle /\ death' = [death EXCEPT ![k] = c]
      /\ raced' = raced \cup {t \in {s} : \E j \in Calls : death[j] # Idle /\ death[j].of = t}
      /\ UNCHANGED <<clock, live, counts, cooldown, deaths, late, firsts>>
  BY DEF Deaths!StreamAnswered
<1>2. s \in Deaths!Sessions /\ s[1] = live
  BY DeathTypes DEF Deaths!Sessions
<1>3. c \in Deaths!Call /\ c.of = s /\ c.at = "find" /\ c.row = 0 /\ c.row <= Len(counts)
  BY <1>2, DeathTypes DEF Deaths!Call
<1> HIDE DEF s, c
<1>4. /\ death' \in [Calls -> Deaths!Call \cup {Idle}] /\ death'[k] = c
      /\ \A j \in Calls \ {k} : death'[j] = death[j]
      /\ Flying' = Flying \cup {k} /\ k \notin Flying
      /\ \A j \in Calls : death'[j] # Idle => death'[j].row <= Len(counts)
  BY <1>1, <1>3, CallMoves DEF Flying
<1>5. /\ raced \subseteq raced' /\ raced' \subseteq Deaths!Sessions
      /\ s \notin raced' => \A j \in Flying : death[j].of # s
  BY <1>1, <1>2 DEF DeathInv, Deaths!TypeOK, Flying
<1>6. Deaths!TypeOK'
  BY <1>1, <1>4, <1>5 DEF DeathInv, Deaths!TypeOK
<1>7. CallsKnown'
  <2>1. live <= live
    BY DeathTypes
  <2> QED
    BY <1>1, <1>2, <1>3, <1>4, <2>1 DEF DeathInv, CallsKnown, Flying, Deaths!Matching
<1>8. RowsAreDeaths' /\ InOrder'
  BY <1>1 DEF DeathInv, RowsAreDeaths, InOrder, Deaths!Matching
<1>9. Unraced'
  BY <1>1, <1>3, <1>4, <1>5 DEF DeathInv, Unraced, Flying, Deaths!Matching
<1> QED
  BY <1>6, <1>7, <1>8, <1>9 DEF DeathInv

LEMMA FoundKeeps == ASSUME DeathInv, NEW k \in Calls, Deaths!Found(k) PROVE DeathInv'
<1> DEFINE s == death[k].of
<1>1. /\ k \in Flying /\ death[k].at = "find"
      /\ UNCHANGED <<clock, live, counts, cooldown, deaths, raced, late, firsts>>
  BY DEF Deaths!Found, Deaths!InFlight, Deaths!history, Flying
<1>2. /\ death[k] \in Deaths!Call /\ s \in Deaths!Sessions /\ death[k].row \in Nat
      /\ death[k].count \in Nat \ {0} /\ death[k].row <= Len(counts)
  BY <1>1, DeathTypes DEF DeathInv, Deaths!TypeOK, Flying
<1>3. PICK c \in Deaths!Call :
          /\ death' = [death EXCEPT ![k] = c] /\ c.of = s /\ c.row <= Len(counts)
          /\ \/ c.at = "insert" /\ Deaths!Matching(s) = {}
             \/ /\ c.at = "save" /\ c.row \in Deaths!Matching(s)
                /\ c.count = counts[c.row].count + 1
  <2>1. CASE /\ Deaths!Matching(s) = {}
             /\ death' = [death EXCEPT ![k].at = "insert"]
    <3> DEFINE c == [death[k] EXCEPT !.at = "insert"]
    <3>1. c \in Deaths!Call /\ c.of = s /\ c.row = death[k].row /\ c.at = "insert"
      BY <1>2 DEF Deaths!Call
    <3>2. death' = [death EXCEPT ![k] = c]
      BY <2>1
    <3> HIDE DEF c
    <3> QED
      BY <1>2, <2>1, <3>1, <3>2
  <2>2. ASSUME NEW i \in Deaths!Matching(s),
               death' = [death EXCEPT ![k].at = "save", ![k].row = i, ![k].count = counts[i].count + 1]
        PROVE  \E c \in Deaths!Call :
                   /\ death' = [death EXCEPT ![k] = c] /\ c.of = s /\ c.row <= Len(counts)
                   /\ c.at = "save" /\ c.row \in Deaths!Matching(s)
                   /\ c.count = counts[c.row].count + 1
    <3> DEFINE m == counts[i].count + 1
               c == [[[death[k] EXCEPT !.at = "save"] EXCEPT !.row = i] EXCEPT !.count = m]
    <3>1. i \in Nat /\ i <= Len(counts) /\ m \in Nat \ {0}
      BY DeathTypes DEF Deaths!Matching
    <3>2. death' = [death EXCEPT ![k] = c]
      BY <2>2, DeathTypes
    <3> HIDE DEF m
    <3>3. c \in Deaths!Call /\ c.of = s /\ c.row = i /\ c.at = "save" /\ c.count = m
      BY <1>2, <3>1 DEF Deaths!Call
    <3> HIDE DEF c
    <3> QED
      BY <3>1, <3>2, <3>3 DEF m
  <2> QED
    BY <2>1, <2>2 DEF Deaths!Found
<1>4. /\ death' \in [Calls -> Deaths!Call \cup {Idle}] /\ death'[k] = c
      /\ \A j \in Calls \ {k} : death'[j] = death[j]
      /\ Flying' = Flying
      /\ \A j \in Calls : death'[j] # Idle => death'[j].row <= Len(counts)
  BY <1>1, <1>3, CallMoves DEF Flying
<1>5. Deaths!TypeOK'
  BY <1>1, <1>4 DEF DeathInv, Deaths!TypeOK
<1>6. CallsKnown'
  BY <1>1, <1>3, <1>4 DEF DeathInv, CallsKnown, Flying, Deaths!Matching
<1>7. RowsAreDeaths' /\ InOrder'
  BY <1>1 DEF DeathInv, RowsAreDeaths, InOrder, Deaths!Matching
<1>8. \A j \in Flying : death'[j].of = death[j].of
  BY <1>3, <1>4 DEF Flying
<1>9. Unraced'
  <2> SUFFICES ASSUME NEW t \in Deaths!Sessions \ raced
               PROVE  /\ \A l, j \in Flying : death[l].of = t /\ death[j].of = t => l = j
                      /\ \A i, j \in Deaths!Matching(t) : i = j
                      /\ \A i \in Deaths!Matching(t) : counts[i].count = deaths[t]
                      /\ Deaths!Matching(t) = {} => firsts[t] = 0
                      /\ \A l \in Flying : death[l].of = t =>
                             /\ death'[l].at = "insert" => Deaths!Matching(t) = {}
                             /\ death'[l].at = "save" => death'[l].count = deaths[t] + 1
                             /\ death'[l].at = "reply" => Deaths!Matching(t) # {}
                             /\ death'[l].at = "reply" /\ death'[l].count = 1 => firsts[t] = 0
                      /\ firsts[t] <= 1
    BY <1>1, <1>4, <1>8 DEF Unraced, Deaths!Matching
  <2>1. ASSUME NEW l \in Flying, death[l].of = t
        PROVE  /\ death'[l].at = "insert" => Deaths!Matching(t) = {}
               /\ death'[l].at = "save" => death'[l].count = deaths[t] + 1
               /\ death'[l].at = "reply" => Deaths!Matching(t) # {}
               /\ death'[l].at = "reply" /\ death'[l].count = 1 => firsts[t] = 0
    <3>1. CASE l = k
      BY <1>3, <1>4, <2>1, <3>1 DEF DeathInv, Unraced
    <3>2. CASE l # k
      BY <1>4, <2>1, <3>2 DEF DeathInv, Unraced, Flying
    <3> QED
      BY <3>1, <3>2
  <2> QED
    BY <2>1 DEF DeathInv, Unraced
<1> QED
  BY <1>5, <1>6, <1>7, <1>9 DEF DeathInv

\* A call that has written replies next.
\* The call k has written its row, and is to reply.
ToReply(k) ==
    /\ death' \in [Calls -> Deaths!Call \cup {Idle}]
    /\ death'[k].of = death[k].of /\ death'[k].count = death[k].count
    /\ death'[k].at = "reply"
    /\ \A j \in Calls \ {k} : death'[j] = death[j]
    /\ Flying' = Flying
    /\ \A j \in Calls : death'[j] # Idle => death'[j].row <= Len(counts')

LEMMA Written ==
    ASSUME DeathInv, NEW k \in Flying, death' = [death EXCEPT ![k].at = "reply"],
           Len(counts') >= Len(counts), Len(counts') \in Nat
    PROVE  ToReply(k)
<1> DEFINE c == [death[k] EXCEPT !.at = "reply"]
<1>1. /\ k \in Calls /\ death[k] \in Deaths!Call /\ death[k].row <= Len(counts)
      /\ Len(counts) \in Nat
  BY DeathTypes DEF DeathInv, Deaths!TypeOK, Flying
<1>2. /\ c \in Deaths!Call /\ c.of = death[k].of /\ c.count = death[k].count /\ c.at = "reply"
      /\ c.row = death[k].row
  BY <1>1 DEF Deaths!Call
<1>3. death' = [death EXCEPT ![k] = c]
  OBVIOUS
<1> HIDE DEF c
<1>4. /\ death' \in [Calls -> Deaths!Call \cup {Idle}] /\ death'[k] = c
      /\ \A j \in Calls \ {k} : death'[j] = death[j]
      /\ Flying' = Flying
      /\ \A j \in Calls : death'[j] # Idle => death'[j].row <= Len(counts)
  BY <1>1, <1>2, <1>3, CallMoves DEF Flying
<1>5. ASSUME NEW j \in Calls, death'[j] # Idle
      PROVE  death'[j].row <= Len(counts')
  <2>1. death'[j] \in Deaths!Call
    BY <1>4, <1>5
  <2>2. death'[j].row \in Nat /\ death'[j].row <= Len(counts)
    BY <1>4, <1>5, <2>1 DEF Deaths!Call
  <2> QED
    BY <1>1, <2>2
<1> QED
  BY <1>2, <1>4, <1>5 DEF ToReply

LEMMA InsertedKeeps == ASSUME DeathInv, NEW k \in Calls, Deaths!Inserted(k) PROVE DeathInv'
<1>0. PICK s : s = death[k].of
  OBVIOUS
<1> DEFINE n == Len(counts) + 1
           row == [of |-> s, count |-> 1]
<1>1. /\ k \in Flying /\ death[k].at = "insert" /\ counts' = Append(counts, row)
      /\ death' = [death EXCEPT ![k].at = "reply"] /\ deaths' = [deaths EXCEPT ![s] = @ + 1]
      /\ late' = (late \/ live # s[1])
      /\ UNCHANGED <<clock, live, cooldown, raced, firsts>>
  BY <1>0 DEF Deaths!Inserted, Deaths!InFlight, Flying
<1>2. s \in Deaths!Sessions /\ s[1] \in Nat /\ s[1] <= live /\ live \in Nat
  BY <1>0, <1>1, DeathTypes DEF DeathInv, CallsKnown
<1>3. row \in [of : Deaths!Sessions, count : Nat \ {0}] /\ row.of = s /\ row.count = 1
  BY <1>2
<1> HIDE DEF row
<1>4. /\ counts' \in Seq([of : Deaths!Sessions, count : Nat \ {0}])
      /\ Len(counts') = n /\ n \in Nat /\ DOMAIN counts' = DOMAIN counts \cup {n}
      /\ n \notin DOMAIN counts /\ counts'[n] = row
      /\ \A i \in DOMAIN counts : counts'[i] = counts[i] /\ i < n /\ i \in Nat
  <2> DEFINE Row == [of : Deaths!Sessions, count : Nat \ {0}]
  <2>1. counts \in Seq(Row) /\ row \in Row
    BY <1>3, DeathTypes
  <2> HIDE DEF Row
  <2>2. counts' \in Seq(Row) /\ Len(counts') = n /\ n \in Nat /\ n \notin DOMAIN counts
    BY <1>1, <2>1
  <2>3. DOMAIN counts' = DOMAIN counts \cup {n} /\ counts'[n] = row
    BY <1>1, <2>1
  <2>4. \A i \in DOMAIN counts : counts'[i] = counts[i] /\ i < n /\ i \in Nat
    BY <1>1, <2>1
  <2> QED
    BY <2>2, <2>3, <2>4 DEF Row
<1>5. /\ Deaths!Matching(s)' = Deaths!Matching(s) \cup {n}
      /\ \A t \in Deaths!Sessions : t # s => Deaths!Matching(t)' = Deaths!Matching(t)
  <2>1. \A t : {i \in DOMAIN counts' : counts'[i].of = t} =
                   Deaths!Matching(t) \cup {i \in {n} : s = t}
    BY <1>3, <1>4 DEF Deaths!Matching
  <2>2. {i \in DOMAIN counts' : counts'[i].of = s} = Deaths!Matching(s) \cup {n}
    BY <2>1
  <2> QED
    BY <2>1, <2>2 DEF Deaths!Matching
<1>6. /\ death' \in [Calls -> Deaths!Call \cup {Idle}]
      /\ death'[k].of = s /\ death'[k].count = death[k].count /\ death'[k].at = "reply"
      /\ \A j \in Calls \ {k} : death'[j] = death[j]
      /\ Flying' = Flying
      /\ \A j \in Calls : death'[j] # Idle => death'[j].row <= Len(counts')
  <2>1. Len(counts') >= Len(counts) /\ Len(counts') \in Nat
    BY <1>4, DeathTypes
  <2>2. ToReply(k)
    BY <1>1, <2>1, Written
  <2> QED
    BY <1>0, <2>2 DEF ToReply
<1>7. /\ deaths' \in [Deaths!Sessions -> Nat] /\ deaths'[s] = deaths[s] + 1
      /\ \A t \in Deaths!Sessions : t # s => deaths'[t] = deaths[t]
      /\ deaths[s] \in Nat
  BY <1>1, <1>2, DeathTypes
<1>8. Deaths!TypeOK'
  <2>1. late' \in BOOLEAN
    BY <1>1 DEF DeathInv, Deaths!TypeOK
  <2> QED
    BY <1>1, <1>4, <1>6, <1>7, <2>1 DEF DeathInv, Deaths!TypeOK
<1>9. CallsKnown'
  <2> SUFFICES ASSUME NEW j \in Flying
               PROVE  /\ death'[j].of[1] <= live
                      /\ death'[j].at = "save" => /\ death'[j].row \in DOMAIN counts'
                                                  /\ counts'[death'[j].row].of = death'[j].of
    BY <1>1, <1>6 DEF CallsKnown
  <2>1. CASE j = k
    BY <1>2, <1>6, <2>1
  <2>2. CASE j # k
    <3>1. /\ death'[j] = death[j] /\ death[j].of \in Deaths!Sessions /\ death[j].of[1] <= live
          /\ death[j].at = "save" => /\ death[j].row \in DOMAIN counts
                                     /\ counts[death[j].row].of = death[j].of
      BY <1>6, <2>2, DeathTypes DEF DeathInv, CallsKnown, Flying
    <3> QED
      BY <1>4, <3>1
  <2> QED
    BY <2>1, <2>2
<1>10. RowsAreDeaths'
  <2>1. ASSUME NEW t \in Deaths!Sessions
        PROVE  deaths'[t] > 0 <=> Deaths!Matching(t)' # {}
    <3>1. CASE t = s
      <4>1. deaths'[s] > 0
        BY <1>7
      <4>2. n \in Deaths!Matching(s)'
        BY <1>5
      <4> QED
        BY <3>1, <4>1, <4>2
    <3>2. CASE t # s
      <4>1. deaths[t] > 0 <=> Deaths!Matching(t) # {}
        BY DEF DeathInv, RowsAreDeaths
      <4> QED
        BY <1>5, <1>7, <3>2, <4>1
    <3> QED
      BY <3>1, <3>2
  <2> QED
    BY <2>1 DEF RowsAreDeaths
<1>11. InOrder'
  <2> SUFFICES ASSUME ~late, live = s[1]
               PROVE  /\ \A i, j \in DOMAIN counts' : i <= j => counts'[i].of[1] <= counts'[j].of[1]
                      /\ \A i \in DOMAIN counts' : counts'[i].of[1] <= live
                      /\ \E m \in 0..n : \A i \in DOMAIN counts' : counts'[i].of[1] < live <=> i <= m
    BY <1>1, <1>4 DEF InOrder
  <2>1. /\ \A i, j \in DOMAIN counts : i <= j => counts[i].of[1] <= counts[j].of[1]
        /\ \A i \in DOMAIN counts : counts[i].of[1] <= live
    BY DEF DeathInv, InOrder
  <2>2. PICK m \in 0..Len(counts) : \A i \in DOMAIN counts : counts[i].of[1] < live <=> i <= m
    BY DEF DeathInv, InOrder
  <2>3. counts'[n].of[1] = live
    BY <1>3, <1>4
  <2>4. m \in 0..n /\ ~(n <= m) /\ ~(live < live) /\ live <= live
    BY <1>2, DeathTypes
  <2>5. \A i \in DOMAIN counts' : counts'[i].of[1] <= live
    BY <1>4, <2>1, <2>3, <2>4
  <2>6. \A i, j \in DOMAIN counts' : i <= j => counts'[i].of[1] <= counts'[j].of[1]
    <3> SUFFICES ASSUME NEW i \in DOMAIN counts', NEW j \in DOMAIN counts', i <= j
                 PROVE  counts'[i].of[1] <= counts'[j].of[1]
      OBVIOUS
    <3>1. CASE j = n
      BY <2>3, <2>5, <3>1
    <3>2. CASE j # n
      <4>1. j \in DOMAIN counts /\ i # n
        BY <1>4, <3>2
      <4> QED
        BY <1>4, <2>1, <4>1
    <3> QED
      BY <3>1, <3>2
  <2>7. \A i \in DOMAIN counts' : counts'[i].of[1] < live <=> i <= m
    BY <1>4, <2>2, <2>3, <2>4
  <2> QED
    BY <2>4, <2>5, <2>6, <2>7
<1>12. Unraced'
  <2> SUFFICES ASSUME NEW t \in Deaths!Sessions \ raced
               PROVE  /\ \A l, j \in Flying : death'[l].of = t /\ death'[j].of = t => l = j
                      /\ \A i, j \in Deaths!Matching(t)' : i = j
                      /\ \A i \in Deaths!Matching(t)' : counts'[i].count = deaths'[t]
                      /\ Deaths!Matching(t)' = {} => firsts[t] = 0
                      /\ \A l \in Flying : death'[l].of = t =>
                             /\ death'[l].at = "insert" => Deaths!Matching(t)' = {}
                             /\ death'[l].at = "save" => death'[l].count = deaths'[t] + 1
                             /\ death'[l].at = "reply" => Deaths!Matching(t)' # {}
                             /\ death'[l].at = "reply" /\ death'[l].count = 1 => firsts[t] = 0
                      /\ firsts[t] <= 1
    BY <1>1, <1>6 DEF Unraced, Deaths!Matching
  <2>1. \A j \in Flying : death'[j].of = death[j].of
    BY <1>0, <1>6 DEF Flying
  <2>2. CASE t = s
    <3>1. /\ Deaths!Matching(s) = {} /\ firsts[s] = 0 /\ \A j \in Flying : death[j].of = s => j = k
      BY <1>0, <1>1, <2>2 DEF DeathInv, Unraced
    <3>2. deaths[s] = 0
      BY <1>2, <1>7, <3>1 DEF DeathInv, RowsAreDeaths
    <3>3. Deaths!Matching(s)' = {n} /\ counts'[n].count = deaths'[s]
      BY <1>3, <1>4, <1>5, <1>7, <3>1, <3>2
    <3> QED
      BY <1>6, <2>1, <2>2, <3>1, <3>3
  <2>3. CASE t # s
    <3>1. \A j \in Flying : death[j].of = t => death'[j] = death[j]
      BY <1>0, <1>6, <2>3 DEF Flying
    <3>2. Deaths!Matching(t)' = Deaths!Matching(t) /\ deaths'[t] = deaths[t]
      BY <1>5, <1>7, <2>3
    <3>3. \A i \in Deaths!Matching(t) : counts'[i] = counts[i]
      BY <1>4 DEF Deaths!Matching
    <3> QED
      BY <2>1, <3>1, <3>2, <3>3 DEF DeathInv, Unraced
  <2> QED
    BY <2>2, <2>3
<1> QED
  BY <1>8, <1>9, <1>10, <1>11, <1>12 DEF DeathInv

LEMMA SavedKeeps == ASSUME DeathInv, NEW k \in Calls, Deaths!Saved(k) PROVE DeathInv'
<1>0. PICK s, r, m : s = death[k].of /\ r = death[k].row /\ m = death[k].count
  OBVIOUS
<1>1. /\ k \in Flying /\ death[k].at = "save" /\ counts' = [counts EXCEPT ![r].count = m]
      /\ death' = [death EXCEPT ![k].at = "reply"] /\ deaths' = [deaths EXCEPT ![s] = @ + 1]
      /\ UNCHANGED <<clock, live, cooldown, raced, late, firsts>>
  BY <1>0 DEF Deaths!Saved, Deaths!InFlight, Flying
<1>2. /\ s \in Deaths!Sessions /\ r \in DOMAIN counts /\ counts[r].of = s /\ m \in Nat \ {0}
  BY <1>0, <1>1, DeathTypes DEF DeathInv, CallsKnown
<1>3. /\ counts' \in Seq([of : Deaths!Sessions, count : Nat \ {0}])
      /\ Len(counts') = Len(counts) /\ Len(counts) \in Nat /\ DOMAIN counts' = DOMAIN counts
      /\ counts'[r].count = m
      /\ \A i \in DOMAIN counts : /\ counts'[i].of = counts[i].of
                                  /\ i # r => counts'[i] = counts[i]
  <2> DEFINE Row == [of : Deaths!Sessions, count : Nat \ {0}]
             row == [counts[r] EXCEPT !.count = m]
  <2>1. counts \in Seq(Row) /\ Len(counts) \in Nat /\ DOMAIN counts = 1..Len(counts)
    BY DeathTypes
  <2>2. row \in Row /\ row.of = counts[r].of /\ row.count = m
    BY <1>2, DeathTypes
  <2>3. counts' = [counts EXCEPT ![r] = row]
    BY <1>1
  <2> HIDE DEF Row, row
  <2>4. /\ counts' \in Seq(Row) /\ Len(counts') = Len(counts) /\ DOMAIN counts' = DOMAIN counts
        /\ counts'[r] = row /\ \A i \in DOMAIN counts : i # r => counts'[i] = counts[i]
    BY <1>2, <2>1, <2>2, <2>3
  <2>5. \A i \in DOMAIN counts : counts'[i].of = counts[i].of
    BY <2>2, <2>4
  <2> QED
    BY <2>1, <2>2, <2>4, <2>5 DEF Row
<1>4. \A t : Deaths!Matching(t)' = Deaths!Matching(t)
  BY <1>3 DEF Deaths!Matching
<1>5. /\ death' \in [Calls -> Deaths!Call \cup {Idle}]
      /\ death'[k].of = s /\ death'[k].count = m /\ death'[k].at = "reply"
      /\ \A j \in Calls \ {k} : death'[j] = death[j]
      /\ Flying' = Flying
      /\ \A j \in Calls : death'[j] # Idle => death'[j].row <= Len(counts')
  <2>1. Len(counts') >= Len(counts) /\ Len(counts') \in Nat
    BY <1>3
  <2>2. ToReply(k)
    BY <1>1, <2>1, Written
  <2> QED
    BY <1>0, <2>2 DEF ToReply
<1>6. /\ deaths' \in [Deaths!Sessions -> Nat] /\ deaths'[s] = deaths[s] + 1
      /\ \A t \in Deaths!Sessions : t # s => deaths'[t] = deaths[t]
      /\ deaths[s] \in Nat
  <2>1. deaths \in [Deaths!Sessions -> Nat]
    BY DeathTypes
  <2>2. deaths' = [deaths EXCEPT ![s] = deaths[s] + 1]
    BY <1>1
  <2> QED
    BY <1>2, <2>1, <2>2
<1>7. Deaths!TypeOK'
  BY <1>1, <1>3, <1>5, <1>6 DEF DeathInv, Deaths!TypeOK
<1>8. CallsKnown'
  <2> SUFFICES ASSUME NEW j \in Flying
               PROVE  /\ death'[j].of[1] <= live
                      /\ death'[j].at = "save" => /\ death'[j].row \in DOMAIN counts'
                                                  /\ counts'[death'[j].row].of = death'[j].of
    BY <1>1, <1>5 DEF CallsKnown
  <2>1. /\ death[j].of[1] <= live
        /\ death[j].at = "save" => /\ death[j].row \in DOMAIN counts
                                   /\ counts[death[j].row].of = death[j].of
    BY DEF DeathInv, CallsKnown
  <2>2. CASE j = k
    BY <1>0, <1>5, <2>1, <2>2
  <2>3. CASE j # k
    BY <1>3, <1>5, <2>1, <2>3 DEF Flying
  <2> QED
    BY <2>2, <2>3
<1>9. RowsAreDeaths'
  <2>1. Deaths!Matching(s) # {}
    BY <1>2 DEF Deaths!Matching
  <2> QED
    BY <1>4, <1>6, <2>1 DEF DeathInv, RowsAreDeaths
<1>10. InOrder'
  BY <1>1, <1>3 DEF DeathInv, InOrder
<1>11. Unraced'
  <2> SUFFICES ASSUME NEW t \in Deaths!Sessions \ raced
               PROVE  /\ \A l, j \in Flying : death'[l].of = t /\ death'[j].of = t => l = j
                      /\ \A i, j \in Deaths!Matching(t) : i = j
                      /\ \A i \in Deaths!Matching(t) : counts'[i].count = deaths'[t]
                      /\ Deaths!Matching(t) = {} => firsts[t] = 0
                      /\ \A l \in Flying : death'[l].of = t =>
                             /\ death'[l].at = "insert" => Deaths!Matching(t) = {}
                             /\ death'[l].at = "save" => death'[l].count = deaths'[t] + 1
                             /\ death'[l].at = "reply" => Deaths!Matching(t) # {}
                             /\ death'[l].at = "reply" /\ death'[l].count = 1 => firsts[t] = 0
                      /\ firsts[t] <= 1
    BY <1>1, <1>4, <1>5 DEF Unraced
  <2>1. \A j \in Flying : death'[j].of = death[j].of
    BY <1>0, <1>5 DEF Flying
  <2>2. CASE t = s
    <3>1. /\ \A j \in Flying : death[j].of = s => j = k
          /\ m = deaths[s] + 1 /\ \A i \in Deaths!Matching(s) : i = r
          /\ r \in Deaths!Matching(s)
      BY <1>0, <1>1, <1>2, <2>2 DEF DeathInv, Unraced, Deaths!Matching
    <3>2. m # 1
      BY <1>2, <1>6, <3>1 DEF DeathInv, RowsAreDeaths
    <3>3. \A i \in Deaths!Matching(s) : counts'[i].count = deaths'[s]
      BY <1>3, <1>6, <3>1
    <3>4. Deaths!Matching(s) # {} /\ firsts[s] <= 1
      BY <2>2, <3>1 DEF DeathInv, Unraced
    <3> QED
      BY <1>5, <2>1, <2>2, <3>1, <3>2, <3>3, <3>4
  <2>3. CASE t # s
    <3>1. \A j \in Flying : death[j].of = t => death'[j] = death[j]
      BY <1>0, <1>5, <2>3 DEF Flying
    <3>2. deaths'[t] = deaths[t]
      BY <1>6, <2>3
    <3>3. \A i \in Deaths!Matching(t) : counts'[i] = counts[i]
      BY <1>2, <1>3, <2>3 DEF Deaths!Matching
    <3> QED
      BY <2>1, <3>1, <3>2, <3>3 DEF DeathInv, Unraced
  <2> QED
    BY <2>2, <2>3
<1> QED
  BY <1>7, <1>8, <1>9, <1>10, <1>11 DEF DeathInv

LEMMA QueryFailsKeeps == ASSUME DeathInv, NEW k \in Calls, Deaths!QueryFails(k) PROVE DeathInv'
<1>1. /\ death' = [death EXCEPT ![k] = Idle]
      /\ UNCHANGED <<clock, live, counts, cooldown, deaths, raced, late, firsts>>
  BY DEF Deaths!QueryFails, Deaths!history
<1>2. /\ death' \in [Calls -> Deaths!Call \cup {Idle}] /\ death'[k] = Idle
      /\ \A j \in Calls \ {k} : death'[j] = death[j]
      /\ Flying' = Flying \ {k}
      /\ \A j \in Calls : death'[j] # Idle => death'[j].row <= Len(counts)
  BY <1>1, CallDone
<1>3. \A j \in Flying' : j \in Flying /\ death'[j] = death[j]
  BY <1>2 DEF Flying
<1>4. Deaths!TypeOK'
  BY <1>1, <1>2 DEF DeathInv, Deaths!TypeOK
<1>5. CallsKnown' /\ RowsAreDeaths' /\ InOrder'
  BY <1>1, <1>3 DEF DeathInv, CallsKnown, RowsAreDeaths, InOrder, Deaths!Matching
<1>6. Unraced'
  BY <1>1, <1>3 DEF DeathInv, Unraced, Deaths!Matching
<1> QED
  BY <1>4, <1>5, <1>6 DEF DeathInv

LEMMA RepliedKeeps == ASSUME DeathInv, NEW k \in Calls, Deaths!Replied(k) PROVE DeathInv'
<1>0. PICK s : s = death[k].of
  OBVIOUS
<1>1. /\ k \in Flying /\ death[k].at = "reply" /\ death' = [death EXCEPT ![k] = Idle]
      /\ cooldown' \in {clock, cooldown}
      /\ \/ firsts' = firsts
         \/ death[k].count = 1 /\ firsts' = [firsts EXCEPT ![s] = @ + 1]
      /\ UNCHANGED <<clock, live, counts, deaths, raced, late>>
  BY <1>0 DEF Deaths!Replied, Deaths!InFlight, Deaths!SaysFirst, Flying
<1>2. s \in Deaths!Sessions
  BY <1>0, <1>1, DeathTypes
<1>3. /\ death' \in [Calls -> Deaths!Call \cup {Idle}] /\ death'[k] = Idle
      /\ \A j \in Calls \ {k} : death'[j] = death[j]
      /\ Flying' = Flying \ {k}
      /\ \A j \in Calls : death'[j] # Idle => death'[j].row <= Len(counts)
  BY <1>1, CallDone
<1>4. \A j \in Flying' : j \in Flying /\ j # k /\ death'[j] = death[j]
  BY <1>3 DEF Flying
<1>5. /\ firsts' \in [Deaths!Sessions -> Nat]
      /\ \A t \in Deaths!Sessions : t # s => firsts'[t] = firsts[t]
      /\ firsts'[s] = firsts[s] \/ (death[k].count = 1 /\ firsts'[s] = firsts[s] + 1)
  <2>1. firsts \in [Deaths!Sessions -> Nat]
    BY DeathTypes
  <2>2. CASE firsts' = firsts
    BY <2>1, <2>2
  <2>3. CASE death[k].count = 1 /\ firsts' = [firsts EXCEPT ![s] = @ + 1]
    <3>1. /\ firsts' \in [Deaths!Sessions -> Nat] /\ firsts'[s] = firsts[s] + 1
          /\ \A t \in Deaths!Sessions : t # s => firsts'[t] = firsts[t]
      BY <1>2, <2>1, <2>3
    <3> QED
      BY <2>3, <3>1
  <2> QED
    BY <1>1, <2>2, <2>3
<1>6. Deaths!TypeOK'
  <2>1. cooldown' \in {0} \cup Deaths!FirstNow..clock
    BY <1>1, DeathTypes DEF DeathInv, Deaths!TypeOK, Deaths!FirstNow
  <2> QED
    BY <1>1, <1>3, <1>5, <2>1 DEF DeathInv, Deaths!TypeOK
<1>7. CallsKnown' /\ RowsAreDeaths' /\ InOrder'
  BY <1>1, <1>4 DEF DeathInv, CallsKnown, RowsAreDeaths, InOrder, Deaths!Matching
<1>8. Unraced'
  <2> SUFFICES ASSUME NEW t \in Deaths!Sessions \ raced
               PROVE  /\ \A l, j \in Flying' : death[l].of = t /\ death[j].of = t => l = j
                      /\ \A i, j \in Deaths!Matching(t) : i = j
                      /\ \A i \in Deaths!Matching(t) : counts[i].count = deaths[t]
                      /\ Deaths!Matching(t) = {} => firsts'[t] = 0
                      /\ \A l \in Flying' : death[l].of = t =>
                             /\ death[l].at = "insert" => Deaths!Matching(t) = {}
                             /\ death[l].at = "save" => death[l].count = deaths[t] + 1
                             /\ death[l].at = "reply" => Deaths!Matching(t) # {}
                             /\ death[l].at = "reply" /\ death[l].count = 1 => firsts'[t] = 0
                      /\ firsts'[t] <= 1
    BY <1>1, <1>4 DEF Unraced, Deaths!Matching
  <2>1. CASE t = s
    <3>1. /\ \A l \in Flying' : death[l].of # s
          /\ Deaths!Matching(s) # {} /\ firsts[s] <= 1
          /\ death[k].count = 1 => firsts[s] = 0
      BY <1>0, <1>1, <1>4, <2>1 DEF DeathInv, Unraced
    <3>2. firsts'[s] <= 1
      BY <1>5, <3>1
    <3> QED
      BY <2>1, <3>1, <3>2 DEF DeathInv, Unraced
  <2>2. CASE t # s
    BY <1>4, <1>5, <2>2 DEF DeathInv, Unraced
  <2> QED
    BY <2>1, <2>2
<1> QED
  BY <1>6, <1>7, <1>8 DEF DeathInv

LEMMA DeathStep == DeathInv /\ [Deaths!Next]_deathVars => DeathInv'
<1> SUFFICES ASSUME DeathInv, [Deaths!Next]_deathVars PROVE DeathInv'
  OBVIOUS
<1>1. CASE Deaths!Next
  BY <1>1, WorldKeepsDeaths, StreamAnsweredKeeps, FoundKeeps, InsertedKeeps, SavedKeeps,
     QueryFailsKeeps, RepliedKeeps DEF Deaths!Next
<1>2. CASE UNCHANGED deathVars
  <2> USE <1>2 DEF deathVars, DeathInv
  <2>1. Deaths!TypeOK'
    BY DEF Deaths!TypeOK
  <2>2. CallsKnown' /\ RowsAreDeaths'
    BY DEF CallsKnown, RowsAreDeaths, Flying, Deaths!Matching
  <2>3. InOrder'
    BY DEF InOrder
  <2>4. Unraced'
    BY DEF Unraced, Flying, Deaths!Matching
  <2> QED
    BY <2>1, <2>2, <2>3, <2>4
<1> QED
  BY <1>1, <1>2

\* In order, the last row but those of the live stream is of the latest stream.
LEMMA OrderTells == DeathInv => LastStreamIsPrevious
<1> DEFINE others == {i \in DOMAIN counts : counts[i].of[1] # live}
           died == {s \in Deaths!Streams : s # live /\ \E g \in Games : deaths[<<s, g>>] > 0}
           last == {i \in others : \A j \in others : j <= i}
<1> SUFFICES ASSUME DeathInv, ~late
             PROVE  {counts[i].of[1] : i \in last} = {s \in died : \A t \in died : t <= s}
  BY DEF LastStreamIsPrevious, Deaths!LastStreamIsPrevious, Deaths!LastStream
<1>1. \A i \in others : counts[i].of[1] \in died
  <2> TAKE i \in others
  <2>1. counts[i].of \in Deaths!Sessions /\ i \in Deaths!Matching(counts[i].of)
    BY DeathTypes DEF Deaths!Matching
  <2>2. PICK s \in Deaths!Streams, g \in Games : counts[i].of = <<s, g>>
    BY <2>1 DEF Deaths!Sessions
  <2>3. deaths[<<s, g>>] > 0
    BY <2>1, <2>2 DEF DeathInv, RowsAreDeaths
  <2> QED
    BY <2>2, <2>3
<1>2. \A s \in died : \E i \in others : counts[i].of[1] = s
  <2> TAKE s \in died
  <2>1. PICK g \in Games : deaths[<<s, g>>] > 0
    OBVIOUS
  <2>2. <<s, g>> \in Deaths!Sessions
    BY DEF Deaths!Sessions
  <2>3. PICK i \in Deaths!Matching(<<s, g>>) : TRUE
    BY <2>1, <2>2 DEF DeathInv, RowsAreDeaths
  <2> QED
    BY <2>3 DEF Deaths!Matching
<1>3. PICK n \in 0..Len(counts) : \A i \in DOMAIN counts : counts[i].of[1] < live <=> i <= n
  BY DEF DeathInv, InOrder
<1>4. /\ \A i, j \in DOMAIN counts : i <= j => counts[i].of[1] <= counts[j].of[1]
      /\ \A i \in DOMAIN counts : counts[i].of[1] <= live
  BY DEF DeathInv, InOrder
<1>5. \A i \in DOMAIN counts : i \in others <=> i <= n
  <2> TAKE i \in DOMAIN counts
  <2>1. counts[i].of[1] <= live /\ counts[i].of[1] \in Nat /\ live \in Nat
    BY <1>4, DeathTypes
  <2> QED
    BY <1>3, <2>1
<1>6. \A i \in last, t \in died : t <= counts[i].of[1]
  <2> TAKE i \in last, t \in died
  <2>1. PICK j \in others : counts[j].of[1] = t
    BY <1>2
  <2>2. i \in DOMAIN counts /\ j \in DOMAIN counts /\ j <= i
    OBVIOUS
  <2> QED
    BY ONLY <1>4, <2>1, <2>2
<1>7. ASSUME NEW s \in died, \A t \in died : t <= s
      PROVE  \E i \in last : counts[i].of[1] = s
  <2>1. PICK j \in others : counts[j].of[1] = s
    BY <1>2
  <2>2. j \in 1..Len(counts) /\ j <= n
    BY <1>5, DeathTypes
  <2>3. n \in DOMAIN counts /\ n \in others
    <3>1. n \in 1..Len(counts) /\ n <= n
      BY <1>3, <2>2, DeathTypes
    <3>2. n \in DOMAIN counts
      BY <3>1, DeathTypes
    <3> QED
      BY <1>5, <3>1, <3>2
  <2>4. n \in last
    BY <1>5, <2>3
  <2>5. counts[n].of[1] <= s /\ s <= counts[n].of[1]
    BY <1>1, <1>4, <1>7, <2>1, <2>2, <2>3
  <2>6. counts[n].of[1] = s
    <3>1. counts[n].of[1] \in Nat /\ counts[j].of[1] \in Nat
      BY <2>1, <2>3, DeathTypes
    <3> QED
      BY <2>1, <2>5, <3>1
  <2> QED
    BY <2>4, <2>6
<1> QED
  <2>1. \A i \in last : counts[i].of[1] \in died
    BY <1>1
  <2> HIDE DEF last, died, others
  <2>2. \A i \in last : counts[i].of[1] \in {s \in died : \A t \in died : t <= s}
    BY <1>6, <2>1
  <2>3. \A s \in died : (\A t \in died : t <= s) => s \in {counts[i].of[1] : i \in last}
    BY <1>7
  <2> QED
    BY <2>2, <2>3

-----------------------------------------------------------------------------
(* Sums over finite sets.                                                  *)
(*                                                                         *)
(* MapThenSumSet takes the elements in the order of CHOOSE.  That a sum is *)
(* independent of it is shown by the least set for which it would not be.  *)

\* it has the sums of f over all subsets of S.
IsSum(it, f, S) ==
    /\ it = [s \in SUBSET S |-> it[s]]
    /\ it[{}] = 0
    /\ \A s \in SUBSET S : s # {} =>
           it[s] = f[CHOOSE x \in s : TRUE] + it[s \ {CHOOSE x \in s : TRUE}]

Total(f, S) == (CHOOSE it : IsSum(it, f, S))[S]

\* Of the finite sets in a set of sets one has no proper subset there.
LEMMA LeastSet ==
    ASSUME NEW T, \A U \in T : IsFiniteSet(U), T # {}
    PROVE  \E U \in T : \A V \in T : V \subseteq U => V = U
<1> DEFINE S == UNION T
<1>1. T \subseteq FiniteSubsetsOf(S)
  BY DEF FiniteSubsetsOf
<1> HIDE DEF S
<1>2. PICK U \in T : \A V \in T : ~(<<V, U>> \in StrictSubsetOrdering(S))
  BY <1>1, FS_StrictSubsetOrderingWellFounded, WFMin
<1>3. ASSUME NEW V \in T, V \subseteq U, V # U PROVE FALSE
  <2>1. V \in SUBSET S /\ U \in SUBSET S
    BY <1>1, <1>2 DEF FiniteSubsetsOf
  <2>2. <<V, U>> \in StrictSubsetOrdering(S)
    BY <1>3, <2>1 DEF StrictSubsetOrdering
  <2> QED
    BY <1>2, <2>2
<1> QED
  BY <1>3

\* Two functions of sums agree where both are defined.
LEMMA SumsAgree ==
    ASSUME NEW f, NEW S, NEW T, NEW it, NEW jt, IsSum(it, f, S), IsSum(jt, f, T),
           NEW U, U \subseteq S, U \subseteq T, IsFiniteSet(U)
    PROVE  it[U] = jt[U]
<1> DEFINE Bad == {V \in SUBSET U : it[V] # jt[V]}
<1> SUFFICES ASSUME Bad # {} PROVE FALSE
  OBVIOUS
<1>1. \A V \in Bad : IsFiniteSet(V)
  BY FS_Subset
<1>2. PICK V \in Bad : \A W \in Bad : W \subseteq V => W = V
  <2>1. Bad # {}
    OBVIOUS
  <2> HIDE DEF Bad
  <2> QED
    BY ONLY <1>1, <2>1, LeastSet
<1>3. V # {} /\ V \in SUBSET S /\ V \in SUBSET T
  BY <1>2 DEF IsSum
<1> DEFINE c == CHOOSE x \in V : TRUE
<1>4. c \in V
  BY <1>3
<1>5. it[V] = f[c] + it[V \ {c}] /\ jt[V] = f[c] + jt[V \ {c}]
  BY <1>3 DEF IsSum
<1>6. V \ {c} \notin Bad
  BY <1>2, <1>4
<1> QED
  BY <1>2, <1>5, <1>6

\* Numbers have sums over every finite set.
LEMMA SumsExist ==
    ASSUME NEW f, NEW S, IsFiniteSet(S)
    PROVE  \E it : IsSum(it, f, S)
<1> DEFINE Bad == {V \in SUBSET S : ~\E it : IsSum(it, f, V)}
<1> SUFFICES ASSUME Bad # {} PROVE FALSE
  BY S \in SUBSET S
<1>1. \A V \in Bad : IsFiniteSet(V)
  BY FS_Subset
<1>2. PICK V \in Bad : \A W \in Bad : W \subseteq V => W = V
  <2>1. Bad # {}
    OBVIOUS
  <2> HIDE DEF Bad
  <2> QED
    BY ONLY <1>1, <2>1, LeastSet
<1>3. \A W \in SUBSET V : W # V => IsSum(CHOOSE it : IsSum(it, f, W), f, W) /\ IsFiniteSet(W)
  BY <1>1, <1>2, FS_Subset
<1> DEFINE c(s) == CHOOSE x \in s : TRUE
           it == [s \in SUBSET V |-> IF s # V THEN Total(f, s)
                     ELSE IF V = {} THEN 0 ELSE f[c(V)] + Total(f, V \ {c(V)})]
<1>4. \A s \in SUBSET V : s # {} => c(s) \in s /\ s \ {c(s)} # V /\ s \ {c(s)} \in SUBSET V
  OBVIOUS
<1>5. \A s \in SUBSET V : s # {} /\ s # V => Total(f, s) = f[c(s)] + Total(f, s \ {c(s)})
  <2> SUFFICES ASSUME NEW s \in SUBSET V, s # {}, s # V
               PROVE  Total(f, s) = f[c(s)] + Total(f, s \ {c(s)})
    OBVIOUS
  <2> DEFINE r == s \ {c(s)}
             a == CHOOSE jt : IsSum(jt, f, s)
             b == CHOOSE jt : IsSum(jt, f, r)
  <2>1. IsSum(a, f, s) /\ IsSum(b, f, r) /\ IsFiniteSet(r) /\ r \subseteq s
    BY <1>3, <1>4
  <2>2. a[s] = f[c(s)] + a[r]
    BY <2>1 DEF IsSum
  <2>3. a[r] = b[r]
    <3> HIDE DEF a, b, r
    <3> QED
      BY <2>1, SumsAgree
  <2> QED
    BY <2>2, <2>3 DEF Total
<1>6. V # {} => Total(f, {}) = 0
  BY <1>3 DEF Total, IsSum
<1>7. IsSum(it, f, V)
  <2>1. it = [s \in SUBSET V |-> it[s]]
    OBVIOUS
  <2>2. it[{}] = 0
    BY <1>6
  <2>3. ASSUME NEW s \in SUBSET V, s # {} PROVE it[s] = f[c(s)] + it[s \ {c(s)}]
    <3> DEFINE r == s \ {c(s)}
    <3>1. r \in SUBSET V /\ r # V
      BY <1>4, <2>3
    <3>2. it[r] = Total(f, r)
      <4> HIDE DEF r
      <4> QED
        BY <3>1
    <3>3. CASE s # V
      BY <1>5, <2>3, <3>2, <3>3
    <3>4. CASE s = V
      BY <2>3, <3>2, <3>4
    <3> QED
      BY <3>3, <3>4
  <2> QED
    BY <2>1, <2>2, <2>3 DEF IsSum
<1> QED
  BY <1>2, <1>7

\* The sum over a set is that of any function of sums.
LEMMA TotalIs ==
    ASSUME NEW f, NEW S, IsFiniteSet(S), NEW it, NEW T, IsSum(it, f, T), S \subseteq T
    PROVE  Total(f, S) = it[S]
<1> DEFINE jt == CHOOSE jt : IsSum(jt, f, S)
<1>1. IsSum(jt, f, S)
  BY SumsExist
<1> QED
  BY <1>1, SumsAgree DEF Total

LEMMA TotalEmpty == ASSUME NEW f PROVE Total(f, {}) = 0
<1>1. \E it : IsSum(it, f, {})
  BY FS_EmptySet, SumsExist
<1> QED
  BY <1>1 DEF Total, IsSum

\* A sum may be taken in any order.
LEMMA TotalStep ==
    ASSUME NEW f, NEW S, IsFiniteSet(S), \A x \in S : f[x] \in Nat, NEW y \in S
    PROVE  /\ Total(f, S \ {y}) \in Nat
           /\ Total(f, S) = f[y] + Total(f, S \ {y})
<1>1. PICK it : IsSum(it, f, S)
  BY SumsExist
<1>2. \A U \in SUBSET S : IsFiniteSet(U)
  BY FS_Subset
<1> DEFINE Good(U) == it[U] \in Nat /\ \A x \in U : it[U] = f[x] + it[U \ {x}]
           Bad == {U \in SUBSET S : ~Good(U)}
<1>3. Bad = {}
  <2> SUFFICES ASSUME Bad # {} PROVE FALSE
    OBVIOUS
  <2>1. \A U \in Bad : IsFiniteSet(U)
    BY <1>2
  <2>2. PICK U \in Bad : \A V \in Bad : V \subseteq U => V = U
    <3>1. Bad # {}
      OBVIOUS
    <3> HIDE DEF Bad
    <3> QED
      BY ONLY <2>1, <3>1, LeastSet
  <2>3. U \in SUBSET S /\ ~Good(U)
    BY <2>2
  <2>4. \A V \in SUBSET U : V # U => Good(V)
    BY <2>2, <2>3
  <2>5. U # {}
    <3>1. Good({})
      BY <1>1 DEF IsSum
    <3> HIDE DEF Good
    <3> QED
      BY <2>3, <3>1
  <2> DEFINE c == CHOOSE x \in U : TRUE
  <2>6. c \in U /\ it[U] = f[c] + it[U \ {c}]
    BY <1>1, <2>3, <2>5 DEF IsSum
  <2> HIDE DEF c
  <2>7. Good(U \ {c}) /\ f[c] \in Nat
    BY <2>3, <2>4, <2>6
  <2>8. it[U] \in Nat
    BY <2>6, <2>7
  <2>9. ASSUME NEW x \in U, x # c PROVE it[U] = f[x] + it[U \ {x}]
    <3> DEFINE W == (U \ {c}) \ {x}
    <3>1. it[U \ {c}] = f[x] + it[W]
      BY <2>7, <2>9
    <3>2. Good(U \ {x}) /\ c \in U \ {x} /\ (U \ {x}) \ {c} = W
      BY <2>4, <2>6, <2>9
    <3>3. it[U \ {x}] = f[c] + it[W]
      BY <3>2
    <3>4. Good(W)
      BY <2>4, <2>6
    <3>5. it[W] \in Nat /\ f[x] \in Nat
      BY <2>3, <3>4
    <3> HIDE DEF W, Good
    <3> QED
      BY <2>6, <2>7, <3>1, <3>3, <3>5
  <2> QED
    BY <2>3, <2>6, <2>8, <2>9
<1>4. Good(S) /\ Good(S \ {y})
  BY <1>3
<1>5. Total(f, S) = it[S] /\ Total(f, S \ {y}) = it[S \ {y}]
  BY <1>1, <1>2, TotalIs
<1> QED
  BY <1>4, <1>5

LEMMA TotalNat ==
    ASSUME NEW f, NEW S, IsFiniteSet(S), \A x \in S : f[x] \in Nat
    PROVE  Total(f, S) \in Nat
<1>1. CASE S = {}
  BY <1>1, TotalEmpty
<1>2. CASE S # {}
  <2>1. PICK y \in S : TRUE
    BY <1>2
  <2>2. f[y] \in Nat
    BY <2>1
  <2>3. Total(f, S \ {y}) \in Nat /\ Total(f, S) = f[y] + Total(f, S \ {y})
    BY <2>1, TotalStep
  <2> QED
    BY <2>2, <2>3
<1> QED
  BY <1>1, <1>2

\* Functions that agree on a set have one sum over it.
LEMMA TotalSame ==
    ASSUME NEW f, NEW g, NEW S, IsFiniteSet(S), \A x \in S : f[x] = g[x]
    PROVE  Total(f, S) = Total(g, S)
<1>1. PICK it : IsSum(it, f, S)
  BY SumsExist
<1>2. IsSum(it, g, S)
  <2>1. \A s \in SUBSET S : s # {} => (CHOOSE x \in s : TRUE) \in S
    OBVIOUS
  <2> QED
    BY <1>1, <2>1 DEF IsSum
<1> QED
  BY <1>1, <1>2, TotalIs

\* A sum of lesser numbers is not greater.
LEMMA TotalMonotone ==
    ASSUME NEW f, NEW g, NEW S, IsFiniteSet(S),
           \A x \in S : f[x] \in Nat /\ g[x] \in Nat /\ f[x] <= g[x]
    PROVE  Total(f, S) <= Total(g, S)
<1> DEFINE Bad == {U \in SUBSET S : ~(Total(f, U) <= Total(g, U))}
<1> SUFFICES ASSUME Bad # {} PROVE FALSE
  OBVIOUS
<1>1. \A U \in SUBSET S : IsFiniteSet(U)
  BY FS_Subset
<1>2. PICK U \in Bad : \A V \in Bad : V \subseteq U => V = U
  <2>1. Bad # {} /\ \A V \in Bad : IsFiniteSet(V)
    BY <1>1
  <2> HIDE DEF Bad
  <2> QED
    BY ONLY <2>1, LeastSet
<1>3. U \in SUBSET S /\ IsFiniteSet(U) /\ ~(Total(f, U) <= Total(g, U))
  BY <1>1, <1>2
<1>4. U # {}
  BY <1>3, TotalEmpty
<1>5. PICK y \in U : TRUE
  BY <1>4
<1>6. /\ Total(f, U) = f[y] + Total(f, U \ {y}) /\ Total(f, U \ {y}) \in Nat
      /\ Total(g, U) = g[y] + Total(g, U \ {y}) /\ Total(g, U \ {y}) \in Nat
  <2>1. \A x \in U : f[x] \in Nat /\ g[x] \in Nat
    BY <1>3
  <2>2. Total(f, U) = f[y] + Total(f, U \ {y}) /\ Total(f, U \ {y}) \in Nat
    BY ONLY <1>3, <1>5, <2>1, TotalStep
  <2>3. Total(g, U) = g[y] + Total(g, U \ {y}) /\ Total(g, U \ {y}) \in Nat
    BY ONLY <1>3, <1>5, <2>1, TotalStep
  <2> QED
    BY <2>2, <2>3
<1>7. Total(f, U \ {y}) <= Total(g, U \ {y})
  BY <1>2, <1>3, <1>5
<1>8. f[y] \in Nat /\ g[y] \in Nat /\ f[y] <= g[y]
  BY <1>3, <1>5
<1> QED
  BY <1>3, <1>6, <1>7, <1>8

-----------------------------------------------------------------------------
(* The deaths that the rows count.                                         *)
(*                                                                         *)
(* Racing calls write the same count twice, so a row's count may fall      *)
(* behind its writes; the writes of all rows of a session are its deaths.  *)

\* w is how often each row has been written.
WritesCounted(w) ==
    /\ w \in [DOMAIN counts -> Nat]
    /\ \A i \in DOMAIN counts : counts[i].count <= w[i]
    /\ \A k \in Flying : death[k].at = "save" => death[k].count <= w[death[k].row] + 1
    /\ \A s \in Deaths!Sessions : Total(w, Deaths!Matching(s)) = deaths[s]

RowsAddUp == \E w : WritesCounted(w)

LEMMA MatchingFinite ==
    ASSUME DeathInv, NEW s
    PROVE  IsFiniteSet(Deaths!Matching(s)) /\ Deaths!Matching(s) \subseteq DOMAIN counts
<1>1. Deaths!Matching(s) \subseteq 1..Len(counts) /\ Len(counts) \in Nat
      /\ DOMAIN counts = 1..Len(counts)
  BY DeathTypes DEF Deaths!Matching
<1>2. IsFiniteSet(1..Len(counts))
  BY <1>1, FS_Interval
<1>3. IsFiniteSet(Deaths!Matching(s))
  BY ONLY <1>1, <1>2, FS_Subset
<1> QED
  BY <1>1, <1>3

LEMMA InitRowsAddUp == Deaths!Init => RowsAddUp
<1> SUFFICES ASSUME Deaths!Init PROVE RowsAddUp
  OBVIOUS
<1>1. /\ counts = <<>> /\ Flying = {} /\ \A s \in Deaths!Sessions : deaths[s] = 0
      /\ \A s : Deaths!Matching(s) = {}
  BY DEF Deaths!Init, Flying, Deaths!Matching
<1> DEFINE w == [i \in DOMAIN counts |-> 0]
<1>2. Total(w, {}) = 0
  BY TotalEmpty
<1>3. WritesCounted(w)
  <2>1. w \in [DOMAIN counts -> Nat] /\ DOMAIN counts = {}
    BY <1>1
  <2> HIDE DEF w
  <2>2. \A s \in Deaths!Sessions : Total(w, Deaths!Matching(s)) = deaths[s]
    BY <1>1, <1>2
  <2> QED
    BY <1>1, <2>1, <2>2 DEF WritesCounted
<1> QED
  BY <1>3 DEF RowsAddUp

\* While no row is written, calls only come to save one more than their row holds.
LEMMA WritesStay ==
    ASSUME DeathInv, RowsAddUp, UNCHANGED <<counts, deaths>>,
           \A k \in Flying' : death'[k].at = "save" =>
               \/ k \in Flying /\ death'[k] = death[k]
               \/ /\ death'[k].row \in DOMAIN counts
                  /\ death'[k].count = counts[death'[k].row].count + 1
    PROVE  RowsAddUp'
<1>1. PICK w : WritesCounted(w)
  BY DEF RowsAddUp
<1>2. \A s : Deaths!Matching(s)' = Deaths!Matching(s)
  BY DEF Deaths!Matching
<1>3. ASSUME NEW k \in Flying', death'[k].at = "save"
      PROVE  death'[k].count <= w[death'[k].row] + 1
  <2>1. CASE k \in Flying /\ death'[k] = death[k]
    BY <1>1, <1>3, <2>1 DEF WritesCounted
  <2>2. CASE /\ death'[k].row \in DOMAIN counts
             /\ death'[k].count = counts[death'[k].row].count + 1
    <3> DEFINE r == death'[k].row
    <3>1. counts[r].count <= w[r] /\ counts[r].count \in Nat /\ w[r] \in Nat
      BY <1>1, <2>2, DeathTypes DEF WritesCounted
    <3> QED
      BY <2>2, <3>1
  <2> QED
    BY <1>3, <2>1, <2>2
<1>4. WritesCounted(w)'
  BY <1>1, <1>2, <1>3 DEF WritesCounted
<1> QED
  BY <1>4 DEF RowsAddUp

LEMMA InsertedWrites ==
    ASSUME DeathInv, RowsAddUp, NEW k \in Calls, Deaths!Inserted(k)
    PROVE  RowsAddUp'
<1>0. PICK s, n : s = death[k].of /\ n = Len(counts) + 1
  OBVIOUS
<1>1. PICK w : WritesCounted(w)
  BY DEF RowsAddUp
<1>2. /\ k \in Flying /\ counts' = Append(counts, [of |-> s, count |-> 1])
      /\ death' = [death EXCEPT ![k].at = "reply"] /\ deaths' = [deaths EXCEPT ![s] = @ + 1]
  BY <1>0 DEF Deaths!Inserted, Deaths!InFlight, Flying
<1>3. /\ s \in Deaths!Sessions /\ deaths'[s] = deaths[s] + 1 /\ deaths[s] \in Nat
      /\ \A t \in Deaths!Sessions : t # s => deaths'[t] = deaths[t]
  BY <1>0, <1>2, DeathTypes
<1>4. /\ n \in Nat /\ DOMAIN counts' = DOMAIN counts \cup {n} /\ n \notin DOMAIN counts
      /\ counts'[n].of = s /\ counts'[n].count = 1
      /\ \A i \in DOMAIN counts : counts'[i] = counts[i]
      /\ Len(counts') >= Len(counts) /\ Len(counts') \in Nat
  BY <1>0, <1>2, DeathTypes
<1>5. /\ \A j \in Calls \ {k} : death'[j] = death[j]
      /\ Flying' = Flying /\ death'[k].at = "reply"
  <2>1. ToReply(k)
    BY <1>2, <1>4, Written
  <2> QED
    BY <2>1 DEF ToReply
<1>11. PICK v : v = [i \in DOMAIN counts' |-> IF i = n THEN 1 ELSE w[i]]
  OBVIOUS
<1>6. v \in [DOMAIN counts' -> Nat] /\ v[n] = 1 /\ \A i \in DOMAIN counts : v[i] = w[i]
  BY <1>1, <1>4, <1>11 DEF WritesCounted
<1>7. \A i \in DOMAIN counts' : counts'[i].count <= v[i]
  BY <1>1, <1>4, <1>6 DEF WritesCounted
<1>8. ASSUME NEW j \in Flying', death'[j].at = "save"
      PROVE  death'[j].count <= v[death'[j].row] + 1
  <2>1. j \in Flying /\ death'[j] = death[j]
    BY <1>5, <1>8 DEF Flying
  <2>2. death[j].row \in DOMAIN counts /\ death[j].count <= w[death[j].row] + 1
    BY <1>1, <1>8, <2>1 DEF DeathInv, CallsKnown, WritesCounted
  <2> QED
    BY <1>6, <2>1, <2>2
<1>9. ASSUME NEW t \in Deaths!Sessions PROVE Total(v, Deaths!Matching(t)') = deaths'[t]
  <2>1. /\ IsFiniteSet(Deaths!Matching(t)) /\ Deaths!Matching(t) \subseteq DOMAIN counts
        /\ Total(w, Deaths!Matching(t)) = deaths[t]
    BY <1>1, MatchingFinite DEF WritesCounted
  <2>2. Total(v, Deaths!Matching(t)) = deaths[t]
    BY <1>6, <2>1, TotalSame
  <2>3. CASE t # s
    <3>1. Deaths!Matching(t)' = Deaths!Matching(t)
      BY <1>4, <2>3 DEF Deaths!Matching
    <3> QED
      BY <1>3, <2>2, <2>3, <3>1
  <2>4. CASE t = s
    <3> DEFINE M == Deaths!Matching(t)
               N == Deaths!Matching(t)'
    <3>1. N = M \cup {n} /\ n \notin M
      BY <1>4, <2>4 DEF Deaths!Matching
    <3>2. N \ {n} = M /\ n \in N /\ IsFiniteSet(N)
      BY <2>1, <3>1, FS_AddElement
    <3>3. \A i \in N : v[i] \in Nat
      BY <1>4, <1>6, <2>1, <3>1
    <3> HIDE DEF M, N
    <3>4. Total(v, N) = v[n] + Total(v, N \ {n})
      BY ONLY <3>2, <3>3, TotalStep
    <3> QED
      <4>1. Total(v, M) = deaths[s] /\ N = Deaths!Matching(t)'
        BY <2>2, <2>4 DEF M, N
      <4>2. Total(v, N) = 1 + deaths[s]
        BY <1>6, <3>2, <3>4, <4>1
      <4> QED
        BY <1>3, <2>4, <4>1, <4>2
  <2> QED
    BY <2>3, <2>4
<1>10. WritesCounted(v)'
  BY <1>6, <1>7, <1>8, <1>9 DEF WritesCounted
<1> QED
  BY <1>10 DEF RowsAddUp

LEMMA SavedWrites ==
    ASSUME DeathInv, RowsAddUp, NEW k \in Calls, Deaths!Saved(k)
    PROVE  RowsAddUp'
<1>0. PICK s, r, m : s = death[k].of /\ r = death[k].row /\ m = death[k].count
  OBVIOUS
<1>1. PICK w : WritesCounted(w)
  BY DEF RowsAddUp
<1>2. /\ k \in Flying /\ death[k].at = "save" /\ counts' = [counts EXCEPT ![r].count = m]
      /\ death' = [death EXCEPT ![k].at = "reply"] /\ deaths' = [deaths EXCEPT ![s] = @ + 1]
  BY <1>0 DEF Deaths!Saved, Deaths!InFlight, Flying
<1>3. /\ s \in Deaths!Sessions /\ deaths'[s] = deaths[s] + 1 /\ deaths[s] \in Nat
      /\ \A t \in Deaths!Sessions : t # s => deaths'[t] = deaths[t]
  BY <1>0, <1>2, DeathTypes
<1>4. /\ r \in DOMAIN counts /\ counts[r].of = s /\ m \in Nat /\ m <= w[r] + 1
      /\ w \in [DOMAIN counts -> Nat]
  BY <1>0, <1>1, <1>2, DeathTypes DEF DeathInv, CallsKnown, WritesCounted
<1>5. /\ DOMAIN counts' = DOMAIN counts /\ counts'[r].count = m
      /\ \A i \in DOMAIN counts : i # r => counts'[i] = counts[i]
  BY <1>2, <1>4, DeathTypes
<1>6. \A i \in DOMAIN counts : counts'[i].of = counts[i].of
  BY <1>2, <1>4, DeathTypes
<1>7. Len(counts') >= Len(counts) /\ Len(counts') \in Nat
  BY <1>2, DeathTypes
<1>8. /\ \A j \in Calls \ {k} : death'[j] = death[j]
      /\ Flying' = Flying /\ death'[k].at = "reply"
  <2>1. ToReply(k)
    BY <1>2, <1>7, Written
  <2> QED
    BY <2>1 DEF ToReply
<1>9. \A t : Deaths!Matching(t)' = Deaths!Matching(t)
  BY <1>5, <1>6 DEF Deaths!Matching
<1> DEFINE v == [w EXCEPT ![r] = @ + 1]
<1>10. /\ v \in [DOMAIN counts' -> Nat] /\ v[r] = w[r] + 1 /\ w[r] \in Nat
       /\ \A i \in DOMAIN counts : i # r => v[i] = w[i]
       /\ \A i \in DOMAIN counts : w[i] <= v[i] /\ w[i] \in Nat /\ v[i] \in Nat
  BY <1>4, <1>5
<1> HIDE DEF v
<1>11. ASSUME NEW i \in DOMAIN counts' PROVE counts'[i].count <= v[i]
  <2>1. CASE i = r
    BY <1>4, <1>5, <1>10, <2>1
  <2>2. CASE i # r
    BY <1>1, <1>5, <1>10, <2>2 DEF WritesCounted
  <2> QED
    BY <2>1, <2>2
<1>12. ASSUME NEW j \in Flying', death'[j].at = "save"
       PROVE  death'[j].count <= v[death'[j].row] + 1
  <2>1. j \in Flying /\ death'[j] = death[j]
    BY <1>8, <1>12 DEF Flying
  <2>2. /\ death[j].row \in DOMAIN counts /\ death[j].count <= w[death[j].row] + 1
        /\ death[j].count \in Nat
    BY <1>1, <1>12, <2>1, DeathTypes DEF DeathInv, CallsKnown, WritesCounted
  <2>3. w[death[j].row] <= v[death[j].row] /\ {w[death[j].row], v[death[j].row]} \subseteq Nat
    BY <1>10, <2>2
  <2> QED
    BY <2>1, <2>2, <2>3
<1>13. ASSUME NEW t \in Deaths!Sessions PROVE Total(v, Deaths!Matching(t)') = deaths'[t]
  <2> DEFINE M == Deaths!Matching(t)
  <2>1. IsFiniteSet(M) /\ M \subseteq DOMAIN counts /\ Total(w, M) = deaths[t]
    BY <1>1, MatchingFinite DEF WritesCounted
  <2>2. CASE t # s
    <3>1. r \notin M
      BY <1>4, <2>2 DEF Deaths!Matching
    <3>2. \A i \in M : v[i] = w[i]
      BY <1>10, <2>1, <3>1
    <3> HIDE DEF M
    <3>3. Total(v, M) = Total(w, M)
      BY ONLY <2>1, <3>2, TotalSame
    <3> QED
      BY <1>3, <1>9, <2>1, <2>2, <3>3 DEF M
  <2>3. CASE t = s
    <3>1. r \in M
      BY <1>4, <2>3 DEF Deaths!Matching
    <3>2. \A i \in M : v[i] \in Nat /\ w[i] \in Nat
      BY <1>10, <2>1
    <3>3. \A i \in M \ {r} : v[i] = w[i]
      BY <1>10, <2>1
    <3>4. IsFiniteSet(M \ {r})
      BY <2>1, FS_Subset
    <3> HIDE DEF M
    <3>5. Total(v, M) = v[r] + Total(v, M \ {r})
      BY ONLY <2>1, <3>1, <3>2, TotalStep
    <3>6. Total(w, M) = w[r] + Total(w, M \ {r}) /\ Total(w, M \ {r}) \in Nat
      BY ONLY <2>1, <3>1, <3>2, TotalStep
    <3>7. Total(v, M \ {r}) = Total(w, M \ {r})
      BY ONLY <3>3, <3>4, TotalSame
    <3> QED
      BY <1>3, <1>9, <1>10, <2>1, <2>3, <3>5, <3>6, <3>7 DEF M
  <2> QED
    BY <2>2, <2>3
<1>14. WritesCounted(v)'
  BY <1>10, <1>11, <1>12, <1>13 DEF WritesCounted
<1> QED
  BY <1>14 DEF RowsAddUp

LEMMA RowsAddUpStep ==
    ASSUME DeathInv, RowsAddUp, [Deaths!Next]_deathVars
    PROVE  RowsAddUp'
<1>1. CASE UNCHANGED deathVars
  BY <1>1, WritesStay DEF deathVars, Flying
<1>2. CASE Deaths!NextStream \/ Deaths!Tick
  BY <1>2, WritesStay DEF Deaths!NextStream, Deaths!Tick, Deaths!history, Flying
<1>3. CASE Deaths!Crash
  <2>1. Flying' = {}
    BY <1>3 DEF Deaths!Crash, Flying
  <2> QED
    BY <1>3, <2>1, WritesStay DEF Deaths!Crash, Deaths!history
<1>4. ASSUME NEW k \in Calls, NEW g \in Games, Deaths!StreamAnswered(k, g) PROVE RowsAddUp'
  <2>1. /\ \A j \in Calls \ {k} : death'[j] = death[j]
        /\ death'[k].at = "find" /\ UNCHANGED <<counts, deaths>>
    BY <1>4, DeathTypes DEF Deaths!StreamAnswered
  <2> QED
    BY <2>1, WritesStay DEF Flying
<1>5. ASSUME NEW k \in Calls, Deaths!Found(k) PROVE RowsAddUp'
  <2>1. /\ \A j \in Calls \ {k} : death'[j] = death[j]
        /\ UNCHANGED <<counts, deaths>>
        /\ k \in Flying /\ death[k] \in Deaths!Call
    BY <1>5, DeathTypes DEF Deaths!Found, Deaths!InFlight, Deaths!history, Flying
  <2>2. death'[k].at = "save" =>
            death'[k].row \in DOMAIN counts /\ death'[k].count = counts[death'[k].row].count + 1
    <3>1. \/ death' = [death EXCEPT ![k].at = "insert"]
          \/ \E i \in Deaths!Matching(death[k].of) :
                 death' = [death EXCEPT ![k].at = "save", ![k].row = i, ![k].count = counts[i].count + 1]
      BY <1>5 DEF Deaths!Found
    <3>2. CASE death' = [death EXCEPT ![k].at = "insert"]
      BY <2>1, <3>2, DeathTypes DEF Deaths!Call
    <3>3. ASSUME NEW i \in Deaths!Matching(death[k].of),
                 death' = [death EXCEPT ![k].at = "save", ![k].row = i, ![k].count = counts[i].count + 1]
          PROVE  death'[k].row \in DOMAIN counts /\ death'[k].count = counts[death'[k].row].count + 1
      <4>1. death'[k].row = i /\ death'[k].count = counts[i].count + 1
        BY <2>1, <3>3, DeathTypes DEF Deaths!Call
      <4> QED
        BY <3>3, <4>1 DEF Deaths!Matching
    <3> QED
      BY <3>1, <3>2, <3>3
  <2> QED
    BY <2>1, <2>2, WritesStay DEF Flying
<1>6. ASSUME NEW k \in Calls, Deaths!QueryFails(k) \/ Deaths!Replied(k) PROVE RowsAddUp'
  <2>1. /\ \A j \in Calls \ {k} : death'[j] = death[j]
        /\ death'[k] = Idle /\ UNCHANGED <<counts, deaths>>
    BY <1>6, DeathTypes DEF Deaths!QueryFails, Deaths!Replied, Deaths!history
  <2> QED
    BY <2>1, WritesStay DEF Flying
<1> QED
  BY <1>1, <1>2, <1>3, <1>4, <1>5, <1>6, InsertedWrites, SavedWrites DEF Deaths!Next

\* What CountsAgree adds up is a Total.
LEMMA CountsAdd ==
    ASSUME DeathInv, NEW s
    PROVE  Deaths!MapThenSumSet(LAMBDA i : counts[i].count, Deaths!Matching(s)) =
               Total([i \in DOMAIN counts |-> counts[i].count], Deaths!Matching(s))
<1> DEFINE M == Deaths!Matching(s)
           f == [i \in DOMAIN counts |-> counts[i].count]
           Adds(it) == it = [u \in SUBSET M |-> IF u = {} THEN 0
               ELSE counts[CHOOSE x \in u : TRUE].count + it[u \ {CHOOSE x \in u : TRUE}]]
<1>1. IsFiniteSet(M) /\ M \subseteq DOMAIN counts
  BY MatchingFinite
<1>2. \A u \in SUBSET M : u # {} => /\ f[CHOOSE x \in u : TRUE] = counts[CHOOSE x \in u : TRUE].count
                                    /\ u \ {CHOOSE x \in u : TRUE} \in SUBSET M
  BY <1>1
<1> HIDE DEF f, M
<1>3. \A it : Adds(it) <=> IsSum(it, f, M)
  <2>1. ASSUME NEW it, Adds(it) PROVE IsSum(it, f, M)
    <3>1. DOMAIN it = SUBSET M /\ {} \in SUBSET M
      BY <2>1
    <3>2. it = [u \in SUBSET M |-> it[u]]
      BY <2>1
    <3>3. it[{}] = 0
      BY <2>1, <3>1
    <3>4. \A u \in SUBSET M : u # {} =>
              it[u] = counts[CHOOSE x \in u : TRUE].count + it[u \ {CHOOSE x \in u : TRUE}]
      BY <2>1
    <3> QED
      BY <1>2, <3>2, <3>3, <3>4 DEF IsSum
  <2>2. ASSUME NEW it, IsSum(it, f, M) PROVE Adds(it)
    <3>1. /\ it = [u \in SUBSET M |-> it[u]] /\ it[{}] = 0
          /\ \A u \in SUBSET M : u # {} =>
                 it[u] = counts[CHOOSE x \in u : TRUE].count + it[u \ {CHOOSE x \in u : TRUE}]
      BY <1>2, <2>2 DEF IsSum
    <3>2. \A u \in SUBSET M : it[u] = IF u = {} THEN 0
              ELSE counts[CHOOSE x \in u : TRUE].count + it[u \ {CHOOSE x \in u : TRUE}]
      BY <3>1
    <3> QED
      BY <3>1, <3>2
  <2> QED
    BY <2>1, <2>2
<1>4. PICK it : Adds(it)
  <2> HIDE DEF Adds
  <2>1. PICK it : IsSum(it, f, M)
    BY <1>1, SumsExist
  <2> QED
    BY <1>3, <2>1
<1>5. Adds(CHOOSE jt : Adds(jt))
  BY <1>4
<1>6. (CHOOSE jt : Adds(jt))[M] = Total(f, M)
  <2> HIDE DEF Adds
  <2> QED
    BY <1>1, <1>3, <1>5, TotalIs
<1> QED
  BY <1>6 DEF M, f, Deaths!MapThenSumSet, Deaths!MapThenFoldSet

\* The rows of a stream and game never count more deaths than were recorded.
LEMMA NeverMore == DeathInv /\ RowsAddUp => CountsAgree
<1> SUFFICES ASSUME DeathInv, RowsAddUp, NEW s \in Deaths!Sessions
             PROVE  Deaths!MapThenSumSet(LAMBDA i : counts[i].count, Deaths!Matching(s)) <= deaths[s]
  BY DEF DeathInv, Unraced, CountsAgree, Deaths!CountsAgree, Deaths!CountsExact
<1> DEFINE f == [i \in DOMAIN counts |-> counts[i].count]
<1>1. PICK w : WritesCounted(w)
  BY DEF RowsAddUp
<1>2. \A i \in Deaths!Matching(s) : f[i] \in Nat /\ w[i] \in Nat /\ f[i] <= w[i]
  BY <1>1, MatchingFinite, DeathTypes DEF WritesCounted
<1>3. IsFiniteSet(Deaths!Matching(s))
  BY MatchingFinite
<1> HIDE DEF f
<1>4. Total(f, Deaths!Matching(s)) <= Total(w, Deaths!Matching(s))
  BY <1>2, <1>3, TotalMonotone
<1> QED
  BY <1>1, <1>4, CountsAdd DEF f, WritesCounted

-----------------------------------------------------------------------------
(* The gifts that the records add up to.                                   *)
(*                                                                         *)
(* Of every gifter, what is recorded and what handlers have yet to record  *)
(* are together what was announced, or given one by one.                   *)

\* What a notice will add to its gifter's records of a type.
Share(c, type, g) == IF c.kind = type /\ c.gifter = g THEN Subs!GiftCount(c) ELSE 0

SentCount(type, g) == Total([h \in Handlers |-> Share(handling[h], type, g)], Busy)

KeptCount(type, g) ==
    Total([i \in DOMAIN subscribers |-> gifts[subscribers[i].gift].giftCount], Subs!RecordsOf(type, g))

\* The gift a handler has written is that of its notice.
GiftsWritten ==
    \A h \in Busy : handling[h].gift # 0 =>
        gifts[handling[h].gift] =
            [gifter |-> handling[h].gifter, giftCount |-> Subs!GiftCount(handling[h])]

GiftsCounted ==
    ~failed => \A g \in Gifters :
        /\ KeptCount("CommunitySub", g) + SentCount("CommunitySub", g) = announced[g].total
        /\ KeptCount("GiftSub", g) + SentCount("GiftSub", g) + announced[g].due =
               announced[g].total + single[g]

GiftSums == IsFiniteSet(Busy) /\ GiftsWritten /\ GiftsCounted

\* Two sums whose terms differ at one place only.
LEMMA TotalChanges ==
    ASSUME NEW S, NEW T, NEW x, NEW f, NEW e, IsFiniteSet(S), IsFiniteSet(T), S \ {x} = T \ {x},
           \A y \in S : f[y] \in Nat, \A y \in T : e[y] \in Nat,
           \A y \in S \ {x} : f[y] = e[y]
    PROVE  \E n \in Nat : /\ Total(f, S) = n + (IF x \in S THEN f[x] ELSE 0)
                          /\ Total(e, T) = n + (IF x \in T THEN e[x] ELSE 0)
<1> DEFINE R == S \ {x}
<1>0. (\A y \in S : f[y] \in Nat) /\ (\A y \in T : e[y] \in Nat)
  OBVIOUS
<1>1. IsFiniteSet(R) /\ R = T \ {x} /\ \A y \in R : f[y] = e[y] /\ f[y] \in Nat
  BY FS_Subset
<1>2. Total(f, S) = Total(f, R) + (IF x \in S THEN f[x] ELSE 0)
  <2>1. CASE x \in S
    <3>1. Total(f, S) = f[x] + Total(f, S \ {x}) /\ Total(f, S \ {x}) \in Nat
      BY <1>0, <2>1, TotalStep
    <3>2. f[x] \in Nat
      BY <2>1
    <3> QED
      BY <2>1, <3>1, <3>2
  <2>2. CASE x \notin S
    <3>1. R = S
      BY <2>2
    <3>2. Total(f, S) \in Nat
      BY TotalNat
    <3> QED
      BY <2>2, <3>1, <3>2
  <2> QED
    BY <2>1, <2>2
<1>3. Total(e, T) = Total(e, R) + (IF x \in T THEN e[x] ELSE 0)
  <2>1. CASE x \in T
    <3>1. Total(e, T) = e[x] + Total(e, T \ {x}) /\ Total(e, T \ {x}) \in Nat
      BY <1>0, <2>1, TotalStep
    <3>2. e[x] \in Nat
      BY <2>1
    <3> HIDE DEF R
    <3> QED
      BY <1>1, <2>1, <3>1, <3>2
  <2>2. CASE x \notin T
    <3>1. R = T
      BY <1>1, <2>2
    <3>2. Total(e, T) \in Nat
      BY TotalNat
    <3> HIDE DEF R
    <3> QED
      BY <2>2, <3>1, <3>2
  <2> QED
    BY <2>1, <2>2
<1> HIDE DEF R
<1>4. Total(f, R) = Total(e, R) /\ Total(f, R) \in Nat
  BY <1>1, TotalSame, TotalNat
<1> QED
  BY <1>2, <1>3, <1>4

\* Where a handler stands, and what the notice it has is.
LEMMA HandlerTypes ==
    ASSUME SubInv
    PROVE  /\ handling \in [Handlers -> Subs!Handled \cup {Free}]
           /\ \A h \in Busy : /\ h \in Handlers /\ handling[h] \in Subs!Handled
                              /\ handling[h].count \in Nat /\ Subs!GiftCount(handling[h]) \in Nat
                              /\ handling[h].gift \in 0..Len(gifts)
           /\ gifts \in Seq(Subs!Gift) /\ Len(gifts) \in Nat /\ DOMAIN gifts = 1..Len(gifts)
           /\ subscribers \in Seq(Subs!Subscriber) /\ Len(subscribers) \in Nat
           /\ DOMAIN subscribers = 1..Len(subscribers)
           /\ announced \in [Gifters -> [total : Nat, due : Nat]] /\ single \in [Gifters -> Nat]
<1>1. /\ handling \in [Handlers -> Subs!Handled \cup {Free}]
      /\ gifts \in Seq(Subs!Gift) /\ subscribers \in Seq(Subs!Subscriber)
      /\ announced \in [Gifters -> [total : Nat, due : Nat]] /\ single \in [Gifters -> Nat]
      /\ \A h \in Busy : handling[h].gift <= Len(gifts)
  BY DEF SubInv, Subs!TypeOK, Busy
<1>2. /\ Len(gifts) \in Nat /\ DOMAIN gifts = 1..Len(gifts)
      /\ Len(subscribers) \in Nat /\ DOMAIN subscribers = 1..Len(subscribers)
  BY <1>1
<1>3. ASSUME NEW h \in Busy
      PROVE  /\ h \in Handlers /\ handling[h] \in Subs!Handled
             /\ handling[h].count \in Nat /\ Subs!GiftCount(handling[h]) \in Nat
             /\ handling[h].gift \in 0..Len(gifts)
  <2>1. h \in Handlers /\ handling[h] \in Subs!Handled
    BY <1>1 DEF Busy
  <2>2. handling[h].count \in Nat /\ handling[h].gift \in Nat
    BY <2>1 DEF Subs!Handled
  <2> QED
    BY <1>1, <1>2, <2>1, <2>2 DEF Subs!GiftCount
<1> QED
  BY <1>1, <1>2, <1>3

\* The records of gifts refer to gifts there are, so they have numbers to add.
LEMMA RecordsCounted ==
    ASSUME SubInv, NEW type \in Subs!Gifted, NEW g
    PROVE  /\ IsFiniteSet(Subs!RecordsOf(type, g))
           /\ Subs!RecordsOf(type, g) \subseteq DOMAIN subscribers
           /\ \A i \in Subs!RecordsOf(type, g) :
                  /\ subscribers[i].gift \in DOMAIN gifts
                  /\ gifts[subscribers[i].gift].giftCount \in Nat
<1>1. Subs!RecordsOf(type, g) \subseteq 1..Len(subscribers) /\ IsFiniteSet(1..Len(subscribers))
  BY HandlerTypes, FS_Interval DEF Subs!RecordsOf
<1>2. IsFiniteSet(Subs!RecordsOf(type, g))
  BY ONLY <1>1, FS_Subset
<1>3. ASSUME NEW i \in Subs!RecordsOf(type, g)
      PROVE  subscribers[i].gift \in DOMAIN gifts /\ gifts[subscribers[i].gift].giftCount \in Nat
  <2>1. i \in DOMAIN subscribers /\ subscribers[i].type \in Subs!Gifted
    BY DEF Subs!RecordsOf
  <2>2. subscribers[i].gift # 0 /\ subscribers[i].gift \in 0..Len(gifts)
    BY <2>1 DEF SubInv, GiftsHaveTheirGiver, Subs!GiftsHaveTheirGiver
  <2>3. subscribers[i].gift \in DOMAIN gifts
    BY <2>2, HandlerTypes
  <2>4. gifts[subscribers[i].gift] \in Subs!Gift
    BY <2>3, HandlerTypes
  <2> QED
    BY <2>3, <2>4 DEF Subs!Gift
<1> QED
  BY <1>1, <1>2, <1>3, HandlerTypes

LEMMA ShareNat ==
    ASSUME SubInv, NEW h \in Busy, NEW type, NEW g
    PROVE  Share(handling[h], type, g) \in Nat
BY HandlerTypes DEF Share

\* What one handler does changes what is on its way by the share of its notice.
LEMMA SentChanges ==
    ASSUME SubInv, SubInv', IsFiniteSet(Busy), NEW h \in Handlers,
           \A j \in Handlers \ {h} : handling'[j] = handling[j], NEW type, NEW g
    PROVE  \E n \in Nat :
               /\ SentCount(type, g) = n + (IF h \in Busy THEN Share(handling[h], type, g) ELSE 0)
               /\ SentCount(type, g)' = n + (IF h \in Busy' THEN Share(handling[h], type, g)' ELSE 0)
<1>1. PICK S, T, f, e : /\ S = Busy /\ T = Busy'
                        /\ f = [j \in Handlers |-> Share(handling[j], type, g)]
                        /\ e = [j \in Handlers |-> Share(handling[j], type, g)]'
  OBVIOUS
<1>2. S \ {h} = T \ {h} /\ S \subseteq Handlers /\ T \subseteq Handlers
  BY <1>1 DEF Busy
<1>3. IsFiniteSet(S) /\ IsFiniteSet(T)
  <2>1. IsFiniteSet(S \cup {h}) /\ T \subseteq S \cup {h}
    BY <1>1, <1>2, FS_AddElement
  <2> QED
    BY <1>1, <2>1, FS_Subset
<1>4. \A j \in S : f[j] \in Nat
  BY <1>1, <1>2, ShareNat
<1>5. \A j \in T : e[j] \in Nat
  <2> SUFFICES ASSUME NEW j \in T PROVE e[j] \in Nat
    OBVIOUS
  <2>1. handling'[j] \in Subs!Handled
    BY <1>1, <1>2 DEF SubInv, Subs!TypeOK, Busy
  <2>2. handling'[j].count \in Nat /\ e[j] = Share(handling[j], type, g)'
    BY <1>1, <1>2, <2>1 DEF Subs!Handled
  <2> QED
    BY <2>2 DEF Share, Subs!GiftCount
<1>6. \A j \in S \ {h} : f[j] = e[j]
  BY <1>1, <1>2 DEF Share, Subs!GiftCount
<1>7. \E n \in Nat : /\ Total(f, S) = n + (IF h \in S THEN f[h] ELSE 0)
                     /\ Total(e, T) = n + (IF h \in T THEN e[h] ELSE 0)
  BY ONLY <1>2, <1>3, <1>4, <1>5, <1>6, TotalChanges
<1>8. SentCount(type, g) = Total(f, S) /\ SentCount(type, g)' = Total(e, T)
  BY <1>1 DEF SentCount
<1>9. f[h] = Share(handling[h], type, g) /\ e[h] = Share(handling[h], type, g)'
  BY <1>1
<1> QED
  BY <1>1, <1>7, <1>8, <1>9

LEMMA StaysFinite ==
    ASSUME IsFiniteSet(Busy), NEW h \in Handlers,
           \A j \in Handlers \ {h} : handling'[j] = handling[j]
    PROVE  IsFiniteSet(Busy')
<1>1. Busy' \subseteq Busy \cup {h}
  BY DEF Busy
<1> QED
  BY <1>1, FS_AddElement, FS_Subset

LEMMA CountsNat ==
    ASSUME SubInv, IsFiniteSet(Busy), NEW type \in Subs!Gifted, NEW g
    PROVE  KeptCount(type, g) \in Nat /\ SentCount(type, g) \in Nat
<1>1. PICK f, e : /\ f = [i \in DOMAIN subscribers |-> gifts[subscribers[i].gift].giftCount]
                  /\ e = [h \in Handlers |-> Share(handling[h], type, g)]
  OBVIOUS
<1>2. IsFiniteSet(Subs!RecordsOf(type, g)) /\ \A i \in Subs!RecordsOf(type, g) : f[i] \in Nat
  BY <1>1, RecordsCounted
<1>3. \A h \in Busy : e[h] \in Nat
  BY <1>1, ShareNat DEF Busy
<1>4. Total(f, Subs!RecordsOf(type, g)) \in Nat
  BY ONLY <1>2, TotalNat
<1>5. Total(e, Busy) \in Nat
  BY <1>3, TotalNat
<1> QED
  BY <1>1, <1>4, <1>5 DEF KeptCount, SentCount

\* A handler that goes on with the notice it has leaves what is on its way.
LEMMA SentStays ==
    ASSUME SubInv, SubInv', IsFiniteSet(Busy), NEW h \in Busy, handling'[h] # Free,
           \A j \in Handlers \ {h} : handling'[j] = handling[j],
           handling'[h].kind = handling[h].kind, handling'[h].gifter = handling[h].gifter,
           handling'[h].count = handling[h].count
    PROVE  \A type, g : SentCount(type, g)' = SentCount(type, g)
<1> SUFFICES ASSUME NEW type, NEW g PROVE SentCount(type, g)' = SentCount(type, g)
  OBVIOUS
<1>1. h \in Handlers /\ h \in Busy'
  BY DEF Busy
<1>2. \E n \in Nat :
          /\ SentCount(type, g) = n + (IF h \in Busy THEN Share(handling[h], type, g) ELSE 0)
          /\ SentCount(type, g)' = n + (IF h \in Busy' THEN Share(handling[h], type, g)' ELSE 0)
  BY <1>1, SentChanges
<1>3. Share(handling[h], type, g)' = Share(handling[h], type, g)
  BY DEF Share, Subs!GiftCount
<1> QED
  BY <1>1, <1>2, <1>3

LEMMA InitGiftSums == Subs!Init => GiftSums
<1> SUFFICES ASSUME Subs!Init PROVE GiftSums
  OBVIOUS
<1>1. Busy = {} /\ \A type, g : Subs!RecordsOf(type, g) = {}
  BY DEF Subs!Init, Subs!RecordsOf, Busy
<1>2. \A type, g : KeptCount(type, g) = 0 /\ SentCount(type, g) = 0
  BY <1>1, TotalEmpty DEF KeptCount, SentCount
<1>3. \A g \in Gifters : announced[g].total = 0 /\ announced[g].due = 0 /\ single[g] = 0
  BY DEF Subs!Init
<1>4. GiftsCounted
  BY <1>2, <1>3 DEF GiftsCounted
<1> QED
  BY <1>1, <1>4, FS_EmptySet DEF GiftSums, GiftsWritten

\* A notice that arrives is on its way.
LEMMA NoticeSent ==
    ASSUME SubInv, SubInv', GiftSums, NEW h \in Handlers, NEW kind \in Subs!Kinds,
           NEW prime \in BOOLEAN, NEW gifter \in Gifters \cup {Nobody},
           NEW count \in Nat, NEW total \in Nat,
           Subs!Notice(h, kind, prime, gifter, count, total)
    PROVE  /\ IsFiniteSet(Busy') /\ GiftsWritten' /\ failed' = failed
           /\ \A type \in Subs!Gifted, g \in Gifters :
                  /\ KeptCount(type, g)' = KeptCount(type, g)
                  /\ KeptCount(type, g) \in Nat /\ SentCount(type, g) \in Nat
                  /\ SentCount(type, g)' = SentCount(type, g) +
                         (IF kind = type /\ gifter = g
                          THEN (IF kind = "CommunitySub" THEN count ELSE 1) ELSE 0)
<1> DEFINE c == [at |-> "say", kind |-> kind, prime |-> prime, gifter |-> gifter, count |-> count,
                 total |-> total, gift |-> 0, createdAt |-> 0, of |-> notices + 1]
<1>1. /\ handling[h] = Free /\ handling' = [handling EXCEPT ![h] = c]
      /\ UNCHANGED <<gifts, subscribers, failed>>
  BY DEF Subs!Notice, Subs!tables
<1>2. /\ c.kind = kind /\ c.gifter = gifter /\ c.count = count /\ c.gift = 0
  OBVIOUS
<1>3. PICK d : d = c
  OBVIOUS
<1>4. d.kind = kind /\ d.gifter = gifter /\ d.count = count /\ d.gift = 0
  BY <1>2, <1>3
<1>5. handling' = [handling EXCEPT ![h] = d]
  BY <1>1, <1>3
<1> HIDE DEF c
<1>6. handling'[h] = d /\ \A j \in Handlers \ {h} : handling'[j] = handling[j]
  BY <1>5, HandlerTypes
<1>7. d # Free
  <2>1. notices + 1 \in Nat
    BY DEF SubInv, StampsCounted
  <2>2. d \in Subs!Handled
    BY <1>3, <2>1 DEF c, Subs!Handled
  <2> QED
    BY <2>2, SubscriptionsAssumption
<1>8. h \notin Busy /\ h \in Busy' /\ \A j \in Busy' : j = h \/ j \in Busy
  BY <1>1, <1>6, <1>7 DEF Busy
<1>9. IsFiniteSet(Busy')
  BY <1>6, StaysFinite DEF GiftSums
<1>10. GiftsWritten'
  BY <1>1, <1>4, <1>6, <1>8 DEF GiftSums, GiftsWritten, Busy
<1>11. ASSUME NEW type \in Subs!Gifted, NEW g \in Gifters
       PROVE  /\ KeptCount(type, g)' = KeptCount(type, g)
              /\ KeptCount(type, g) \in Nat /\ SentCount(type, g) \in Nat
              /\ SentCount(type, g)' = SentCount(type, g) +
                     (IF kind = type /\ gifter = g
                      THEN (IF kind = "CommunitySub" THEN count ELSE 1) ELSE 0)
  <2>1. KeptCount(type, g)' = KeptCount(type, g)
    BY <1>1 DEF KeptCount, Subs!RecordsOf
  <2>2. KeptCount(type, g) \in Nat /\ SentCount(type, g) \in Nat
    BY CountsNat DEF GiftSums
  <2>3. \E n \in Nat :
            /\ SentCount(type, g) = n + (IF h \in Busy THEN Share(handling[h], type, g) ELSE 0)
            /\ SentCount(type, g)' = n + (IF h \in Busy' THEN Share(handling[h], type, g)' ELSE 0)
    BY <1>6, SentChanges DEF GiftSums
  <2>4. Share(handling[h], type, g)' =
            IF kind = type /\ gifter = g THEN (IF kind = "CommunitySub" THEN count ELSE 1) ELSE 0
    BY <1>4, <1>6 DEF Share, Subs!GiftCount
  <2> QED
    BY <1>8, <2>1, <2>2, <2>3, <2>4
<1> QED
  BY <1>1, <1>9, <1>10, <1>11

LEMMA NoticesCounted ==
    ASSUME SubInv, SubInv', GiftSums, NEW h \in Handlers,
           \/ \E kind \in {"NewSub", "PrimeSub", "ReSub", "Extend"}, prime \in BOOLEAN :
                  Subs!Subscribed(h, kind, prime)
           \/ \E g \in Gifters : \/ Subs!GiftReceived(h, g)
                                \/ \E n \in 1..MaxGift : Subs!CommunityGift(h, g, n)
    PROVE  GiftSums'
<1>0. /\ announced \in [Gifters -> [total : Nat, due : Nat]] /\ single \in [Gifters -> Nat]
      /\ {"CommunitySub", "GiftSub"} \subseteq Subs!Gifted
      /\ \A g \in Gifters : announced[g].total \in Nat /\ announced[g].due \in Nat /\ single[g] \in Nat
  BY HandlerTypes DEF Subs!Gifted
<1>1. ASSUME NEW kind \in {"NewSub", "PrimeSub", "ReSub", "Extend"}, NEW prime \in BOOLEAN,
             Subs!Subscribed(h, kind, prime)
      PROVE  GiftSums'
  <2>1. /\ Subs!Notice(h, kind, prime, Nobody, 0, 0) /\ UNCHANGED <<announced, single>>
        /\ kind \in Subs!Kinds /\ 0 \in Nat
    BY <1>1 DEF Subs!Subscribed, Subs!Kinds
  <2>2. /\ IsFiniteSet(Busy') /\ GiftsWritten' /\ failed' = failed
        /\ \A type \in Subs!Gifted, g \in Gifters :
               /\ KeptCount(type, g)' = KeptCount(type, g) /\ SentCount(type, g) \in Nat
               /\ SentCount(type, g)' = SentCount(type, g) +
                      (IF kind = type /\ Nobody = g
                       THEN (IF kind = "CommunitySub" THEN 0 ELSE 1) ELSE 0)
    BY <2>1, NoticeSent
  <2>3. \A type \in Subs!Gifted : kind # type
    BY DEF Subs!Gifted
  <2>4. \A type \in Subs!Gifted, g \in Gifters : SentCount(type, g)' = SentCount(type, g)
    BY <2>2, <2>3
  <2>5. GiftsCounted'
    BY <1>0, <2>1, <2>2, <2>4 DEF GiftSums, GiftsCounted
  <2> QED
    BY <2>2, <2>5 DEF GiftSums
<1>2. ASSUME NEW giver \in Gifters, Subs!GiftReceived(h, giver)
      PROVE  GiftSums'
  <2>1. /\ Subs!Notice(h, "GiftSub", FALSE, giver, 1, 0) /\ "GiftSub" \in Subs!Kinds /\ 1 \in Nat
        /\ IF announced[giver].due > 0
           THEN announced' = [announced EXCEPT ![giver].due = @ - 1] /\ UNCHANGED single
           ELSE single' = [single EXCEPT ![giver] = @ + 1] /\ UNCHANGED announced
    BY <1>2 DEF Subs!GiftReceived, Subs!Kinds
  <2>2. /\ IsFiniteSet(Busy') /\ GiftsWritten' /\ failed' = failed
        /\ \A type \in Subs!Gifted, g \in Gifters :
               /\ KeptCount(type, g)' = KeptCount(type, g)
               /\ KeptCount(type, g) \in Nat /\ SentCount(type, g) \in Nat
               /\ SentCount(type, g)' = SentCount(type, g) +
                      (IF "GiftSub" = type /\ giver = g THEN 1 ELSE 0)
    <3>1. PICK kind, prime, count, total :
              /\ kind = "GiftSub" /\ prime = FALSE /\ count = 1
              /\ total = 0
      OBVIOUS
    <3>2. /\ Subs!Notice(h, kind, prime, giver, count, total)
          /\ kind \in Subs!Kinds /\ prime \in BOOLEAN /\ giver \in Gifters \cup {Nobody}
          /\ count \in Nat /\ total \in Nat
      BY <2>1, <3>1
    <3>3. /\ IsFiniteSet(Busy') /\ GiftsWritten' /\ failed' = failed
          /\ \A type \in Subs!Gifted, g \in Gifters :
                 /\ KeptCount(type, g)' = KeptCount(type, g)
                 /\ KeptCount(type, g) \in Nat /\ SentCount(type, g) \in Nat
                 /\ SentCount(type, g)' = SentCount(type, g) +
                        (IF kind = type /\ giver = g
                         THEN (IF kind = "CommunitySub" THEN count ELSE 1) ELSE 0)
      BY <3>2, NoticeSent
    <3> QED
      BY <3>1, <3>3
  <2>3. ASSUME NEW g \in Gifters, g # giver
        PROVE  announced'[g] = announced[g] /\ single'[g] = single[g]
    BY <1>0, <2>1, <2>3
  <2>4. /\ announced'[giver].total = announced[giver].total
        /\ announced'[giver].due + single[giver] + 1 = announced[giver].due + single'[giver]
        /\ announced'[giver].due \in Nat /\ single'[giver] \in Nat
    BY <1>0, <2>1
  <2>5. ASSUME ~failed, NEW g \in Gifters
        PROVE  /\ (KeptCount("CommunitySub", g) + SentCount("CommunitySub", g) = announced[g].total)'
               /\ (KeptCount("GiftSub", g) + SentCount("GiftSub", g) + announced[g].due =
                      announced[g].total + single[g])'
    <3>1. /\ KeptCount("CommunitySub", g) + SentCount("CommunitySub", g) = announced[g].total
          /\ KeptCount("GiftSub", g) + SentCount("GiftSub", g) + announced[g].due =
                 announced[g].total + single[g]
      BY <2>5 DEF GiftSums, GiftsCounted
    <3>2. SentCount("CommunitySub", g)' = SentCount("CommunitySub", g)
      BY <1>0, <2>2
    <3>3. CASE g # giver
      <4>1. SentCount("GiftSub", g)' = SentCount("GiftSub", g)
        BY <1>0, <2>2, <3>3
      <4> QED
        BY <1>0, <2>2, <2>3, <3>1, <3>2, <3>3, <4>1
    <3>4. CASE g = giver
      <4>1. SentCount("GiftSub", g)' = SentCount("GiftSub", g) + 1
        BY <1>0, <2>2, <3>4
      <4>2. /\ KeptCount("GiftSub", g) \in Nat /\ SentCount("GiftSub", g) \in Nat
            /\ KeptCount("GiftSub", g)' = KeptCount("GiftSub", g)
            /\ KeptCount("CommunitySub", g)' = KeptCount("CommunitySub", g)
        BY <1>0, <2>2
      <4>3. /\ announced[g].due \in Nat /\ announced[g].total \in Nat /\ single[g] \in Nat
            /\ announced'[g].due \in Nat /\ single'[g] \in Nat
            /\ announced'[g].total = announced[g].total
            /\ announced'[g].due + single[g] + 1 = announced[g].due + single'[g]
        BY <1>0, <2>4, <3>4
      <4>4. KeptCount("CommunitySub", g)' + SentCount("CommunitySub", g)' = announced'[g].total
        BY <3>1, <3>2, <4>2, <4>3
      <4>5. KeptCount("GiftSub", g)' + SentCount("GiftSub", g)' + announced'[g].due =
                announced'[g].total + single'[g]
        <5>1. KeptCount("GiftSub", g)' + SentCount("GiftSub", g)' + announced'[g].due + single[g] =
                  (KeptCount("GiftSub", g) + SentCount("GiftSub", g) + announced[g].due) + single'[g]
          BY <4>1, <4>2, <4>3
        <5>2. KeptCount("GiftSub", g)' \in Nat /\ SentCount("GiftSub", g)' \in Nat
          BY <4>1, <4>2
        <5> QED
          BY <3>1, <4>3, <5>1, <5>2
      <4> QED
        BY <4>4, <4>5
    <3> QED
      BY <3>3, <3>4
  <2>6. GiftsCounted'
    BY <2>2, <2>5 DEF GiftsCounted
  <2> QED
    BY <2>2, <2>6 DEF GiftSums
<1>3. ASSUME NEW giver \in Gifters, NEW m \in 1..MaxGift, Subs!CommunityGift(h, giver, m)
      PROVE  GiftSums'
  <2>1. /\ Subs!Notice(h, "CommunitySub", FALSE, giver, m, announced[giver].total + single[giver] + m)
        /\ announced' = [announced EXCEPT ![giver] = [total |-> @.total + m, due |-> @.due + m]]
        /\ single' = single /\ "CommunitySub" \in Subs!Kinds /\ m \in Nat
    <3>1. m \in Nat
      BY SubscriptionsAssumption
    <3> QED
      BY <1>3, <3>1 DEF Subs!CommunityGift, Subs!Kinds
  <2>7. announced[giver].total + single[giver] + m \in Nat
    BY <1>0, <2>1
  <2>2. /\ IsFiniteSet(Busy') /\ GiftsWritten' /\ failed' = failed
        /\ \A type \in Subs!Gifted, g \in Gifters :
               /\ KeptCount(type, g)' = KeptCount(type, g)
               /\ KeptCount(type, g) \in Nat /\ SentCount(type, g) \in Nat
               /\ SentCount(type, g)' = SentCount(type, g) +
                      (IF "CommunitySub" = type /\ giver = g THEN m ELSE 0)
    <3>1. PICK kind, prime, count, total :
              /\ kind = "CommunitySub" /\ prime = FALSE /\ count = m
              /\ total = announced[giver].total + single[giver] + m
      OBVIOUS
    <3>2. /\ Subs!Notice(h, kind, prime, giver, count, total)
          /\ kind \in Subs!Kinds /\ prime \in BOOLEAN /\ giver \in Gifters \cup {Nobody}
          /\ count \in Nat /\ total \in Nat
      BY <2>1, <2>7, <3>1
    <3>3. /\ IsFiniteSet(Busy') /\ GiftsWritten' /\ failed' = failed
          /\ \A type \in Subs!Gifted, g \in Gifters :
                 /\ KeptCount(type, g)' = KeptCount(type, g)
                 /\ KeptCount(type, g) \in Nat /\ SentCount(type, g) \in Nat
                 /\ SentCount(type, g)' = SentCount(type, g) +
                        (IF kind = type /\ giver = g
                         THEN (IF kind = "CommunitySub" THEN count ELSE 1) ELSE 0)
      BY <3>2, NoticeSent
    <3> QED
      BY <3>1, <3>3
  <2>3. \A g \in Gifters : g # giver => announced'[g] = announced[g]
    BY <1>0, <2>1
  <2>4. /\ announced'[giver].total = announced[giver].total + m
        /\ announced'[giver].due = announced[giver].due + m
    BY <1>0, <2>1
  <2>5. ASSUME ~failed, NEW g \in Gifters
        PROVE  /\ (KeptCount("CommunitySub", g) + SentCount("CommunitySub", g) = announced[g].total)'
               /\ (KeptCount("GiftSub", g) + SentCount("GiftSub", g) + announced[g].due =
                      announced[g].total + single[g])'
    <3>1. /\ KeptCount("CommunitySub", g) + SentCount("CommunitySub", g) = announced[g].total
          /\ KeptCount("GiftSub", g) + SentCount("GiftSub", g) + announced[g].due =
                 announced[g].total + single[g]
      BY <2>5 DEF GiftSums, GiftsCounted
    <3>2. SentCount("GiftSub", g)' = SentCount("GiftSub", g)
      BY <1>0, <2>2
    <3>3. CASE g # giver
      <4>1. SentCount("CommunitySub", g)' = SentCount("CommunitySub", g)
        BY <1>0, <2>2, <3>3
      <4> QED
        BY <1>0, <2>1, <2>2, <2>3, <3>1, <3>2, <3>3, <4>1
    <3>4. CASE g = giver
      <4>1. SentCount("CommunitySub", g)' = SentCount("CommunitySub", g) + m
        BY <1>0, <2>2, <3>4
      <4>2. /\ KeptCount("GiftSub", g) \in Nat /\ SentCount("GiftSub", g) \in Nat
            /\ KeptCount("CommunitySub", g) \in Nat /\ SentCount("CommunitySub", g) \in Nat
            /\ KeptCount("GiftSub", g)' = KeptCount("GiftSub", g)
            /\ KeptCount("CommunitySub", g)' = KeptCount("CommunitySub", g)
        BY <1>0, <2>2
      <4>3. /\ announced[g].due \in Nat /\ announced[g].total \in Nat /\ single[g] \in Nat
            /\ announced'[g].total = announced[g].total + m
            /\ announced'[g].due = announced[g].due + m /\ single'[g] = single[g] /\ m \in Nat
        BY <1>0, <2>1, <2>4, <3>4
      <4>4. KeptCount("CommunitySub", g)' + SentCount("CommunitySub", g)' = announced'[g].total
        BY <3>1, <4>1, <4>2, <4>3
      <4>5. KeptCount("GiftSub", g)' + SentCount("GiftSub", g)' + announced'[g].due =
                announced'[g].total + single'[g]
        <5>1. KeptCount("GiftSub", g)' + SentCount("GiftSub", g)' + announced'[g].due =
                  (KeptCount("GiftSub", g) + SentCount("GiftSub", g) + announced[g].due) + m
          BY <3>2, <4>2, <4>3
        <5>2. announced'[g].total + single'[g] = (announced[g].total + single[g]) + m
          BY <4>3
        <5> QED
          BY <3>1, <5>1, <5>2
      <4> QED
        BY <4>4, <4>5
    <3> QED
      BY <3>3, <3>4
  <2>6. GiftsCounted'
    BY <2>2, <2>5 DEF GiftsCounted
  <2> QED
    BY <2>2, <2>6 DEF GiftSums
<1> QED
  BY <1>1, <1>2, <1>3

LEMMA ThankedSums ==
    ASSUME SubInv, SubInv', GiftSums, NEW h \in Handlers, Subs!Thanked(h)
    PROVE  GiftSums'
<1>1. /\ h \in Busy
      /\ handling' = [handling EXCEPT ![h].createdAt = stamp + 1,
                          ![h].at = IF handling[h].kind \in Subs!Gifted THEN "gift" ELSE "subscriber"]
      /\ UNCHANGED <<announced, gifts, subscribers, single, failed>>
  BY DEF Subs!Thanked, Subs!At, Subs!tables, Busy
<1>2. /\ handling'[h].kind = handling[h].kind /\ handling'[h].gifter = handling[h].gifter
      /\ handling'[h].count = handling[h].count /\ handling'[h].gift = handling[h].gift
      /\ handling'[h] \in Subs!Handled /\ \A j \in Handlers \ {h} : handling'[j] = handling[j]
  <2>1. /\ handling \in [Handlers -> Subs!Handled \cup {Free}] /\ handling[h] \in Subs!Handled
        /\ stamp + 1 \in Nat
    BY <1>1, HandlerTypes DEF SubInv, StampsCounted
  <2> QED
    BY <1>1, <2>1 DEF Subs!Handled
<1>3. handling'[h] # Free /\ Busy' = Busy
  BY <1>1, <1>2, SubscriptionsAssumption DEF Busy
<1>4. GiftsWritten'
  <2>1. ASSUME NEW j \in Busy
        PROVE  /\ handling'[j].gift = handling[j].gift /\ handling'[j].gifter = handling[j].gifter
               /\ Subs!GiftCount(handling'[j]) = Subs!GiftCount(handling[j])
    BY <1>2 DEF Subs!GiftCount, Busy
  <2>2. ASSUME NEW j \in Busy, handling'[j].gift # 0
        PROVE  gifts[handling'[j].gift] =
                   [gifter |-> handling'[j].gifter, giftCount |-> Subs!GiftCount(handling'[j])]
    BY <2>1, <2>2 DEF GiftSums, GiftsWritten
  <2> QED
    BY <1>1, <1>3, <2>2 DEF GiftsWritten, Subs!GiftCount
<1>5. \A type, g : SentCount(type, g)' = SentCount(type, g)
  BY <1>1, <1>2, <1>3, SentStays DEF GiftSums
<1>6. \A type, g : KeptCount(type, g)' = KeptCount(type, g)
  BY <1>1 DEF KeptCount, Subs!RecordsOf
<1>7. GiftsCounted'
  BY <1>1, <1>5, <1>6 DEF GiftSums, GiftsCounted
<1> QED
  BY <1>3, <1>4, <1>7 DEF GiftSums

\* A gift that is written belongs to no record yet.
LEMMA GiftCreatedSums ==
    ASSUME SubInv, SubInv', GiftSums, NEW h \in Handlers, Subs!GiftCreated(h)
    PROVE  GiftSums'
<1>0. PICK n, x : /\ n = Len(gifts) + 1
                  /\ x = [gifter |-> handling[h].gifter, giftCount |-> Subs!GiftCount(handling[h])]
  OBVIOUS
<1>1. /\ h \in Busy /\ gifts' = Append(gifts, x)
      /\ handling' = [handling EXCEPT ![h].gift = n, ![h].at = "subscriber"]
      /\ UNCHANGED <<announced, subscribers, single, failed>>
  BY <1>0 DEF Subs!GiftCreated, Subs!At, Busy
<1>2. /\ handling'[h].kind = handling[h].kind /\ handling'[h].gifter = handling[h].gifter
      /\ handling'[h].count = handling[h].count /\ handling'[h].gift = n
      /\ handling'[h] \in Subs!Handled /\ \A j \in Handlers \ {h} : handling'[j] = handling[j]
  <2>1. /\ handling \in [Handlers -> Subs!Handled \cup {Free}] /\ handling[h] \in Subs!Handled
        /\ n \in Nat
    BY <1>0, <1>1, HandlerTypes
  <2> QED
    BY <1>1, <2>1 DEF Subs!Handled
<1>3. handling'[h] # Free /\ Busy' = Busy
  BY <1>1, <1>2, SubscriptionsAssumption DEF Busy
<1>4. gifts'[n] = x /\ \A m \in DOMAIN gifts : gifts'[m] = gifts[m]
  BY <1>0, <1>1, HandlerTypes
<1>5. ASSUME NEW j \in Busy', handling'[j].gift # 0
      PROVE  gifts'[handling'[j].gift] =
                 [gifter |-> handling'[j].gifter, giftCount |-> Subs!GiftCount(handling'[j])]
  <2>1. CASE j = h
    BY <1>0, <1>2, <1>4, <2>1 DEF Subs!GiftCount
  <2>2. CASE j # h
    <3>1. handling'[j] = handling[j] /\ j \in Busy /\ handling[j].gift \in DOMAIN gifts
      BY <1>2, <1>3, <1>5, <2>2, HandlerTypes DEF Busy
    <3>2. gifts[handling[j].gift] =
              [gifter |-> handling[j].gifter, giftCount |-> Subs!GiftCount(handling[j])]
      BY <1>5, <3>1 DEF GiftSums, GiftsWritten
    <3> QED
      BY <1>4, <3>1, <3>2
  <2> QED
    BY <2>1, <2>2
<1>6. GiftsWritten'
  BY <1>5 DEF GiftsWritten, Subs!GiftCount
<1>7. \A type, g : SentCount(type, g)' = SentCount(type, g)
  BY <1>1, <1>2, <1>3, SentStays DEF GiftSums
<1>8. ASSUME NEW type \in Subs!Gifted, NEW g PROVE KeptCount(type, g)' = KeptCount(type, g)
  <2>1. PICK f, e, S : /\ f = [i \in DOMAIN subscribers |-> gifts[subscribers[i].gift].giftCount]
                       /\ e = [i \in DOMAIN subscribers |-> gifts'[subscribers[i].gift].giftCount]
                       /\ S = Subs!RecordsOf(type, g)
    OBVIOUS
  <2>2. \A i \in DOMAIN subscribers : subscribers[i].type = type =>
            subscribers[i].gift \in DOMAIN gifts
    <3>1. ASSUME NEW i \in DOMAIN subscribers, subscribers[i].type = type
          PROVE  subscribers[i].gift \in DOMAIN gifts
      <4>1. subscribers[i].gift # 0 /\ subscribers[i].gift \in 0..Len(gifts)
        BY <3>1 DEF SubInv, GiftsHaveTheirGiver, Subs!GiftsHaveTheirGiver
      <4> QED
        BY <4>1, HandlerTypes
    <3> QED
      BY <3>1
  <2>3. Subs!RecordsOf(type, g)' = S
    BY <1>1, <1>4, <2>1, <2>2 DEF Subs!RecordsOf
  <2>4. \A i \in S : e[i] = f[i]
    BY <1>4, <2>1, RecordsCounted
  <2>5. IsFiniteSet(S)
    BY <2>1, RecordsCounted
  <2>6. Total(e, S) = Total(f, S)
    BY ONLY <2>4, <2>5, TotalSame
  <2>7. KeptCount(type, g)' = Total(e, S)
    BY <1>1, <2>1, <2>3 DEF KeptCount
  <2> QED
    BY <2>1, <2>6, <2>7 DEF KeptCount
<1>9. GiftsCounted'
  BY <1>1, <1>7, <1>8 DEF GiftSums, GiftsCounted, Subs!Gifted
<1> QED
  BY <1>3, <1>6, <1>9 DEF GiftSums

\* A record takes over the share of the notice that its handler had.
LEMMA SubscriberCreatedSums ==
    ASSUME SubInv, SubInv', GiftSums, NEW h \in Handlers, Subs!SubscriberCreated(h)
    PROVE  GiftSums'
<1>0. PICK c, s, n : /\ c = handling[h] /\ n = Len(subscribers) + 1
                     /\ s = [type |-> Subs!TypeOf(c), isPrime |-> Subs!IsPrime(c),
                             gift |-> Subs!GiftOf(c), createdAt |-> c.createdAt, of |-> c.of]
  OBVIOUS
<1>1. /\ h \in Busy /\ c.at = "subscriber" /\ subscribers' = Append(subscribers, s)
      /\ handling' = [handling EXCEPT ![h] = Free]
      /\ UNCHANGED <<announced, gifts, single, failed>>
  BY <1>0 DEF Subs!SubscriberCreated, Subs!At, Busy
<1>2. /\ Busy' = Busy \ {h} /\ \A j \in Handlers \ {h} : handling'[j] = handling[j]
  BY <1>1, Freed
<1>3. IsFiniteSet(Busy')
  BY <1>2, FS_Subset DEF GiftSums
<1>4. GiftsWritten'
  <2>1. \A j \in Busy' : j \in Busy /\ handling'[j] = handling[j]
    BY <1>2 DEF Busy
  <2> QED
    BY <1>1, <2>1 DEF GiftSums, GiftsWritten, Subs!GiftCount
<1>5. /\ DOMAIN subscribers' = DOMAIN subscribers \cup {n} /\ n \notin DOMAIN subscribers
      /\ subscribers'[n] = s /\ \A i \in DOMAIN subscribers : subscribers'[i] = subscribers[i]
  BY <1>0, <1>1, HandlerTypes
<1>6. s.gift = c.gift /\ \A type \in Subs!Gifted : s.type = type <=> c.kind = type
  BY <1>0 DEF Subs!GiftOf, Subs!TypeOf, Subs!Gifted
<1>7. c.kind \in Subs!Gifted =>
          gifts[c.gift] = [gifter |-> c.gifter, giftCount |-> Subs!GiftCount(c)]
  <2>1. c.kind \in Subs!Gifted => c.gift # 0
    BY <1>0, <1>1 DEF SubInv, GiftsOnTheWay
  <2> QED
    BY <1>0, <1>1, <2>1 DEF GiftSums, GiftsWritten
<1>8. ASSUME NEW type \in Subs!Gifted, NEW g
      PROVE  /\ KeptCount(type, g)' + SentCount(type, g)' = KeptCount(type, g) + SentCount(type, g)
             /\ KeptCount(type, g) \in Nat /\ SentCount(type, g) \in Nat
             /\ KeptCount(type, g)' \in Nat /\ SentCount(type, g)' \in Nat
  <2>1. KeptCount(type, g) \in Nat /\ SentCount(type, g) \in Nat
    BY CountsNat DEF GiftSums
  <2>2. PICK share : share = Share(c, type, g)
    OBVIOUS
  <2>3. share \in Nat
    BY <1>0, <1>1, <2>2, ShareNat
  <2>4. SentCount(type, g) = SentCount(type, g)' + share /\ SentCount(type, g)' \in Nat
    <3>1. \E k \in Nat :
              /\ SentCount(type, g) = k + (IF h \in Busy THEN Share(handling[h], type, g) ELSE 0)
              /\ SentCount(type, g)' = k + (IF h \in Busy' THEN Share(handling[h], type, g)' ELSE 0)
      BY <1>2, SentChanges DEF GiftSums
    <3>2. Share(handling[h], type, g) = share
      BY <1>0, <2>2
    <3> QED
      BY <1>1, <1>2, <2>3, <3>1, <3>2
  <2>5. KeptCount(type, g)' = KeptCount(type, g) + share
    <3>1. PICK S, T, f, e :
              /\ S = Subs!RecordsOf(type, g) /\ T = Subs!RecordsOf(type, g)'
              /\ f = [i \in DOMAIN subscribers |-> gifts[subscribers[i].gift].giftCount]
              /\ e = [i \in DOMAIN subscribers |-> gifts[subscribers[i].gift].giftCount]'
      OBVIOUS
    <3>2. T = S \cup {i \in {n} : s.type = type /\ gifts[s.gift].gifter = g}
      BY <1>1, <1>5, <3>1 DEF Subs!RecordsOf
    <3>3. /\ n \notin S /\ IsFiniteSet(S) /\ S \subseteq DOMAIN subscribers
          /\ \A i \in S : f[i] \in Nat
      BY <1>5, <3>1, RecordsCounted
    <3>4. \A i \in S : e[i] = f[i]
      BY <1>1, <1>5, <3>1, <3>3
    <3>5. e[n] = gifts[c.gift].giftCount
      BY <1>1, <1>5, <1>6, <3>1
    <3>6. Total(e, S) = Total(f, S)
      BY ONLY <3>3, <3>4, TotalSame
    <3>7. KeptCount(type, g) = Total(f, S) /\ KeptCount(type, g)' = Total(e, T)
      BY <3>1 DEF KeptCount
    <3>8. CASE c.kind = type /\ c.gifter = g
      <4>1. T = S \cup {n} /\ e[n] = share
        BY <1>6, <1>7, <2>2, <3>2, <3>5, <3>8 DEF Share
      <4>2. IsFiniteSet(T) /\ n \in T /\ T \ {n} = S
        BY <3>3, <4>1, FS_AddElement
      <4>3. \A i \in T : e[i] \in Nat
        BY <2>3, <3>3, <3>4, <4>1
      <4>4. Total(e, T) = e[n] + Total(e, T \ {n})
        BY ONLY <4>2, <4>3, TotalStep
      <4> QED
        BY <2>1, <2>3, <3>6, <3>7, <4>1, <4>2, <4>4
    <3>9. CASE ~(c.kind = type /\ c.gifter = g)
      <4>1. ~(s.type = type /\ gifts[s.gift].gifter = g)
        BY <1>6, <1>7, <3>9
      <4>2. T = S /\ share = 0
        BY <2>2, <3>2, <3>9, <4>1 DEF Share
      <4> QED
        BY <2>1, <3>6, <3>7, <4>2
    <3> QED
      BY <3>8, <3>9
  <2> QED
    BY <2>1, <2>3, <2>4, <2>5
<1>9. ASSUME ~failed, NEW g \in Gifters
      PROVE  /\ (KeptCount("CommunitySub", g) + SentCount("CommunitySub", g) = announced[g].total)'
             /\ (KeptCount("GiftSub", g) + SentCount("GiftSub", g) + announced[g].due =
                    announced[g].total + single[g])'
  <2>1. /\ KeptCount("CommunitySub", g) + SentCount("CommunitySub", g) = announced[g].total
        /\ KeptCount("GiftSub", g) + SentCount("GiftSub", g) + announced[g].due =
               announced[g].total + single[g]
    BY <1>9 DEF GiftSums, GiftsCounted
  <2>2. "CommunitySub" \in Subs!Gifted /\ "GiftSub" \in Subs!Gifted
    BY DEF Subs!Gifted
  <2>3. /\ KeptCount("CommunitySub", g)' + SentCount("CommunitySub", g)' =
               KeptCount("CommunitySub", g) + SentCount("CommunitySub", g)
        /\ KeptCount("GiftSub", g)' + SentCount("GiftSub", g)' =
               KeptCount("GiftSub", g) + SentCount("GiftSub", g)
    BY <1>8, <2>2
  <2> QED
    BY <1>1, <2>1, <2>3
<1>10. GiftsCounted'
  BY <1>1, <1>9 DEF GiftsCounted
<1> QED
  BY <1>3, <1>4, <1>10 DEF GiftSums

LEMMA RejectsSums ==
    ASSUME SubInv, GiftSums, NEW h \in Handlers, Subs!Rejects(h)
    PROVE  GiftSums'
<1>1. /\ h \in Busy /\ handling' = [handling EXCEPT ![h] = Free] /\ failed' = TRUE
      /\ UNCHANGED <<gifts, subscribers>>
  BY DEF Subs!Rejects, Subs!tables, Busy
<1>2. /\ Busy' = Busy \ {h} /\ \A j \in Handlers \ {h} : handling'[j] = handling[j]
  BY <1>1, Freed
<1>3. IsFiniteSet(Busy')
  BY <1>2, FS_Subset DEF GiftSums
<1>4. \A j \in Busy' : j \in Busy /\ handling'[j] = handling[j]
  BY <1>2 DEF Busy
<1> QED
  BY <1>1, <1>3, <1>4 DEF GiftSums, GiftsWritten, GiftsCounted, Subs!GiftCount

LEMMA GiftSumsStep ==
    ASSUME SubInv, SubInv', GiftSums, [Subs!Next]_subVars
    PROVE  GiftSums'
<1>1. CASE Subs!Next
  <2>1. PICK h \in Handlers :
            \/ \E kind \in {"ReSub", "Extend"}, prime \in BOOLEAN : Subs!Subscribed(h, kind, prime)
            \/ Subs!Subscribed(h, "NewSub", FALSE) \/ Subs!Subscribed(h, "PrimeSub", TRUE)
            \/ \E g \in Gifters : \/ Subs!GiftReceived(h, g)
                                 \/ \E n \in 1..MaxGift : Subs!CommunityGift(h, g, n)
            \/ Subs!Thanked(h) \/ Subs!GiftCreated(h) \/ Subs!SubscriberCreated(h) \/ Subs!Rejects(h)
    BY <1>1 DEF Subs!Next
  <2>2. CASE Subs!Subscribed(h, "NewSub", FALSE) \/ Subs!Subscribed(h, "PrimeSub", TRUE)
             \/ \E kind \in {"ReSub", "Extend"}, prime \in BOOLEAN : Subs!Subscribed(h, kind, prime)
    <3>1. \E kind \in {"NewSub", "PrimeSub", "ReSub", "Extend"}, prime \in BOOLEAN :
              Subs!Subscribed(h, kind, prime)
      BY <2>2
    <3> QED
      BY <3>1, NoticesCounted
  <2>3. CASE \E g \in Gifters : \/ Subs!GiftReceived(h, g)
                                \/ \E n \in 1..MaxGift : Subs!CommunityGift(h, g, n)
    BY <2>3, NoticesCounted
  <2> QED
    BY <2>1, <2>2, <2>3, ThankedSums, GiftCreatedSums, SubscriberCreatedSums, RejectsSums
<1>2. CASE UNCHANGED subVars
  <2>1. \A type, g : /\ KeptCount(type, g)' = KeptCount(type, g)
                     /\ SentCount(type, g)' = SentCount(type, g)
    BY <1>2 DEF subVars, KeptCount, SentCount, Share, Subs!RecordsOf, Subs!GiftCount, Busy
  <2> QED
    BY <1>2, <2>1 DEF subVars, GiftSums, GiftsWritten, GiftsCounted, Subs!GiftCount, Busy
<1> QED
  BY <1>1, <1>2

\* What GiftsAddUp adds up is a KeptCount.
LEMMA GiftsAdd ==
    ASSUME SubInv, NEW type \in Subs!Gifted, NEW g
    PROVE  Subs!CountOf(type, g) = KeptCount(type, g)
<1> DEFINE M == Subs!RecordsOf(type, g)
           f == [i \in DOMAIN subscribers |-> gifts[subscribers[i].gift].giftCount]
           Adds(it) == it = [u \in SUBSET M |-> IF u = {} THEN 0
               ELSE gifts[subscribers[CHOOSE x \in u : TRUE].gift].giftCount
                        + it[u \ {CHOOSE x \in u : TRUE}]]
<1>1. IsFiniteSet(M) /\ M \subseteq DOMAIN subscribers
  BY RecordsCounted
<1>2. \A u \in SUBSET M : u # {} =>
          /\ f[CHOOSE x \in u : TRUE] = gifts[subscribers[CHOOSE x \in u : TRUE].gift].giftCount
          /\ u \ {CHOOSE x \in u : TRUE} \in SUBSET M
  BY <1>1
<1> HIDE DEF f, M
<1>3. \A it : Adds(it) <=> IsSum(it, f, M)
  <2>1. ASSUME NEW it, Adds(it) PROVE IsSum(it, f, M)
    <3>1. DOMAIN it = SUBSET M /\ {} \in SUBSET M
      BY <2>1
    <3>2. it = [u \in SUBSET M |-> it[u]]
      BY <2>1
    <3>3. it[{}] = 0
      BY <2>1, <3>1
    <3>4. \A u \in SUBSET M : u # {} =>
              it[u] = gifts[subscribers[CHOOSE x \in u : TRUE].gift].giftCount
                          + it[u \ {CHOOSE x \in u : TRUE}]
      BY <2>1
    <3> QED
      BY <1>2, <3>2, <3>3, <3>4 DEF IsSum
  <2>2. ASSUME NEW it, IsSum(it, f, M) PROVE Adds(it)
    <3>1. /\ it = [u \in SUBSET M |-> it[u]] /\ it[{}] = 0
          /\ \A u \in SUBSET M : u # {} =>
                 it[u] = gifts[subscribers[CHOOSE x \in u : TRUE].gift].giftCount
                             + it[u \ {CHOOSE x \in u : TRUE}]
      BY <1>2, <2>2 DEF IsSum
    <3>2. \A u \in SUBSET M : it[u] = IF u = {} THEN 0
              ELSE gifts[subscribers[CHOOSE x \in u : TRUE].gift].giftCount
                       + it[u \ {CHOOSE x \in u : TRUE}]
      BY <3>1
    <3> QED
      BY <3>1, <3>2
  <2> QED
    BY <2>1, <2>2
<1>4. PICK it : Adds(it)
  <2> HIDE DEF Adds
  <2>1. PICK it : IsSum(it, f, M)
    BY <1>1, SumsExist
  <2> QED
    BY <1>3, <2>1
<1>5. Adds(CHOOSE jt : Adds(jt))
  BY <1>4
<1>6. (CHOOSE jt : Adds(jt))[M] = Total(f, M)
  <2> HIDE DEF Adds
  <2> QED
    BY <1>1, <1>3, <1>5, TotalIs
<1> QED
  BY <1>6 DEF M, f, KeptCount, Subs!CountOf, Subs!MapThenSumSet, Subs!MapThenFoldSet

\* With nothing on its way, the records of a gifter add up.
LEMMA RecordsAddUp == SubInv /\ GiftSums => GiftsAddUp
<1> SUFFICES ASSUME SubInv, GiftSums, \A h \in Handlers : handling[h] = Free, ~failed,
                    NEW g \in Gifters, announced[g].due = 0
             PROVE  Subs!CountOf("GiftSub", g) = Subs!CountOf("CommunitySub", g) + single[g]
  BY DEF GiftsAddUp, Subs!GiftsAddUp
<1>1. Busy = {}
  BY DEF Busy
<1>2. SentCount("CommunitySub", g) = 0 /\ SentCount("GiftSub", g) = 0
  BY <1>1, TotalEmpty DEF SentCount
<1>3. "CommunitySub" \in Subs!Gifted /\ "GiftSub" \in Subs!Gifted
  BY DEF Subs!Gifted
<1>4. /\ KeptCount("CommunitySub", g) \in Nat /\ KeptCount("GiftSub", g) \in Nat
      /\ announced[g].total \in Nat /\ single[g] \in Nat
  BY <1>3, CountsNat, HandlerTypes DEF GiftSums
<1>5. /\ KeptCount("CommunitySub", g) + SentCount("CommunitySub", g) = announced[g].total
      /\ KeptCount("GiftSub", g) + SentCount("GiftSub", g) + announced[g].due =
             announced[g].total + single[g]
  BY DEF GiftSums, GiftsCounted
<1>6. KeptCount("GiftSub", g) = KeptCount("CommunitySub", g) + single[g]
  BY <1>2, <1>4, <1>5
<1> QED
  BY <1>3, <1>6, GiftsAdd

-----------------------------------------------------------------------------
(* All of it.                                                              *)

RecordsInv ==
    GreetInv /\ DeathInv /\ RowsAddUp /\ SubInv /\ GiftSums /\ DeployInv /\ age \in Nat

LEMMA InitRecordsInv == RecordsInit => RecordsInv
<1> SUFFICES ASSUME RecordsInit PROVE RecordsInv
  OBVIOUS
<1>1. GreetInv /\ DeathInv /\ RowsAddUp /\ SubInv /\ GiftSums /\ DeployInv
  BY InitGreetInv, InitDeathInv, InitRowsAddUp, InitSubInv, InitGiftSums, InitDeployInv
  DEF RecordsInit
<1>2. age \in Nat
  <2>1. \A d \in 0..MaxDays, m \in {0, 59, 60, 1439} : d * 1440 + m \in Nat
    BY AgesAssumption
  <2> QED
    BY <2>1 DEF RecordsInit, AgesTold
<1> QED
  BY <1>1, <1>2 DEF RecordsInv

LEMMA StepRecordsInv ==
    ASSUME RecordsInv, [RecordsNext]_allVars
    PROVE  RecordsInv'
<1>1. [Next]_vars /\ [Deaths!Next]_deathVars /\ [Subs!Next]_subVars /\ [Deploy!Next]_deployVars
      /\ age' = age
  BY DEF RecordsNext, allVars
<1> QED
  BY <1>1, GreetStep, DeathStep, RowsAddUpStep, SubStep, GiftSumsStep, DeployStep DEF RecordsInv

LEMMA RecordsInvariant == RecordsSpec => []RecordsInv
<1>1. RecordsInv /\ [RecordsNext]_allVars => RecordsInv'
  BY StepRecordsInv
<1> QED
  BY InitRecordsInv, <1>1, PTL DEF RecordsSpec

\* Every state of what is recorded is of the declared types: a call in flight refers
\* to a row there is, a gift has a giver's name, and a script that runs has its steps.
THEOREM RecordsTyped == RecordsSpec => []RecordsTypeOK
<1>1. RecordsInv => RecordsTypeOK
  BY DEF RecordsInv, GreetInv, DeathInv, SubInv, DeployInv, RecordsTypeOK
<1> QED
  BY RecordsInvariant, <1>1, PTL

\* 'First' is said once of a stream and game, over any number of crashes, failed
\* queries and cooldowns, unless calls of !death raced there.
THEOREM FirstOnce == RecordsSpec => []FirstSaidOnce
<1>1. RecordsInv => FirstSaidOnce
  BY DEF RecordsInv, DeathInv, Unraced, FirstSaidOnce, Deaths!FirstSaidOnce
<1> QED
  BY RecordsInvariant, <1>1, PTL

\* !lastdeathcount tells of the latest earlier stream with a death, unless a call
\* inserted its row after its stream was over.
THEOREM LastStreamTold == RecordsSpec => []LastStreamIsPrevious
<1>1. RecordsInv => LastStreamIsPrevious
  BY OrderTells DEF RecordsInv
<1> QED
  BY RecordsInvariant, <1>1, PTL

\* A recorded gift has a giver of its own, and while nothing failed a giver without a
\* recorded gift has a handler on its way, for any number of notices handled at once.
THEOREM GiftsGiven == RecordsSpec => []GiftsHaveTheirGiver
<1>1. RecordsInv => GiftsHaveTheirGiver
  BY DEF RecordsInv, SubInv
<1> QED
  BY RecordsInvariant, <1>1, PTL

\* !lastsub tells of the latest notice while they come one by one.
THEOREM LastSubTold == RecordsSpec => []LastSubIsLatest
<1>1. RecordsInv => LastSubIsLatest
  BY LatestIsLast DEF RecordsInv
<1> QED
  BY RecordsInvariant, <1>1, PTL

\* Whatever calls of !death race, the rows of a stream and game never count more deaths
\* than were recorded; where no calls raced there is one row, which counts them all.
THEOREM CountsTrue == RecordsSpec => []CountsAgree
<1>1. RecordsInv => CountsAgree
  BY NeverMore DEF RecordsInv
<1> QED
  BY RecordsInvariant, <1>1, PTL

\* The gifts recorded one by one add up with the community gifts they are part of, in
\* whatever order the handlers were done, as long as none failed.
THEOREM GiftsTrue == RecordsSpec => []GiftsAddUp
<1>1. RecordsInv => GiftsAddUp
  BY RecordsAddUp DEF RecordsInv
<1> QED
  BY RecordsInvariant, <1>1, PTL

\* The dump that a failing migration is undone with has every write of the bot.
THEOREM RestorePoint == RecordsSpec => []RestorePointIsComplete
<1>1. DeployInv => RestorePointIsComplete
  BY DEF DeployInv, DumpIsLast, RestorePointIsComplete, Deploy!RestorePointIsComplete
<1>2. RecordsInv => RestorePointIsComplete
  BY <1>1 DEF RecordsInv
<1> QED
  BY RecordsInvariant, <1>2, PTL

\* Whatever commands, crashes and failures a database comes from, the migration that
\* is due can run on it, unless the renaming was cut off before its record.
THEOREM PendingRuns == RecordsSpec => []PendingCanRun
<1>1. ASSUME DeployInv, step = "run", Deploy!PendingMigrations # {}, ~torn
      PROVE  Deploy!Runs(Deploy!Min(Deploy!PendingMigrations))
  <2> USE DEF Deploy!SeedData, Deploy!SnakeCase
  <2>1. PICK k \in 0..4 :
            /\ db.meta = 1..k
            /\ k \in {1, 2} => db.names = {"camel"}
            /\ k = 3 => db.names \in {{"camel"}, {"snake"}}
    BY <1>1 DEF DeployInv, Shapes, Shape
  <2>2. Deploy!Min(Deploy!PendingMigrations) = k + 1 /\ k < 4
    BY <1>1, <2>1, OldestPending DEF DeployInv
  <2>3. CASE k \in {0, 2}
    BY <2>2, <2>3 DEF Deploy!Runs
  <2>4. CASE k = 1
    BY <2>1, <2>2, <2>4 DEF Deploy!Runs
  <2>5. CASE k = 3
    <3>1. ~Deploy!Torn(db)
      BY <1>1 DEF DeployInv, RecordDue
    <3>2. db.names = {"camel"}
      BY <2>1, <2>5, <3>1 DEF Deploy!Torn
    <3> QED
      BY <2>2, <2>5, <3>2 DEF Deploy!Runs
  <2> QED
    BY <2>2, <2>3, <2>4, <2>5
<1>2. RecordsInv => PendingCanRun
  BY <1>1 DEF RecordsInv, PendingCanRun, Deploy!PendingCanRun
<1> QED
  BY RecordsInvariant, <1>2, PTL

\* No migration and no restore brings a removed response back: only the bot's own add.
THEOREM RemovalsStay == RecordsSpec => RemovedStaysRemoved
<1>1. RecordsInv /\ [RecordsNext]_allVars =>
          [\A p \in Pairs :
               db.pair[p] = "removed" /\ db'.pair[p] = "present" =>
                   Deploy!ResponseAdded(p)]_(Deploy!vars)
  <2>1. [RecordsNext]_allVars => [Deploy!Next]_deployVars
    BY DEF RecordsNext, allVars
  <2> QED
    BY <2>1, RemovalStep DEF RecordsInv
<1> QED
  BY RecordsInvariant, <1>1, PTL DEF RecordsSpec, RemovedStaysRemoved, Deploy!RemovedStaysRemoved

\* The parts of an age of any number of minutes add up to it, short of a day at most.
THEOREM AgesTrue == RecordsSpec => []AgesAddUp
<1>1. RecordsInv => AgesAddUp
  BY AgesCorrect DEF RecordsInv
<1> QED
  BY RecordsInvariant, <1>1, PTL
=============================================================================
