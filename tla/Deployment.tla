------------------------------- MODULE Deployment -------------------------------
(***************************************************************************)
(* deployment/production/database.sh, which changes the database's schema: *)
(* backup, migrate and fresh, over the migrations that sequelize-cli runs. *)
(* Any step can fail or be cut off, and nothing cleans up after it.        *)
(*                                                                         *)
(* A migration's own transaction and its record in SequelizeMeta are two   *)
(* steps.  The operator follows docs/production-database.md.               *)
(***************************************************************************)
EXTENDS Naturals, FiniteSetsExt

CONSTANTS
    Pairs,      \* command/variant pairs of the seed data
    Tags,       \* the images: the number of migrations each has
    MaxWrites,  \* bound
    None        \* no dump

Baseline == 1
SeedData == 2
DropRaiders == 3
SnakeCase == 4
Migrations == Baseline..SnakeCase

VARIABLES
    db,         \* the database
    app,        \* the bot runs
    step,       \* the script's next step, or how it ended
    script,     \* its command, IMAGE_TAG and whether a dump was given
    dump,       \* the dump it was given, or took last
    written,    \* history: the bot's writes to the data that db holds
    torn        \* history: db, or what it was restored from, is torn

vars == <<db, app, step, script, dump, written, torn>>

\* names: under which names the tables are there.  meta: what SequelizeMeta has,
\* once there is one.
Database == [names : SUBSET {"camel", "snake"}, raiders : BOOLEAN,
             meta : SUBSET Migrations, metaTable : BOOLEAN,
             writes : 0..MaxWrites, pair : [Pairs -> {"absent", "present", "removed"}]]
Active == {"stop", "dump", "restore", "run", "record"}

Empty == [names |-> {}, raiders |-> FALSE, meta |-> {}, metaTable |-> FALSE,
          writes |-> 0, pair |-> [p \in Pairs |-> "absent"]]

\* The renaming was committed and not recorded.
Torn(d) == "snake" \in d.names /\ SnakeCase \notin d.meta

TypeOK ==
    /\ db \in Database /\ dump \in Database \cup {None}
    /\ app \in BOOLEAN /\ torn \in BOOLEAN /\ written \in 0..MaxWrites
    /\ step \in Active \cup {"none", "done", "failed"}
    /\ script \in [command : {"migrate", "fresh"}, tag : Tags, given : BOOLEAN, own : BOOLEAN]

\* A database that the app built before there were migrations, or none.
Init ==
    /\ \E pair \in [Pairs -> {"absent", "present", "removed"}] :
           db \in {Empty, [Empty EXCEPT !.names = {"camel"}, !.raiders = TRUE, !.pair = pair]}
    /\ app = (db # Empty) /\ step = "none" /\ dump = None
    /\ script = [command |-> "migrate", tag |-> Max(Tags), given |-> FALSE, own |-> FALSE]
    /\ written = 0 /\ torn = FALSE

-----------------------------------------------------------------------------
(* The bot and the operator.                                               *)

AppWrites ==
    /\ app /\ db.writes < MaxWrites
    /\ db' = [db EXCEPT !.writes = @ + 1] /\ written' = written + 1
    /\ UNCHANGED <<app, step, script, dump, torn>>

\* The command, or the variant, is removed: its rows stay, marked.
ResponseRemoved(p) ==
    /\ app /\ db.pair[p] = "present"
    /\ db' = [db EXCEPT !.pair[p] = "removed"]
    /\ UNCHANGED <<app, step, script, dump, written, torn>>

\* A text is added to the pair, which takes a marked row back, or the removal is undone.
ResponseAdded(p) ==
    /\ app /\ db.pair[p] # "present"
    /\ db' = [db EXCEPT !.pair[p] = "present"]
    /\ UNCHANGED <<app, step, script, dump, written, torn>>

\* After a success, docker compose up -d.
AppStarts ==
    /\ ~app /\ step = "done" /\ app' = TRUE
    /\ UNCHANGED <<db, step, script, dump, written, torn>>

\* After a failure the database is dropped and created again.
Recreated ==
    /\ step = "failed" /\ ~app /\ db # Empty
    /\ db' = Empty /\ written' = 0 /\ torn' = FALSE
    /\ UNCHANGED <<app, step, script, dump>>

\* backup, at any time.
Backup ==
    /\ step \notin Active
    /\ dump' = db /\ script' = [script EXCEPT !.own = FALSE]
    /\ UNCHANGED <<db, app, step, written, torn>>

-----------------------------------------------------------------------------
(* The script.                                                             *)

Begins(command, tag, given) ==
    /\ step \notin Active /\ step' = "stop"
    /\ given => dump # None
    /\ script' = [command |-> command, tag |-> tag, given |-> given, own |-> FALSE]
    /\ UNCHANGED <<db, app, dump, written, torn>>

MigrateBegins(tag, given) == Begins("migrate", tag, given)

\* fresh refuses a database with any table, SequelizeMeta too.
FreshBegins(tag, given) == db = Empty /\ Begins("fresh", tag, given)

AfterStop ==
    IF script.command = "fresh" THEN "restore" ELSE IF script.given THEN "run" ELSE "dump"

NothingStops ==
    /\ step = "stop"
    /\ step' = AfterStop
    /\ UNCHANGED <<db, app, script, dump, written, torn>>

\* compose stop app, before the dump.
AppStopped ==
    /\ step = "stop" /\ app' = FALSE
    /\ step' = AfterStop
    /\ UNCHANGED <<db, script, dump, written, torn>>

Dumped ==
    /\ step = "dump" /\ step' = "run"
    /\ dump' = db /\ script' = [script EXCEPT !.own = TRUE]
    /\ UNCHANGED <<db, app, written, torn>>

\* One transaction: all of the dump or nothing.
Restored ==
    /\ step = "restore" /\ step' = "run"
    /\ db' = IF script.given THEN dump ELSE db
    /\ written' = db'.writes
    /\ torn' = Torn(db')
    /\ UNCHANGED <<app, script, dump>>

\* A command fails, or the script is killed.
Fails ==
    /\ step \in Active /\ step' = "failed"
    /\ torn' = (torn \/ (step = "record" /\ Torn(db)))
    /\ UNCHANGED <<db, app, script, dump, written>>

-----------------------------------------------------------------------------
(* db:migrate.                                                             *)

PendingMigrations == (1..script.tag) \ db.meta

\* Creates what is missing, under the first names.
CreateTables(d) == [d EXCEPT !.names = @ \cup {"camel"}, !.raiders = TRUE]

SeedsRemoved(d) == [d EXCEPT !.pair = [p \in Pairs |-> "present"]]

\* Inserts the pairs that have no row at all.
Seeds(d) == [d EXCEPT !.pair = [p \in Pairs |-> IF @[p] = "absent" THEN "present" ELSE @[p]]]

DropTableRaiders(d) == [d EXCEPT !.raiders = FALSE]

\* Renames every table, column and constraint.
Rename(d) == [d EXCEPT !.names = {"snake"}]

RunsOnce(m) ==
    CASE m = Baseline  -> db.names = {}
      [] m = SeedData  -> "camel" \in db.names
      [] m = SnakeCase -> db.names = {"camel"}
      [] OTHER         -> TRUE

\* Whether the statements of a migration succeed.  The seed data is written under
\* the first names, and the renaming needs all of those and none of the new ones.
Runs(m) ==
    CASE m = SeedData  -> "camel" \in db.names
      [] m = SnakeCase -> db.names = {"camel"}
      [] OTHER         -> TRUE

Up(m, d) ==
    CASE m = Baseline    -> CreateTables(d)
      [] m = SeedData    -> Seeds(d)
      [] m = DropRaiders -> DropTableRaiders(d)
      [] m = SnakeCase   -> Rename(d)

\* The oldest pending migration commits.
Migrated ==
    /\ step = "run" /\ PendingMigrations # {} /\ Runs(Min(PendingMigrations))
    /\ step' = "record"
    /\ db' = Up(Min(PendingMigrations), [db EXCEPT !.metaTable = TRUE])
    /\ UNCHANGED <<app, script, dump, written, torn>>

Recorded ==
    /\ step = "record" /\ step' = "run"
    /\ db' = [db EXCEPT !.meta = @ \cup {Min(PendingMigrations)}]
    /\ UNCHANGED <<app, script, dump, written, torn>>

AllMigrated ==
    /\ step = "run" /\ PendingMigrations = {} /\ step' = "done"
    /\ UNCHANGED <<db, app, script, dump, written, torn>>

-----------------------------------------------------------------------------

Next ==
    \/ AppWrites \/ AppStarts \/ Recreated \/ Backup
    \/ \E p \in Pairs : ResponseRemoved(p) \/ ResponseAdded(p)
    \/ \E tag \in Tags, given \in BOOLEAN : MigrateBegins(tag, given) \/ FreshBegins(tag, given)
    \/ AppStopped \/ Dumped \/ Restored \/ Fails
    \/ Migrated \/ Recorded \/ AllMigrated

Spec == Init /\ [][Next]_vars

-----------------------------------------------------------------------------
(* Properties.                                                             *)

\* database.sh:111 "Nothing may write between the dump and the migration": wherever
\* migrate runs or has failed after its own dump, that dump has every write of the bot.
RestorePointIsComplete ==
    script.own /\ step \in {"run", "record", "failed"} /\ db # Empty => dump.writes = written

\* production-database.md:70: a database that is migrated, or restored from a restore
\* point and migrated, does not get stuck at a migration that was run before, unless
\* the renaming was cut off before its record.
PendingCanRun == step = "run" /\ PendingMigrations # {} /\ ~torn => Runs(Min(PendingMigrations))

\* 20261014115000-baseline-seed-data.js:6 "removed responses are not restored": whatever
\* is restored, migrated or migrated again, only the bot gives a removed response back.
RemovedStaysRemoved ==
    [][\A p \in Pairs :
           db.pair[p] = "removed" /\ db'.pair[p] = "present" => ResponseAdded(p)]_vars
=============================================================================
