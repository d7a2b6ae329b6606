------------------------------ MODULE DatabaseOps ------------------------------
(***************************************************************************)
(* database: the commands of DbOpsService, DbMigrateService and            *)
(* SeedService over several connections, one after the other; each query   *)
(* may fail and ends the command, or not.  Only clearing tables and the    *)
(* seeds of connections that ask for it run side by side, and then go on   *)
(* after the command has failed.  The factories of a seeder write to the   *)
(* one connection that is kept in a global.                                *)
(***************************************************************************)
EXTENDS Integers, Sequences, FiniteSets, FiniteSetsExt, SequencesExt

CONSTANTS
    Connections,    \* the connections are 1 .. Connections, in order
    Migrations,     \* numbers, in the order of their time stamps
    Selections,     \* what may be selected: None, or per connection a set
    Confs,          \* per connection [schema, database, named, async, seeds]: driver.schema and
                    \* options.database are set, either or the connection's name gives a dbName
    CallsMax,       \* bound: commands given
    None

VARIABLES
    conf,
    db,         \* per connection [there, migrated, ran, lost, rows]: what is recorded, how often
                \* each migration ran, those left without a record, how often each seeder wrote
    op,         \* the command: [kind, how, at, todo, clean, state]
    work,       \* what runs side by side: [of, db, at]: -1 clear, 0 prepare, or a seeder
    conn,       \* TypeORM_Seeding_Connection, or None
    calls

vars == <<conf, db, op, work, conn, calls>>

Dbs == 1 .. Connections
Seeders == UNION {{<<d, k>> : k \in 1 .. conf[d].seeds} : d \in Dbs}

Empty == [there |-> TRUE, migrated |-> <<>>, ran |-> [m \in Migrations |-> 0], lost |-> {},
          rows |-> [s \in Seeders |-> 0]]

Init ==
    /\ conf \in Confs
    /\ db = [d \in Dbs |-> Empty]
    /\ op = [kind |-> "none", how |-> None, at |-> 1, todo |-> None, clean |-> TRUE, state |-> "ok"]
    /\ work = {} /\ conn = None /\ calls = 0

-----------------------------------------------------------------------------

Doing(kind) == op.state = "runs" /\ op.kind = kind
Fails == op' = [op EXCEPT !.state = "failed"]
Forward == op' = [op EXCEPT !.at = @ + 1, !.todo = None, !.state = IF op.at = Connections THEN "ok" ELSE @]

Seeded(d) == conf[d].database /\ conf[d].seeds > 0
Mine == {w \in work : w.of = calls}

\* With reseed, the tables of all databases that have seeds are cleared at once.
Start(kind, how) ==
    /\ op.state # "runs" /\ calls < CallsMax
    /\ LET clear == {d \in Dbs : kind = "seed" /\ how /\ Seeded(d)}
       IN  /\ op' = [kind |-> IF kind = "seed" THEN "clear" ELSE kind, how |-> how, at |-> 1,
                     todo |-> None, clean |-> work = {}, state |-> "runs"]
           /\ work' = work \cup {[of |-> calls + 1, db |-> d, at |-> -1] : d \in clear}
           /\ conn' = IF clear = {} THEN conn ELSE None
    /\ calls' = calls + 1
    /\ UNCHANGED <<conf, db>>

\* A connection without a schema is skipped.
Create ==
    /\ Doing("create")
    /\ \/ db' = [db EXCEPT ![op.at].there = @ \/ conf[op.at].schema] /\ Forward
       \/ conf[op.at].schema /\ Fails /\ UNCHANGED db
    /\ UNCHANGED <<conf, work, conn, calls>>

Drop ==
    /\ Doing("drop")
    /\ \/ /\ db' = IF conf[op.at].schema THEN [db EXCEPT ![op.at] = [Empty EXCEPT !.there = FALSE]] ELSE db
          /\ Forward
       \/ conf[op.at].schema /\ Fails /\ UNCHANGED db
    /\ UNCHANGED <<conf, work, conn, calls>>

\* A failure is only thrown when that is asked for.
Sync ==
    /\ Doing("sync")
    /\ \/ /\ db[op.at].there
          /\ db' = IF op.how.drop THEN [db EXCEPT ![op.at] = Empty] ELSE db
          /\ Forward
       \/ (IF op.how.throws THEN Fails ELSE Forward) /\ UNCHANGED db
    /\ UNCHANGED <<conf, work, conn, calls>>

-----------------------------------------------------------------------------
(* Migrations.                                                             *)

\* A selection says nothing of a connection without a name: all is executed.
Chosen(d) == IF op.how = None \/ ~conf[d].named THEN Migrations ELSE op.how[d]

\* Mutant: what was executed before is not looked at.
PendingOfAll(d) == Migrations

Pending(d) == Migrations \ ToSet(db[d].migrated)

Look ==
    /\ Doing("migrate") /\ op.todo = None
    /\ \/ db[op.at].there /\ op' = [op EXCEPT !.todo = Chosen(op.at) \cap Pending(op.at)]
       \/ Fails
    /\ UNCHANGED <<conf, db, work, conn, calls>>

\* up() has run, wholly or in part, and its record is written or is not.
Ran(m, recorded) ==
    db' = [db EXCEPT ![op.at].ran[m] = @ + 1,
                     ![op.at].migrated = IF recorded THEN Append(@, m) ELSE @,
                     ![op.at].lost = IF recorded THEN @ ELSE @ \cup {m}]

\* With all that is pending each migration and its record are one transaction;
\* those that were selected run without one, and may fail between the two.
Execute ==
    /\ Doing("migrate") /\ op.todo # None
    /\ \/ op.todo = {} /\ Forward /\ UNCHANGED db
       \/ op.todo # {} /\ Fails /\ UNCHANGED db
       \/ op.todo # {} /\ op.how # None /\ Fails /\ Ran(Min(op.todo), FALSE)
       \/ /\ op.todo # {}
          /\ Ran(Min(op.todo), TRUE)
          /\ op' = [op EXCEPT !.todo = @ \ {Min(op.todo)}]
    /\ UNCHANGED <<conf, work, conn, calls>>

-----------------------------------------------------------------------------
(* Seeds.                                                                  *)

Begun(ds) ==
    /\ work' = work \cup {[of |-> calls, db |-> d, at |-> 0] : d \in ds}
    /\ conn' = IF ds = {} THEN conn ELSE None

Cleared ==
    /\ Doing("clear") /\ Mine = {}
    /\ op' = [op EXCEPT !.kind = "seed"]
    /\ UNCHANGED <<conf, db, work, conn, calls>>

\* Databases in order, but for those that are left for the end.
SeedNext ==
    /\ Doing("seed") /\ Mine = {}
    /\ IF op.at > Connections
         THEN op' = [op EXCEPT !.kind = "spread"] /\ Begun({d \in Dbs : Seeded(d) /\ conf[d].async})
         ELSE op' = [op EXCEPT !.at = @ + 1] /\ Begun({d \in {op.at} : Seeded(d) /\ ~conf[d].async})
    /\ UNCHANGED <<conf, db, calls>>

SeedEnds ==
    /\ Doing("spread") /\ Mine = {}
    /\ op' = [op EXCEPT !.state = "ok"]
    /\ UNCHANGED <<conf, db, work, conn, calls>>

Becomes(w, at) == work' = (work \ {w}) \cup {[w EXCEPT !.at = at]}
Ends(w) == work' = work \ {w}

\* The command fails with the first that does; the others go on.
WorkFails(w) ==
    /\ Ends(w)
    /\ IF w \in Mine /\ op.state = "runs" THEN Fails ELSE UNCHANGED op
    /\ UNCHANGED <<conf, db, conn, calls>>

ClearTables(w) ==
    /\ w.at = -1
    /\ db' = [db EXCEPT ![w.db].rows = [s \in Seeders |-> 0]]
    /\ Ends(w)
    /\ UNCHANGED <<conf, op, conn, calls>>

\* useSeeding() is awaited, then the connection is kept.
SetConnection(w) ==
    /\ w.at = 0
    /\ conn' = w.db
    /\ Becomes(w, 1)
    /\ UNCHANGED <<conf, db, op, calls>>

RunSeeder(w) ==
    /\ w.at > 0 /\ conn # None /\ db[conn].there
    /\ db' = [db EXCEPT ![conn].rows[<<w.db, w.at>>] = @ + 1]
    /\ IF w.at = conf[w.db].seeds THEN Ends(w) ELSE Becomes(w, w.at + 1)
    /\ UNCHANGED <<conf, op, conn, calls>>

-----------------------------------------------------------------------------

Next ==
    \/ \E kind \in {"create", "drop"} : Start(kind, None)
    \/ \E throws, drop \in BOOLEAN : Start("sync", [throws |-> throws, drop |-> drop])
    \/ \E selected \in Selections : Start("migrate", selected)
    \/ \E reseed \in BOOLEAN : Start("seed", reseed)
    \/ Create \/ Drop \/ Sync \/ Look \/ Execute \/ Cleared \/ SeedNext \/ SeedEnds
    \/ \E w \in work : ClearTables(w) \/ SetConnection(w) \/ RunSeeder(w) \/ WorkFails(w)

Spec == Init /\ [][Next]_vars

-----------------------------------------------------------------------------

\* However commands fail and are given again, no migration is recorded twice in
\* one life of a database, and it ran as often as it is recorded, but for one
\* that a selection left without its record, which has run all the same; and a
\* command that ran or failed at some connection left nothing pending of what it
\* chose at those before.
MigrationsOnce ==
    /\ \A d \in Dbs :
          /\ Cardinality(ToSet(db[d].migrated)) = Len(db[d].migrated)
          /\ \A m \in Migrations :
                IF m \in db[d].lost THEN db[d].ran[m] > 0
                                    ELSE db[d].ran[m] = IF m \in ToSet(db[d].migrated) THEN 1 ELSE 0
    /\ op.kind = "migrate" => \A d \in 1 .. op.at - 1 : Chosen(d) \subseteq ToSet(db[d].migrated)

\* Where no two connections are seeded side by side.
OneAsync == Cardinality({d \in Dbs : Seeded(d) /\ conf[d].async}) <= 1

\* While at most one connection is seeded beside others, seeders only write to
\* the database they belong to, and a reseed that ended well, and that no rest
\* of an earlier command disturbed, leaves what each of them wrote once.
SeedsLand ==
    OneAsync =>
      /\ \A d \in Dbs : \A s \in DOMAIN db[d].rows : db[d].rows[s] > 0 => s[1] = d
      /\ op.kind = "spread" /\ op.state = "ok" /\ op.how /\ op.clean =>
           \A d \in Dbs : Seeded(d) => \A s \in Seeders : s[1] = d => db[d].rows[s] = 1

DatabasesKept == MigrationsOnce /\ SeedsLand

DatabaseType == [there : BOOLEAN, migrated : Seq(Migrations), ran : [Migrations -> Nat],
                 lost : SUBSET Migrations, rows : [Seeders -> Nat]]

TypeOK ==
    /\ conf \in Confs /\ db \in [Dbs -> DatabaseType] /\ conn \in Dbs \cup {None} /\ calls \in Nat
    /\ op = [kind |-> op.kind, how |-> op.how, at |-> op.at, todo |-> op.todo, clean |-> op.clean, state |-> op.state]
    /\ op.kind \in {"none", "create", "drop", "sync", "migrate", "clear", "seed", "spread"}
    /\ op.at \in 1 .. Connections + 1 /\ op.clean \in BOOLEAN /\ op.state \in {"runs", "ok", "failed"}
    /\ op.kind = "migrate" => op.how \in Selections
    /\ op.kind \in {"clear", "seed", "spread"} => op.how \in BOOLEAN
    /\ op.kind = "clear" => op.at = 1
    /\ op.state = "runs" /\ op.kind \in {"create", "drop", "sync", "migrate"} => op.at \in Dbs
    /\ \A w \in work :
          /\ w = [of |-> w.of, db |-> w.db, at |-> w.at]
          /\ w.of \in 0 .. calls /\ w.db \in Dbs /\ Seeded(w.db) /\ w.at \in -1 .. conf[w.db].seeds

\* A migration that is still to be executed was not executed before, and those
\* that were chosen are executed or still to be.
TodoIsPending ==
    op.kind = "migrate" /\ op.state = "runs" /\ op.todo # None =>
        /\ op.todo \in SUBSET Migrations /\ op.todo \cap ToSet(db[op.at].migrated) = {}
        /\ Chosen(op.at) \subseteq op.todo \cup ToSet(db[op.at].migrated)

\* A running command clears before it seeds, seeds one connection at a time, and
\* then the global connection is the one it seeds: after a failure none is.
OneIsSeeded ==
    /\ \A w \in work : w.at = -1 /\ w.of = calls /\ op.state = "runs" => op.kind = "clear"
    /\ \A w \in work : w.at >= 0 =>
          /\ w.of = calls /\ op.state = "runs" /\ op.kind \in {"seed", "spread"}
          /\ op.kind = "seed" => ~conf[w.db].async /\ w.db < op.at
          /\ op.kind = "spread" => conf[w.db].async
          /\ w.at > 0 => conn = w.db
          /\ \A v \in work : v.at >= 0 => v = w

\* Each seeder of d has written as often as it should when those before the one
\* at which d is have run.
SeededTo(d, at) == \A k \in 1 .. conf[d].seeds : db[d].rows[<<d, k>>] = IF k < at THEN 1 ELSE 0

\* A reseed that nothing disturbs has cleared a database or is about to, seeds
\* it from the first seeder to the last, and leaves those that come later empty.
ReseedsInOrder ==
    op.clean /\ op.kind \in {"clear", "seed", "spread"} /\ op.how = TRUE =>
        /\ op.state # "failed" => \A w \in work : w.of = calls
        /\ op.state = "ok" => op.kind = "spread" /\ work = {}
        /\ op.state = "runs" /\ op.kind = "clear" =>
             \A d \in Dbs : Seeded(d) => SeededTo(d, 0) \/ [of |-> calls, db |-> d, at |-> -1] \in work
        /\ op.state # "failed" /\ op.kind # "clear" =>
             \A d \in Dbs : Seeded(d) =>
                IF op.kind = "spread" \/ (d < op.at /\ ~conf[d].async)
                  THEN /\ \A w \in work : w.db = d => SeededTo(d, w.at)
                       /\ (\A w \in work : w.db # d) => SeededTo(d, conf[d].seeds + 1)
                  ELSE SeededTo(d, 0)
=============================================================================
