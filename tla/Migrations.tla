------------------------------ MODULE Migrations ------------------------------
(***************************************************************************)
(* The migrations a process applies before it works (internal/store's      *)
(* Migrate), with several processes starting at once: serve, a backfill    *)
(* job beside it, or two revisions.  goose keeps the applied versions in a *)
(* table of its own and applies one migration per transaction; nothing     *)
(* holds the other processes off between its query for the version and     *)
(* that transaction.                                                       *)
(***************************************************************************)
EXTENDS Integers, Sequences, FiniteSets

CONSTANTS Processes,     \* the processes that start
          Latest         \* the version of the newest embedded migration

ASSUME LatestAssumption == Latest \in Nat

VARIABLES tables,        \* versions whose tables are committed; 0 is goose's
          version,       \* the versions goose has recorded, in order
          pc,            \* where each process is in Migrate
          current,       \* the version it has read
          tx             \* the version whose tables its transaction makes, or None

migrateVars == <<tables, version, pc, current, tx>>

None == -1
Versions == 0..Latest

MigrateInit == /\ \E v \in {<<>>} \cup {[i \in 1..(n + 1) |-> i - 1] : n \in Versions} :
                     /\ version = v
                     /\ tables = {v[i] : i \in DOMAIN v}
               /\ pc = [p \in Processes |-> "stopped"]
               /\ current = [p \in Processes |-> None]
               /\ tx = [p \in Processes |-> None]

Goto(p, step) == pc' = [pc EXCEPT ![p] = step]
Newest == IF version = <<>> THEN None ELSE version[Len(version)]

(* goose.SetDialect and the connection taken from the pool.                *)
Start(p) ==
    /\ pc[p] = "stopped"
    /\ Goto(p, "EnsureDBVersion")
    /\ UNCHANGED <<tables, version, current, tx>>

(* The version table is looked for, and made when it is not there.         *)
EnsureDBVersion(p) ==
    /\ pc[p] = "EnsureDBVersion"
    /\ Goto(p, IF 0 \in tables THEN "GetDBVersion" ELSE "Create")
    /\ current' = [current EXCEPT ![p] = None]
    /\ UNCHANGED <<tables, version, tx>>

(* The next migration above the version read, if there is one.             *)
GetDBVersion(p) ==
    /\ pc[p] = "GetDBVersion"
    /\ current' = [current EXCEPT ![p] = Newest]
    /\ Goto(p, IF Newest = Latest THEN "working" ELSE "Create")
    /\ UNCHANGED <<tables, version, tx>>

(***************************************************************************)
(* CREATE TABLE in a transaction: it waits for another transaction that    *)
(* makes the same table, and is an error when the table is there.          *)
(***************************************************************************)
Create(p) ==
    LET v == current[p] + 1 IN
    /\ pc[p] = "Create"
    /\ \A q \in Processes : tx[q] # v
    /\ IF v \in tables THEN Goto(p, "failed") /\ UNCHANGED tx
                       ELSE Goto(p, "Commit") /\ tx' = [tx EXCEPT ![p] = v]
    /\ UNCHANGED <<tables, version, current>>

(* Mutants: the version recorded outside of the transaction that made its  *)
(* tables, and lost; no look for the next migration after the first.       *)
CommitTablesOnly(p) ==
    /\ pc[p] = "Commit"
    /\ tables' = tables \cup {tx[p]}
    /\ tx' = [tx EXCEPT ![p] = None]
    /\ Goto(p, "GetDBVersion")
    /\ UNCHANGED <<version, current>>
CommitOnce(p) ==
    /\ pc[p] = "Commit"
    /\ tables' = tables \cup {tx[p]}
    /\ version' = Append(version, tx[p])
    /\ tx' = [tx EXCEPT ![p] = None]
    /\ Goto(p, IF tx[p] = 0 THEN "GetDBVersion" ELSE "working")
    /\ UNCHANGED current

(* The version row is inserted by the transaction that made the tables.    *)
Commit(p) ==
    /\ pc[p] = "Commit"
    /\ tables' = tables \cup {tx[p]}
    /\ version' = Append(version, tx[p])
    /\ tx' = [tx EXCEPT ![p] = None]
    /\ Goto(p, "GetDBVersion")
    /\ UNCHANGED current

(* Migrate returns the error and main exits; a statement may fail, the     *)
(* process may crash.  The platform starts the process again.              *)
Stop(p) ==
    /\ pc[p] # "stopped"
    /\ Goto(p, "stopped")
    /\ tx' = [tx EXCEPT ![p] = None]
    /\ UNCHANGED <<tables, version, current>>
Exit(p) == pc[p] = "failed" /\ Stop(p)
Crash(p) == pc[p] # "failed" /\ Stop(p)

Migrate(p) == \/ EnsureDBVersion(p) \/ GetDBVersion(p)
              \/ Create(p) \/ Commit(p)

MigrateNext == \E p \in Processes : Start(p) \/ Migrate(p) \/ Exit(p) \/ Crash(p)

MigrateSpec == MigrateInit /\ [][MigrateNext]_migrateVars

(* The platform starts a stopped process again, and the statements of a    *)
(* process get their answers.                                              *)
MigrateFairness == \A p \in Processes : WF_migrateVars(Start(p) \/ Migrate(p) \/ Exit(p))
MigrateFairSpec == MigrateSpec /\ MigrateFairness

-----------------------------------------------------------------------------
MigrateTypeOK ==
    /\ tables \subseteq Versions
    /\ version \in Seq(Versions)
    /\ pc \in [Processes -> {"stopped", "EnsureDBVersion", "GetDBVersion",
                             "Create", "Commit", "working", "failed"}]
    /\ current \in [Processes -> Versions \cup {None}]
    /\ tx \in [Processes -> Versions \cup {None}]

(***************************************************************************)
(* However many processes migrate at once, and wherever they crash, each   *)
(* version is recorded once and in order, exactly when its tables are there*)
(* so that the next start knows what is left to do.                        *)
(***************************************************************************)
RecordMatchesTables ==
    /\ \A i \in 1..Len(version) : version[i] = i - 1
    /\ tables = 0..(Len(version) - 1)

(***************************************************************************)
(* A process works on the newest schema only, also when another process    *)
(* was the one to apply it.                                                *)
(***************************************************************************)
WorksMigrated == \A p \in Processes : pc[p] = "working" => tables = Versions

(***************************************************************************)
(* Once no process crashes, each gets to work in the end: one that lost a  *)
(* race fails, is started again, and finds the tables made.                *)
(***************************************************************************)
EachWorks ==
    <>[][\A p \in Processes : ~Crash(p)]_migrateVars
       => \A p \in Processes : <>[](pc[p] = "working")
=============================================================================
