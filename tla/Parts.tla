-------------------------------- MODULE Parts --------------------------------
(***************************************************************************)
(* One specification of the components that share no variable: the start   *)
(* of a process, migrations, readiness, the blob stores, and the tables of *)
(* the SQLite store with their times.  Every behaviour is one of one of    *)
(* them, while the others stand still.                                     *)
(***************************************************************************)
EXTENDS Startup, Migrations, Health, BlobStores, SqliteFts

VARIABLE part            \* the component that takes its steps

partsVars == <<part, startVars, migrateVars, healthVars, storeVars, ftsVars>>

\* What stands still, where it does: a start that did not begin, tables that
\* are migrated by processes that work, and no messages.
Unstarted == StartInit /\ env = [command |-> "serve", tokens |-> {},
                 numbers |-> TRUE, allow |-> FALSE, storage |-> "none", places |-> {},
                 backend |-> "postgres", url |-> FALSE, cloud |-> {}]

Migrated == /\ tables = Versions
            /\ version = [i \in 1..(Latest + 1) |-> i - 1]
            /\ pc = [p \in Processes |-> "working"]
            /\ current = [p \in Processes |-> Latest]
            /\ tx = [p \in Processes |-> None]

Components == {"start", "migrate", "health", "stores", "fts"}

PartsInit ==
    /\ part \in Components
    /\ IF part = "start" THEN StartInit ELSE Unstarted
    /\ IF part = "migrate" THEN MigrateInit ELSE Migrated
    /\ HealthInit
    /\ StoresInit /\ (part # "stores" => storage = "none")
    /\ FtsInit

Only(p, variables) == part = p /\ UNCHANGED <<part, variables>>

AStart   == Only("start", <<migrateVars, healthVars, storeVars, ftsVars>>)
AMigrate == Only("migrate", <<startVars, healthVars, storeVars, ftsVars>>)
AHealth  == Only("health", <<startVars, migrateVars, storeVars, ftsVars>>)
AStores  == Only("stores", <<startVars, migrateVars, healthVars, ftsVars>>)
AFts     == Only("fts", <<startVars, migrateVars, healthVars, storeVars>>)

PartsNext == \/ AStart /\ StartNext
             \/ AMigrate /\ MigrateNext
             \/ AHealth /\ HealthNext
             \/ AStores /\ StoresNext
             \/ AFts /\ FtsNext

(* The fairness of MigrateFairSpec and of HealthFairSpec, for their parts.  *)
PartsFairness ==
    /\ \A p \in Processes :
          WF_partsVars(AMigrate /\ (Start(p) \/ Migrate(p) \/ Exit(p)))
    /\ WF_partsVars(AHealth /\ Loop)
    /\ WF_partsVars(AHealth /\ Tick)
    /\ WF_partsVars(AHealth /\ Readyz)

\* Every variable of every component holds a value of its kind.
PartsTypeOK == /\ part \in Components
               /\ StartTypeOK /\ MigrateTypeOK /\ HealthTypeOK
               /\ StoresTypeOK /\ FtsTypeOK /\ TimeTypeOK

PartsSpec == PartsInit /\ [][PartsNext]_partsVars /\ PartsFairness
=============================================================================
