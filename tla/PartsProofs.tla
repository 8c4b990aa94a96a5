----------------------------- MODULE PartsProofs -----------------------------
(***************************************************************************)
(* What is proved of the components that share no variable with another:   *)
(* the start of a process, migrations, the blob stores and readiness, each *)
(* for every value of its constants and for its own specification.  Each   *)
(* section has the invariant it goes by, that a step keeps it, and what    *)
(* follows.  The last section is about Parts, which puts them beside the   *)
(* SQLite store: its behaviours are theirs.                                *)
(***************************************************************************)
EXTENDS Parts, SqliteFtsProofs

-----------------------------------------------------------------------------
(***************************************************************************)
(* The start: what has been checked and opened by each stage.              *)
(***************************************************************************)
Unchecked == {"parseCommand", "Load", "Validate"}
Unplaced  == Unchecked \cup {"NewBlobs"}

(* The database resources a start has open at its stage, if it is alive.    *)
Held == IF stage \in {"Migrate", "run"}
        THEN IF SqliteEnabled(env) THEN {"sqlite"}
             ELSE IF useDirectURL(env) THEN {"pool"} ELSE {"pool", "dialer"}
        ELSE IF stage = "NewPool" /\ ~useDirectURL(env) THEN {"dialer"} ELSE {}

(* The file settings are good, and the blob store is the one they name.     *)
Placed == /\ blobs = env.storage
          /\ env.storage = "local" => "FILE_DIR" \in env.places
          /\ env.storage = "gcs" => "FILE_BUCKET" \in env.places
          /\ "gcs" \in open <=> blobs = "gcs"

(* What the stages of one backend know of the settings.                     *)
Routed == /\ stage = "OpenSqlite" => SqliteEnabled(env)
          /\ stage = "NewPool" => ~SqliteEnabled(env)
          /\ stage = "NewDialer" => ~SqliteEnabled(env) /\ ~useDirectURL(env)

StartInv ==
    /\ StartTypeOK
    /\ stage \in {"parseCommand", "Load"} \/ env.numbers
    /\ stage \in Unchecked \/ Accepts(env)
    /\ IF stage \in Unplaced THEN "gcs" \notin open /\ blobs = "none" ELSE Placed
    /\ Routed
    /\ open \cap Databases \subseteq Held
    /\ exit = Alive => open \cap Databases = Held
    /\ ReturnsClosed

(* Nothing is open, and nothing is known, at first.                         *)
LEMMA StartInitial == StartInit => StartInv
  BY SMT DEF StartInit, StartInv, StartTypeOK, Unchecked, Unplaced, Routed, Held,
             Databases, ReturnsClosed, Alive, Killed

(* A step that fails stays at its stage with less open than before.         *)
LEMMA FailKeeps ==
    ASSUME StartInv, exit = Alive, NEW closing, FailClosing(closing),
           Held \subseteq closing, closing \subseteq Databases
    PROVE  StartInv'
<1>1. UNCHANGED <<env, stage, blobs>> /\ open' = open \ closing /\ exit' = 1
  BY DEF FailClosing
<1>2. open \cap Databases = Held /\ "gcs" \notin Databases
  BY DEF StartInv, Databases
<1>3. open' \cap Databases = {} /\ ("gcs" \in open' <=> "gcs" \in open)
  BY <1>1, <1>2
<1>4. StartTypeOK'
  BY <1>1 DEF StartInv, StartTypeOK, Alive
<1>5. (stage \in Unchecked \/ Accepts(env))' /\ Routed' /\ Held' = Held
  BY <1>1 DEF StartInv, Accepts, Routed, Held
<1>6. (IF stage \in Unplaced THEN "gcs" \notin open /\ blobs = "none" ELSE Placed)'
  BY <1>1, <1>3 DEF StartInv, Placed
<1>7. (exit = Alive => open \cap Databases = Held)' /\ ReturnsClosed'
  BY <1>1, <1>3 DEF Alive, ReturnsClosed
<1>8. (stage \in {"parseCommand", "Load"} \/ env.numbers)'
  BY <1>1 DEF StartInv
<1> QED BY <1>3, <1>4, <1>5, <1>6, <1>7, <1>8 DEF StartInv

(* Every step checks or opens what its stage is for.                        *)
LEMMA StartStep == StartInv /\ [StartNext]_startVars => StartInv'
<1> SUFFICES ASSUME StartInv, [StartNext]_startVars PROVE StartInv'
  OBVIOUS
<1> USE DEF Alive
<1>1. CASE parseCommand
  BY <1>1 DEF parseCommand, At, Proceed, StartInv, StartTypeOK, Unchecked, Unplaced, Routed,
              Held, Databases, ReturnsClosed, Placed
<1>2. CASE Load
  <2>1. CASE Fail
    BY <1>2, <2>1, FailKeeps DEF Load, At, Fail, Held
  <2>2. CASE ~Fail
    BY <1>2, <2>2 DEF Load, At, Proceed, StartInv, StartTypeOK, Unchecked, Unplaced, Routed,
                      Held, Databases, ReturnsClosed, Placed
  <2> QED BY <2>1, <2>2
<1>3. CASE Validate
  <2>1. CASE Fail
    BY <1>3, <2>1, FailKeeps DEF Validate, At, Fail, Held
  <2>2. CASE ~Fail
    <3>1. Accepts(env)' = Accepts(env) /\ Accepts(env)
      BY <1>3, <2>2 DEF Validate, Proceed, Accepts
    <3> QED BY <1>3, <2>2, <3>1 DEF Validate, At, Proceed, StartInv, StartTypeOK, Unchecked,
                Unplaced, Routed, Held, Databases, ReturnsClosed, Placed
  <2> QED BY <2>1, <2>2
<1>4. CASE NewBlobs
  <2>1. CASE Fail
    BY <1>4, <2>1, FailKeeps DEF NewBlobs, At, Fail, Held
  <2>2. CASE ~Fail
    <3>1. /\ stage = "NewBlobs" /\ exit = Alive /\ stage' = "Select"
          /\ UNCHANGED <<env, exit>>
      BY <1>4, <2>2 DEF NewBlobs, At, Proceed
    <3>2. Accepts(env)' /\ env.numbers
      BY <3>1 DEF StartInv, Unchecked, Accepts
    <3>3. env.storage \in {"none", "local", "gcs", "other"}
      BY DEF StartInv, StartTypeOK, Environment
    <3>4. Placed' /\ open' \cap Databases = open \cap Databases
          /\ open' \subseteq open \cup {"gcs"} /\ blobs' \in {"none", "local", "gcs"}
      BY <1>4, <2>2, <3>1, <3>3
         DEF NewBlobs, Proceed, Placed, StartInv, Unplaced, Unchecked, FilesEnabled, Databases
    <3> QED BY <3>1, <3>2, <3>4 DEF StartInv, StartTypeOK, Unchecked, Unplaced, Routed,
                                    Held, ReturnsClosed
  <2> QED BY <2>1, <2>2
<1>5. CASE Select
  <2>1. /\ stage = "Select" /\ exit = Alive /\ UNCHANGED <<env, exit, open, blobs>>
        /\ stage' \in {"OpenSqlite", "NewPool", "NewDialer"}
        /\ stage' = "OpenSqlite" => SqliteEnabled(env)
        /\ stage' = "NewPool" => ~SqliteEnabled(env) /\ useDirectURL(env)
        /\ stage' = "NewDialer" => ~SqliteEnabled(env) /\ ~useDirectURL(env)
    BY <1>5 DEF Select, At, Proceed
  <2>2. Accepts(env)' /\ Routed' /\ Placed'
    BY <2>1 DEF StartInv, Accepts, Routed, Placed, SqliteEnabled, useDirectURL, Unchecked, Unplaced
  <2> QED BY <2>1, <2>2 DEF StartInv, StartTypeOK, Unchecked, Unplaced, Held, ReturnsClosed,
                            SqliteEnabled, useDirectURL
<1>6. ASSUME stage' \in {"NewPool", "Migrate"}, stage \in {"NewDialer", "NewPool", "OpenSqlite"},
             exit = Alive, UNCHANGED <<env, exit, blobs>>,
             NEW r \in {"dialer", "pool", "sqlite"}, open' = open \cup {r},
             Routed', Held' = Held \cup {r}
      PROVE  StartInv'
  <2>1. Accepts(env)' /\ Placed'
    BY <1>6 DEF StartInv, Accepts, Placed, Unchecked, Unplaced
  <2>2. open' \cap Databases = Held'
    BY <1>6 DEF StartInv, Databases
  <2> QED BY <1>6, <2>1, <2>2 DEF StartInv, StartTypeOK, Unchecked, Unplaced, ReturnsClosed
<1>7. CASE NewDialer
  <2>1. CASE Fail
    BY <1>7, <2>1, FailKeeps DEF NewDialer, At, Fail, Held
  <2>2. CASE ~Fail
    BY <1>6, <1>7, <2>2 DEF NewDialer, At, Proceed, Held, Routed, StartInv, SqliteEnabled, useDirectURL
  <2> QED BY <2>1, <2>2
<1>8. CASE NewPool
  <2>1. CASE FailClosing({"dialer"})
    BY <1>8, <2>1, FailKeeps DEF NewPool, At, Held, Databases
  <2>2. CASE ~FailClosing({"dialer"})
    BY <1>6, <1>8, <2>2 DEF NewPool, At, Proceed, Held, Routed, StartInv, SqliteEnabled, useDirectURL
  <2> QED BY <2>1, <2>2
<1>9. CASE OpenSqlite
  <2>1. CASE Fail
    BY <1>9, <2>1, FailKeeps DEF OpenSqlite, At, Fail, Held
  <2>2. CASE ~Fail
    BY <1>6, <1>9, <2>2 DEF OpenSqlite, At, Proceed, Held, Routed, StartInv, SqliteEnabled, useDirectURL
  <2> QED BY <2>1, <2>2
<1>10. CASE MigrateSchema
  <2>1. CASE MigrateFails
    BY <1>10, <2>1, FailKeeps DEF MigrateSchema, MigrateFails, At, Held, Databases
  <2>2. CASE ~MigrateFails
    <3>1. /\ stage = "Migrate" /\ exit = Alive /\ stage' = "run"
          /\ UNCHANGED <<env, exit, open, blobs>>
      BY <1>10, <2>2 DEF MigrateSchema, At, Proceed
    <3>2. Accepts(env)' /\ Placed' /\ Held' = Held
      BY <3>1 DEF StartInv, Accepts, Placed, Unchecked, Unplaced, Held
    <3> QED BY <3>1, <3>2 DEF StartInv, StartTypeOK, Unchecked, Unplaced, ReturnsClosed, Routed
  <2> QED BY <2>1, <2>2
<1>11. CASE Ends
  <2>1. /\ stage = "run" /\ exit = Alive /\ exit' \in {0, 1}
        /\ open' = open \ Databases /\ UNCHANGED <<env, stage, blobs>>
    BY <1>11 DEF Ends, Return, At, cleanup, Databases
  <2>2. open' \cap Databases = {} /\ ("gcs" \in open' <=> "gcs" \in open)
    BY <2>1 DEF Databases
  <2>3. Accepts(env)' /\ Placed' /\ Routed'
    BY <2>1, <2>2 DEF StartInv, Accepts, Placed, Unchecked, Unplaced, Routed
  <2>4. StartTypeOK' /\ ReturnsClosed' /\ (open \cap Databases \subseteq Held)'
    BY <2>1, <2>2 DEF StartInv, StartTypeOK, ReturnsClosed
  <2>5. exit' # Alive /\ env'.numbers
    BY <2>1 DEF StartInv
  <2> QED BY <2>1, <2>3, <2>4, <2>5 DEF StartInv, Unchecked, Unplaced
<1>12. CASE Signal
  <2>1. exit = Alive /\ exit' = Killed /\ UNCHANGED <<env, stage, open, blobs>>
    BY <1>12 DEF Signal
  <2>2. Accepts(env)' = Accepts(env) /\ Placed' = Placed /\ Routed' = Routed /\ Held' = Held
    BY <2>1 DEF Accepts, Placed, Routed, Held
  <2> QED BY <2>1, <2>2 DEF StartInv, StartTypeOK, ReturnsClosed, Killed
<1>13. CASE UNCHANGED startVars
  <2>1. UNCHANGED <<env, stage, open, blobs, exit>>
    BY <1>13 DEF startVars
  <2>2. Accepts(env)' = Accepts(env) /\ Placed' = Placed /\ Routed' = Routed /\ Held' = Held
    BY <2>1 DEF Accepts, Placed, Routed, Held
  <2> QED BY <2>1, <2>2 DEF StartInv, StartTypeOK, ReturnsClosed
<1> QED BY <1>1, <1>2, <1>3, <1>4, <1>5, <1>7, <1>8, <1>9, <1>10, <1>11, <1>12, <1>13
        DEF StartNext

(* Whatever the settings and whichever step fails, what is open has been    *)
(* checked for, and is closed by a command that returns.                    *)
LEMMA StartInvariant == StartSpec => []StartInv
  BY StartInitial, StartStep, PTL DEF StartSpec

(* A command that returns to main has closed the databases it opened.       *)
THEOREM ReturnsAreClosed == StartSpec => []ReturnsClosed
<1>1. StartInv => ReturnsClosed
  BY DEF StartInv
<1> QED BY <1>1, StartInvariant, PTL

(* A command at work has the tokens, the one database and the blob store    *)
(* that its settings ask for, and nothing else open.                        *)
THEOREM WorkIsEquipped == StartSpec => []WorksEquipped
<1>1. ASSUME StartInv, stage = "run", exit = Alive
      PROVE  /\ "SLACK_BOT_TOKEN" \in env.tokens
             /\ env.command = "serve" => "SLACK_APP_TOKEN" \in env.tokens
             /\ env.command = "backfill" => env.allow
             /\ blobs = env.storage
             /\ "gcs" \in open <=> blobs = "gcs"
             /\ open \cap Databases =
                   IF env.backend = "sqlite" THEN {"sqlite"}
                   ELSE IF env.url THEN {"pool"} ELSE {"pool", "dialer"}
             /\ "dialer" \in open => env.cloud = CloudSQL
  <2>1. Accepts(env) /\ Placed /\ open \cap Databases = Held
    BY <1>1 DEF StartInv, Unchecked, Unplaced
  <2>2. Held = IF env.backend = "sqlite" THEN {"sqlite"}
               ELSE IF env.url THEN {"pool"} ELSE {"pool", "dialer"}
    BY <1>1 DEF Held, SqliteEnabled, useDirectURL
  <2>3. "dialer" \in open => env.backend # "sqlite" /\ ~env.url
    BY <2>1, <2>2 DEF Databases
  <2> QED BY <2>1, <2>2, <2>3 DEF Accepts, ValidateServe, ValidateBackfill, hasDB,
                                  SqliteEnabled, Placed
<1>2. StartInv => WorksEquipped
  BY <1>1 DEF WorksEquipped
<1> QED BY <1>2, StartInvariant, PTL

(* No database is opened before every setting has been checked.             *)
THEOREM ChecksComeFirst == StartSpec => []ChecksFirst
<1>1. ASSUME StartInv, open \cap Databases # {}
      PROVE  /\ env.numbers
             /\ env.storage # "other"
             /\ env.storage = "local" => "FILE_DIR" \in env.places
             /\ env.storage = "gcs" => "FILE_BUCKET" \in env.places
             /\ env.backend # "sqlite" => env.url \/ env.cloud = CloudSQL
             /\ env.command = "backfill" => env.allow
  <2>1. stage \in {"NewPool", "Migrate", "run"}
    BY <1>1 DEF StartInv, Held
  <2> QED BY <1>1, <2>1 DEF StartInv, StartTypeOK, Unchecked, Unplaced, Placed, Accepts,
                   ValidateServe, ValidateBackfill, hasDB, SqliteEnabled
<1>2. StartInv => ChecksFirst
  BY <1>1 DEF ChecksFirst
<1> QED BY <1>2, StartInvariant, PTL

-----------------------------------------------------------------------------
(***************************************************************************)
(* The migrations, for any number of processes and of versions.            *)
(***************************************************************************)
(* A transaction that makes tables makes those of the next version, so that *)
(* two of them would make the same; what a process read before it is old    *)
(* news at worst.                                                           *)
TxIsNext ==
    \A p \in Processes :
       /\ tx[p] # None => tx[p] = Len(version)
       /\ pc[p] = "Commit" <=> tx[p] # None
       /\ \A q \in Processes : tx[p] # None /\ tx[q] # None => p = q

ReadIsPast ==
    \A p \in Processes :
       pc[p] = "Create" => current[p] < Len(version) /\ current[p] < Latest

MigrateInv == MigrateTypeOK /\ RecordMatchesTables /\ WorksMigrated /\ TxIsNext /\ ReadIsPast

(* The tables a process may find are those of the first versions.           *)
LEMMA MigrateInitial == MigrateInit => MigrateInv
<1> SUFFICES ASSUME MigrateInit PROVE MigrateInv
  OBVIOUS
<1>1. ASSUME version = <<>>
      PROVE  MigrateTypeOK /\ RecordMatchesTables
  BY <1>1, LatestAssumption, SMT
  DEF MigrateInit, MigrateTypeOK, RecordMatchesTables, Versions, None
<1>2. ASSUME NEW n \in Versions, version = [i \in 1..(n + 1) |-> i - 1]
      PROVE  MigrateTypeOK /\ RecordMatchesTables
  <2>1. /\ version \in Seq(Versions)
        /\ Len(version) = n + 1
        /\ DOMAIN version = 1..(n + 1)
        /\ \A i \in 1..(n + 1) : version[i] = i - 1
    BY <1>2, LatestAssumption, SMT DEF Versions
  <2>2. tables = {version[i] : i \in 1..(n + 1)}
    BY <2>1, SMT DEF MigrateInit
  <2>3. \A v : v \in tables <=> v \in 0..n
    <3>1. \A v \in 0..n : v + 1 \in 1..(n + 1) /\ version[v + 1] = v
      BY <2>1, <1>2, LatestAssumption, SMT DEF Versions
    <3>2. n \in Nat
      BY LatestAssumption, SMT DEF Versions
    <3>3. \A i \in 1..(n + 1) : version[i] \in 0..n
      BY <2>1, <3>2, SMT
    <3>4. ASSUME NEW v \in tables PROVE v \in 0..n
      BY <2>2, <3>3
    <3>5. ASSUME NEW v \in 0..n PROVE v \in tables
      BY <2>2, <3>1
    <3> QED BY <3>4, <3>5
  <2>4. tables = 0..n
    BY <2>3, Zenon
  <2> QED BY <2>1, <2>4, <1>2, LatestAssumption, SMT
          DEF MigrateInit, MigrateTypeOK, RecordMatchesTables, Versions, None
<1>3. MigrateTypeOK /\ RecordMatchesTables
  BY <1>1, <1>2, SMT DEF MigrateInit
<1>4. WorksMigrated /\ TxIsNext /\ ReadIsPast
  BY SMT DEF MigrateInit, WorksMigrated, TxIsNext, ReadIsPast
<1> QED BY <1>3, <1>4 DEF MigrateInv

(* The newest recorded version is one less than their number.               *)
LEMMA NewestIs ==
    ASSUME MigrateInv
    PROVE  /\ Len(version) \in Nat /\ Len(version) <= Latest + 1
           /\ Newest = Len(version) - 1
           /\ Newest \in Versions \cup {None}
<1>1. Len(version) \in Nat /\ tables = 0..(Len(version) - 1)
  BY SMT DEF MigrateInv, MigrateTypeOK, RecordMatchesTables
<1>2. Len(version) <= Latest + 1
  <2> SUFFICES ASSUME Len(version) > Latest + 1 PROVE FALSE
    BY <1>1, LatestAssumption, SMT
  <2>1. Latest + 1 \in tables
    BY <1>1, LatestAssumption, SMT
  <2> QED BY <2>1, LatestAssumption, SMT DEF MigrateInv, MigrateTypeOK, Versions
<1>3. Newest = Len(version) - 1
  <2>1. CASE version = <<>>
    BY <2>1, SMT DEF Newest, None
  <2>2. CASE version # <<>>
    BY <2>2, <1>1, SMT DEF Newest, MigrateInv, MigrateTypeOK, RecordMatchesTables
  <2> QED BY <2>1, <2>2
<1> QED BY <1>1, <1>2, <1>3, LatestAssumption, SMT DEF Versions, None

(* Only Commit writes tables and record, and the process that commits is    *)
(* the only one in a transaction.                                          *)
LEMMA MigrateStep == MigrateInv /\ [MigrateNext]_migrateVars => MigrateInv'
<1> SUFFICES ASSUME MigrateInv, [MigrateNext]_migrateVars PROVE MigrateInv'
  OBVIOUS
<1> USE LatestAssumption
<1>1. /\ Len(version) \in Nat /\ Len(version) <= Latest + 1
      /\ Newest = Len(version) - 1
      /\ Newest \in Versions \cup {None}
  BY NewestIs
<1>2. ASSUME NEW p \in Processes, Start(p) PROVE MigrateInv'
  BY <1>2, SMT DEF Start, Goto, MigrateInv, MigrateTypeOK, RecordMatchesTables, WorksMigrated,
                   TxIsNext, ReadIsPast
<1>3. ASSUME NEW p \in Processes, EnsureDBVersion(p) PROVE MigrateInv'
  <2>1. 0 \notin tables => Len(version) = 0
    BY <1>1, SMT DEF MigrateInv, RecordMatchesTables
  <2>2. None < Len(version) /\ None < Latest /\ None \in Versions \cup {None}
    BY <1>1, SMT DEF None
  <2> QED BY <1>3, <2>2, SMT DEF EnsureDBVersion, Goto, MigrateInv, MigrateTypeOK,
             RecordMatchesTables, WorksMigrated, TxIsNext, ReadIsPast
<1>4. ASSUME NEW p \in Processes, GetDBVersion(p) PROVE MigrateInv'
  <2>1. Newest # Latest => Newest < Len(version) /\ Newest < Latest
    BY <1>1, SMT
  <2>2. Newest = Latest => tables = Versions
    BY <1>1, SMT DEF MigrateInv, RecordMatchesTables, Versions
  <2>3. MigrateTypeOK' /\ RecordMatchesTables'
    BY <1>4, <1>1, SMT DEF GetDBVersion, Goto, MigrateInv, MigrateTypeOK, RecordMatchesTables
  <2>4. WorksMigrated'
    BY <1>4, <2>2, SMT DEF GetDBVersion, Goto, MigrateInv, MigrateTypeOK, WorksMigrated
  <2>5. TxIsNext'
    BY <1>4, SMT DEF GetDBVersion, Goto, MigrateInv, MigrateTypeOK, TxIsNext
  <2>6. ReadIsPast'
    BY <1>4, <2>1, SMT DEF GetDBVersion, Goto, MigrateInv, MigrateTypeOK, ReadIsPast
  <2> QED BY <2>3, <2>4, <2>5, <2>6 DEF MigrateInv
<1>5. ASSUME NEW p \in Processes, Create(p) PROVE MigrateInv'
  <2> DEFINE v == current[p] + 1
  <2>1. pc[p] = "Create" /\ v <= Len(version) /\ v \in Versions
        /\ (\A q \in Processes : tx[q] # v)
        /\ UNCHANGED <<tables, version, current>>
    BY <1>5, <1>1, SMT DEF Create, MigrateInv, MigrateTypeOK, ReadIsPast, Versions, None
  <2>2. CASE v \in tables
    <3>1. pc' = [pc EXCEPT ![p] = "failed"] /\ tx' = tx
      BY <1>5, <2>2, SMT DEF Create, Goto
    <3> QED BY <2>1, <3>1, SMT DEF MigrateInv, MigrateTypeOK, RecordMatchesTables, WorksMigrated,
                                   TxIsNext, ReadIsPast
  <2>3. CASE v \notin tables
    <3>1. pc' = [pc EXCEPT ![p] = "Commit"] /\ tx' = [tx EXCEPT ![p] = v]
      BY <1>5, <2>3, SMT DEF Create, Goto
    <3>2. v = Len(version)
      BY <2>1, <2>3, <1>1, SMT DEF MigrateInv, RecordMatchesTables, Versions
    <3> HIDE DEF v
    <3>3. \A q \in Processes : tx[q] = None
      BY <2>1, <3>2, SMT DEF MigrateInv, TxIsNext
    <3>4. MigrateTypeOK' /\ RecordMatchesTables' /\ WorksMigrated'
      BY <2>1, <3>1, SMT DEF MigrateInv, MigrateTypeOK, RecordMatchesTables, WorksMigrated
    <3>5. TxIsNext'
      BY <2>1, <3>1, <3>2, <3>3, SMT DEF MigrateInv, MigrateTypeOK, TxIsNext, Versions, None
    <3>6. ReadIsPast'
      BY <2>1, <3>1, SMT DEF MigrateInv, MigrateTypeOK, ReadIsPast
    <3> QED BY <3>4, <3>5, <3>6 DEF MigrateInv
  <2> QED BY <2>2, <2>3
<1>6. ASSUME NEW p \in Processes, Commit(p) PROVE MigrateInv'
  <2> DEFINE n == Len(version)
  <2>1. tx[p] = n /\ n \in Versions /\ n \in Nat
    BY <1>6, <1>1, SMT DEF Commit, MigrateInv, MigrateTypeOK, TxIsNext
  <2>2. tables' = 0..n
    BY <1>6, <2>1, SMT DEF Commit, MigrateInv, RecordMatchesTables
  <2>3. /\ version' \in Seq(Versions)
        /\ Len(version') = n + 1
        /\ \A i \in 1..(n + 1) : version'[i] = i - 1
    BY <1>6, <2>1, SMT DEF Commit, MigrateInv, MigrateTypeOK, RecordMatchesTables
  <2>4. \A q \in Processes : q # p => tx[q] = None
    BY <2>1, SMT DEF MigrateInv, TxIsNext, Versions, None
  <2>5. /\ tx' = [tx EXCEPT ![p] = None]
        /\ pc' = [pc EXCEPT ![p] = "GetDBVersion"]
        /\ current' = current
    BY <1>6, SMT DEF Commit, Goto
  <2>6. MigrateTypeOK'
    BY <2>1, <2>2, <2>3, <2>5, SMT DEF MigrateInv, MigrateTypeOK, Versions
  <2>7. RecordMatchesTables'
    BY <2>1, <2>2, <2>3, SMT DEF RecordMatchesTables
  <2>8. WorksMigrated'
    <3> SUFFICES ASSUME NEW q \in Processes, pc'[q] = "working"
                 PROVE  tables' = Versions
      BY SMT DEF WorksMigrated
    <3>1. tables = Versions
      BY <2>5, SMT DEF MigrateInv, MigrateTypeOK, WorksMigrated
    <3> QED BY <3>1, <2>1, <1>6, SMT DEF Commit
  <2>9. TxIsNext'
    BY <2>4, <2>5, <1>6, SMT DEF Commit, MigrateInv, MigrateTypeOK, TxIsNext
  <2>10. ReadIsPast'
    BY <2>1, <2>3, <2>5, SMT DEF MigrateInv, MigrateTypeOK, ReadIsPast, None, Versions
  <2> QED BY <2>6, <2>7, <2>8, <2>9, <2>10 DEF MigrateInv
<1>7. ASSUME NEW p \in Processes, Stop(p) PROVE MigrateInv'
  BY <1>7, SMT DEF Stop, Goto, MigrateInv, MigrateTypeOK, RecordMatchesTables, WorksMigrated,
                   TxIsNext, ReadIsPast
<1>8. CASE UNCHANGED migrateVars
  BY <1>8, SMT DEF migrateVars, MigrateInv, MigrateTypeOK, RecordMatchesTables, WorksMigrated,
                   TxIsNext, ReadIsPast
<1> QED BY <1>2, <1>3, <1>4, <1>5, <1>6, <1>7, <1>8
        DEF MigrateNext, Migrate, Exit, Crash

(* Each version is recorded once, in order, and with its tables, whatever   *)
(* the number of processes that run Migrate at once.                        *)
THEOREM RecordedInOrder == MigrateSpec => []RecordMatchesTables
<1>1. MigrateInv => RecordMatchesTables
  BY DEF MigrateInv
<1> QED BY MigrateInitial, MigrateStep, <1>1, PTL DEF MigrateSpec

(* No process goes on from Migrate to its work on an older schema.          *)
THEOREM WorkersMigrated == MigrateSpec => []WorksMigrated
<1>1. MigrateInv => WorksMigrated
  BY DEF MigrateInv
<1> QED BY MigrateInitial, MigrateStep, <1>1, PTL DEF MigrateSpec

(***************************************************************************)
(* How many statements a start of Migrate has left at most: three for each *)
(* version above the one it has read (GetDBVersion, CREATE TABLE, COMMIT), *)
(* the first query, and the exit of one that has lost a race.              *)
(***************************************************************************)
MigrationsLeft(p) ==
    CASE pc[p] = "EnsureDBVersion"      -> 3 * Latest + 6
      [] pc[p] = "Create"               -> 3 * (Latest - current[p]) + 2
      [] pc[p] = "Commit"               -> 3 * (Latest - current[p]) + 1
      [] pc[p] = "GetDBVersion"         -> 3 * (Latest - current[p])
      [] pc[p] = "failed"               -> 1
      [] pc[p] \in {"stopped", "working"} -> 0

(* What a process looks for is newer than what it has: it has just found    *)
(* the version table, or recorded a version itself.                         *)
LooksForNewer ==
    \A p \in Processes :
       /\ pc[p] \in {"GetDBVersion", "Create", "Commit"} => current[p] < Latest
       /\ pc[p] = "GetDBVersion" => current[p] + 1 < Len(version)
       /\ pc[p] = "Commit" => tx[p] = current[p] + 1

(* A process is told to wait only by a transaction that makes the same      *)
(* tables, and that may commit whatever the others do.                      *)
MigrationGoesOn ==
    \A p \in Processes :
       pc[p] = "Create" /\ (\E q \in Processes : tx[q] = current[p] + 1)
          => \E q \in Processes : pc[q] = "Commit" /\ tx[q] = current[p] + 1

(* Each step of a process that is neither a start nor a crash takes from    *)
(* what it has left, and from no other's.                                   *)
MigrationCounts ==
    \A p \in Processes :
       Migrate(p) \/ Exit(p) =>
          /\ MigrationsLeft(p)' < MigrationsLeft(p)
          /\ \A q \in Processes \ {p} : MigrationsLeft(q)' = MigrationsLeft(q)

(* The versions only grow, so that what is newer stays so.                  *)
LEMMA NewerStep ==
    MigrateInv /\ LooksForNewer /\ [MigrateNext]_migrateVars => LooksForNewer'
<1> SUFFICES ASSUME MigrateInv, LooksForNewer, [MigrateNext]_migrateVars
             PROVE  LooksForNewer'
  OBVIOUS
<1> USE LatestAssumption
<1>1. /\ Len(version) \in Nat /\ Len(version) <= Latest + 1
      /\ Newest = Len(version) - 1
      /\ \A p \in Processes : current[p] \in Int /\ current[p] >= -1
      /\ tables = 0..(Len(version) - 1)
  BY NewestIs, SMT DEF MigrateInv, MigrateTypeOK, RecordMatchesTables, Versions, None
<1>2. ASSUME NEW p \in Processes, Start(p) \/ Stop(p) PROVE LooksForNewer'
  BY <1>2, <1>1, SMT DEF Start, Stop, Goto, MigrateInv, MigrateTypeOK, LooksForNewer
<1>3. ASSUME NEW p \in Processes, EnsureDBVersion(p) PROVE LooksForNewer'
  BY <1>3, <1>1, SMT DEF EnsureDBVersion, Goto, MigrateInv, MigrateTypeOK, LooksForNewer, None
<1>4. ASSUME NEW p \in Processes, GetDBVersion(p) PROVE LooksForNewer'
  BY <1>4, <1>1, SMT DEF GetDBVersion, Goto, MigrateInv, MigrateTypeOK, LooksForNewer
<1>5. ASSUME NEW p \in Processes, Create(p) PROVE LooksForNewer'
  BY <1>5, <1>1, SMT DEF Create, Goto, MigrateInv, MigrateTypeOK, LooksForNewer
<1>6. ASSUME NEW p \in Processes, Commit(p) PROVE LooksForNewer'
  <2>0. /\ tx[p] = Len(version) /\ tx[p] = current[p] + 1 /\ current[p] < Latest
        /\ \A q \in Processes : q # p => pc[q] # "Commit"
    BY <1>6, SMT DEF Commit, MigrateInv, TxIsNext, LooksForNewer
  <2>1. /\ current[p] \in Int /\ current[p] + 1 = Len(version) /\ current[p] < Latest
        /\ \A q \in Processes : q # p => pc[q] # "Commit"
    BY <1>1, <2>0, SMT
  <2>2. Len(version') = Len(version) + 1
    BY <1>6, SMT DEF Commit, MigrateInv, MigrateTypeOK
  <2>3. /\ pc' = [pc EXCEPT ![p] = "GetDBVersion"]
        /\ current' = current /\ tx' = [tx EXCEPT ![p] = None]
    BY <1>6, SMT DEF Commit, Goto
  <2>4. ASSUME NEW q \in Processes
        PROVE  /\ pc'[q] \in {"GetDBVersion", "Create", "Commit"} => current'[q] < Latest
               /\ pc'[q] = "GetDBVersion" => current'[q] + 1 < Len(version')
               /\ pc'[q] # "Commit"
    <3>1. CASE q = p
      <4>1. pc'[q] = "GetDBVersion" /\ current'[q] = current[p]
        BY <2>3, <3>1, SMT DEF MigrateInv, MigrateTypeOK
      <4> QED BY <1>1, <2>1, <2>2, <4>1, SMT
    <3>2. CASE q # p
      <4>1. pc'[q] = pc[q] /\ current'[q] = current[q]
        BY <2>3, <3>2, SMT DEF MigrateInv, MigrateTypeOK
      <4> QED BY <1>1, <2>1, <2>2, <3>2, <4>1, SMT DEF LooksForNewer
    <3> QED BY <3>1, <3>2
  <2> QED BY <2>4 DEF LooksForNewer
<1>7. CASE UNCHANGED migrateVars
  BY <1>7, SMT DEF migrateVars, LooksForNewer
<1> QED BY <1>2, <1>3, <1>4, <1>5, <1>6, <1>7
        DEF MigrateNext, Migrate, Exit, Crash

(* What a process has left depends on nothing but where it is.              *)
LEMMA MigrationCounted ==
    ASSUME MigrateInv, LooksForNewer, NEW p \in Processes, Migrate(p) \/ Exit(p)
    PROVE  /\ MigrationsLeft(p)' < MigrationsLeft(p)
           /\ \A q \in Processes \ {p} : MigrationsLeft(q)' = MigrationsLeft(q)
<1> USE LatestAssumption
<1>1. /\ Newest = Len(version) - 1 /\ Len(version) \in Nat /\ Len(version) <= Latest + 1
      /\ \A q \in Processes : current[q] \in Int /\ current[q] >= -1
  BY NewestIs, SMT DEF MigrateInv, MigrateTypeOK, Versions, None
<1>2. /\ pc = [q \in Processes |-> pc[q]] /\ current = [q \in Processes |-> current[q]]
      /\ \A q \in Processes \ {p} : pc'[q] = pc[q] /\ current'[q] = current[q]
  <2>1. pc = [q \in Processes |-> pc[q]] /\ current = [q \in Processes |-> current[q]]
    BY SMT DEF MigrateInv, MigrateTypeOK
  <2>2. CASE EnsureDBVersion(p)
    BY <2>1, <2>2, SMT DEF EnsureDBVersion, Goto
  <2>3. CASE GetDBVersion(p)
    BY <2>1, <2>3, SMT DEF GetDBVersion, Goto
  <2>4. CASE Create(p)
    BY <2>1, <2>4, SMT DEF Create, Goto
  <2>5. CASE Commit(p)
    BY <2>1, <2>5, SMT DEF Commit, Goto
  <2>6. CASE Exit(p)
    BY <2>1, <2>6, SMT DEF Exit, Stop, Goto
  <2> QED BY <2>1, <2>2, <2>3, <2>4, <2>5, <2>6 DEF Migrate
<1>3. \A q \in Processes \ {p} : MigrationsLeft(q)' = MigrationsLeft(q)
  BY <1>2, Zenon DEF MigrationsLeft
<1>4. ASSUME EnsureDBVersion(p) PROVE MigrationsLeft(p)' < MigrationsLeft(p)
  <2>1. /\ pc[p] = "EnsureDBVersion" /\ current'[p] = -1
        /\ pc'[p] \in {"GetDBVersion", "Create"}
    BY <1>2, <1>4, SMT DEF EnsureDBVersion, Goto, None
  <2> QED BY <2>1, SMT DEF MigrationsLeft
<1>5. ASSUME GetDBVersion(p) PROVE MigrationsLeft(p)' < MigrationsLeft(p)
  <2>1. /\ pc[p] = "GetDBVersion" /\ current'[p] = Newest
        /\ pc'[p] \in {"working", "Create"}
        /\ current[p] < Latest /\ current[p] + 1 < Len(version)
    BY <1>2, <1>5, SMT DEF GetDBVersion, Goto, LooksForNewer
  <2> QED BY <1>1, <2>1, SMT DEF MigrationsLeft
<1>6. ASSUME Create(p) PROVE MigrationsLeft(p)' < MigrationsLeft(p)
  <2>1. /\ pc[p] = "Create" /\ current'[p] = current[p]
        /\ pc'[p] \in {"failed", "Commit"} /\ current[p] < Latest
    BY <1>2, <1>6, SMT DEF Create, Goto, LooksForNewer
  <2> QED BY <1>1, <2>1, SMT DEF MigrationsLeft
<1>7. ASSUME Commit(p) PROVE MigrationsLeft(p)' < MigrationsLeft(p)
  <2>1. /\ pc[p] = "Commit" /\ current'[p] = current[p]
        /\ pc'[p] = "GetDBVersion" /\ current[p] < Latest
    BY <1>2, <1>7, SMT DEF Commit, Goto, LooksForNewer
  <2> QED BY <1>1, <2>1, SMT DEF MigrationsLeft
<1>8. ASSUME Exit(p) PROVE MigrationsLeft(p)' < MigrationsLeft(p)
  <2>1. pc[p] = "failed" /\ pc'[p] = "stopped"
    BY <1>2, <1>8, SMT DEF Exit, Stop, Goto
  <2> QED BY <2>1, SMT DEF MigrationsLeft
<1> QED BY <1>3, <1>4, <1>5, <1>6, <1>7, <1>8 DEF Migrate

(* However many processes migrate at once, each start of one ends after at  *)
(* most three statements for each version and six more, working or failed,  *)
(* and is kept waiting only by a transaction that can commit: what is left  *)
(* to fairness in EachWorks is that statements are answered and starts not  *)
(* interrupted.                                                            *)
THEOREM MigrationsRunOut ==
    MigrateSpec =>
       /\ [](\A p \in Processes : MigrationsLeft(p) \in 0..(3 * Latest + 6))
       /\ []MigrationGoesOn
       /\ [][MigrationCounts]_migrateVars
<1> DEFINE Bounded == \A p \in Processes : MigrationsLeft(p) \in 0..(3 * Latest + 6)
           Inv == MigrateInv /\ LooksForNewer
<1>1. MigrateInit => Inv
  BY MigrateInitial, SMT DEF MigrateInit, LooksForNewer
<1>2. Inv /\ [MigrateNext]_migrateVars => Inv'
  BY MigrateStep, NewerStep
<1>3. Inv => Bounded
  <2> SUFFICES ASSUME MigrateInv, LooksForNewer, NEW p \in Processes
               PROVE  MigrationsLeft(p) \in 0..(3 * Latest + 6)
    OBVIOUS
  <2>1. /\ current[p] \in Int /\ current[p] >= -1
        /\ pc[p] \in {"GetDBVersion", "Create", "Commit"} => current[p] < Latest
        /\ pc[p] \in {"stopped", "EnsureDBVersion", "GetDBVersion",
                      "Create", "Commit", "working", "failed"}
    BY LatestAssumption, SMT DEF MigrateInv, MigrateTypeOK, Versions, None, LooksForNewer
  <2> QED BY <2>1, LatestAssumption, SMT DEF MigrationsLeft
<1>4. Inv => MigrationGoesOn
  BY LatestAssumption, SMT DEF MigrateInv, MigrateTypeOK, TxIsNext, MigrationGoesOn, Versions, None
<1>5. Inv => MigrationCounts
  BY MigrationCounted DEF MigrationCounts
<1> HIDE DEF Inv, Bounded
<1>6. MigrateSpec => [](Bounded /\ MigrationGoesOn) /\ [][MigrationCounts]_migrateVars
  BY <1>1, <1>2, <1>3, <1>4, <1>5, PTL DEF MigrateSpec
<1> QED BY <1>6, PTL DEF Bounded

-----------------------------------------------------------------------------
(***************************************************************************)
(* The blob stores, for any messages and files.  Until FILE_STORAGE is     *)
(* changed every URI names the store in use, and every object has a row    *)
(* that names it.                                                          *)
(***************************************************************************)
NamedBytesExist == \A f \in Files : uri[f] \in Stores => <<uri[f], f>> \in bytes

Unmoved == /\ \A f \in Files : f \notin Linked(edges) => uri[f] = Absent
           /\ \A f \in Files : uri[f] \in Stores => uri[f] = storage
           /\ \A s \in Stores, f \in Files : <<s, f>> \in bytes => uri[f] = s

StoresInv == StoresTypeOK /\ NamedBytesExist /\ (moved \/ Unmoved)

(* A delete takes bytes of the store in use only, those that the rows it is *)
(* given name there; and all of these, unless a foreign URI stops it.       *)
LEMMA DeletesWhatIsNamed ==
    ASSUME NEW fs \in SUBSET Files, NEW left \in DeleteBlobs(fs)
    PROVE  /\ left \subseteq bytes
           /\ \A b \in bytes \ left : \E f \in fs : b = <<storage, f>> /\ uri[f] = storage
           /\ storage = "none" => left = bytes
           /\ (\A f \in fs : uri[f] \in Stores => uri[f] = storage)
                => \A f \in fs : storage # "none" /\ uri[f] = storage => <<storage, f>> \notin left
<1> DEFINE here == {f \in fs : uri[f] = storage}
           foreign == {f \in fs : uri[f] \in Stores \ {storage}}
<1>1. CASE storage = "none"
  BY <1>1 DEF DeleteBlobs
<1>2. CASE storage = "gcs" /\ foreign # {}
  <2>1. PICK done \in SUBSET here : left = bytes \ {<<storage, f>> : f \in done}
    BY <1>2 DEF DeleteBlobs
  <2> QED BY <1>2, <2>1
<1>3. CASE storage # "none" /\ ~(storage = "gcs" /\ foreign # {})
  <2>1. left = bytes \ {<<storage, f>> : f \in here}
    BY <1>3 DEF DeleteBlobs
  <2> QED BY <1>3, <2>1
<1> QED BY <1>1, <1>2, <1>3

(* Removing edges takes the rows and the bytes of the files that lose their *)
(* last one, and of no other.                                               *)
LEMMA CollectKeeps ==
    ASSUME StoresInv, NEW removed \in SUBSET edges, Collect(removed),
           UNCHANGED <<storage, moved>>
    PROVE  StoresInv'
<1> DEFINE fs == Orphans(removed)
<1>1. /\ fs \in SUBSET Files
      /\ \A f \in Files : uri'[f] = IF f \in fs THEN Absent ELSE uri[f]
      /\ uri' = [f \in Files |-> IF f \in fs THEN Absent ELSE uri[f]]
      /\ bytes' \in DeleteBlobs(fs)
  BY DEF Collect, Orphans, Linked, StoresInv, StoresTypeOK
<1>2. /\ bytes' \subseteq bytes
      /\ \A b \in bytes \ bytes' : \E f \in fs : b = <<storage, f>> /\ uri[f] = storage
      /\ storage = "none" => bytes' = bytes
      /\ (\A f \in fs : uri[f] \in Stores => uri[f] = storage)
           => \A f \in fs : storage # "none" /\ uri[f] = storage => <<storage, f>> \notin bytes'
  BY <1>1, DeletesWhatIsNamed
<1>3. \A f \in Files : f \notin Linked(edges \ removed) => f \in fs \/ f \notin Linked(edges)
  <2> SUFFICES ASSUME NEW f \in Files, f \notin Linked(edges \ removed), f \in Linked(edges)
               PROVE  f \in Linked(removed)
    BY DEF Orphans
  <2> QED BY DEF Linked
<1> HIDE DEF fs
<1>4. StoresTypeOK'
  BY <1>1, <1>2 DEF Collect, StoresInv, StoresTypeOK
<1>5. NamedBytesExist'
  <2> SUFFICES ASSUME NEW f \in Files, uri'[f] \in Stores
               PROVE  <<uri'[f], f>> \in bytes'
    BY DEF NamedBytesExist
  <2>1. f \notin fs /\ uri'[f] = uri[f]
    BY <1>1 DEF Absent, Stores
  <2>2. <<uri[f], f>> \in bytes
    BY <2>1 DEF StoresInv, NamedBytesExist
  <2> QED BY <1>2, <2>1, <2>2
<1>6. ASSUME Unmoved PROVE Unmoved'
  <2>1. \A f \in Files : f \notin Linked(edges') => uri'[f] = Absent
    BY <1>1, <1>3, <1>6 DEF Collect, Unmoved
  <2>2. \A f \in Files : uri'[f] \in Stores => uri'[f] = storage
    BY <1>1, <1>6 DEF Unmoved, Absent, Stores
  <2>3. ASSUME NEW s \in Stores, NEW f \in Files, <<s, f>> \in bytes'
        PROVE  uri'[f] = s
    <3>1. uri[f] = s /\ s = storage /\ storage # "none"
      BY <1>2, <1>6, <2>3 DEF Unmoved, Stores
    <3>2. f \notin fs
      BY <1>1, <1>2, <1>6, <2>3, <3>1 DEF Unmoved
    <3> QED BY <1>1, <3>1, <3>2
  <2> QED BY <2>1, <2>2, <2>3 DEF Unmoved
<1> QED BY <1>4, <1>5, <1>6 DEF StoresInv

(* Each operation and a restart.                                            *)
LEMMA StoresStep == StoresInv /\ [StoresNext]_storeVars => StoresInv'
<1> SUFFICES ASSUME StoresInv, [StoresNext]_storeVars PROVE StoresInv'
  OBVIOUS
<1>1. ASSUME NEW m \in Posts, NEW fs \in SUBSET Files, Reconcile(m, fs)
      PROVE  StoresInv'
  BY <1>1, CollectKeeps DEF Reconcile
<1>2. ASSUME NEW m \in Posts, DropMessage(m) PROVE StoresInv'
  BY <1>2, CollectKeeps DEF DropMessage
<1>3. ASSUME NEW m \in Posts, NEW f \in Files, Mirror(m, f) PROVE StoresInv'
  <2>1. /\ storage \in Stores
        /\ edges' = edges \cup {<<m, f>>} /\ UNCHANGED <<storage, moved>>
    BY <1>3 DEF Mirror, StoresInv, StoresTypeOK
  <2>2. \A g \in Files : g \notin Linked(edges') => g \notin Linked(edges) /\ g # f
    <3> SUFFICES ASSUME NEW g \in Files, \A e \in edges' : e[2] # g
                 PROVE  (\A e \in edges : e[2] # g) /\ g # f
      BY DEF Linked
    <3>1. <<m, f>> \in edges' /\ <<m, f>>[2] = f
      BY <2>1
    <3> QED BY <2>1, <3>1
  <2>3. CASE bytes' = Put(f) /\ uri' = [uri EXCEPT ![f] = storage]
    <3>1. bytes' = bytes \cup {<<storage, f>>}
      BY <2>3 DEF Put
    <3>2. \A g \in Files : uri'[g] = IF g = f THEN storage ELSE uri[g]
      BY <2>3 DEF StoresInv, StoresTypeOK
    <3>3. StoresTypeOK'
      BY <2>1, <2>3, <3>1 DEF StoresInv, StoresTypeOK
    <3>4. NamedBytesExist'
      BY <2>1, <3>1, <3>2 DEF StoresInv, NamedBytesExist
    <3>5. ASSUME Unmoved PROVE Unmoved'
      <4>1. \A s \in Stores, g \in Files : <<s, g>> \in bytes' => uri'[g] = s
        BY <2>1, <3>1, <3>2, <3>5 DEF Unmoved
      <4> QED BY <2>1, <2>2, <3>2, <3>5, <4>1 DEF Unmoved
    <3> QED BY <2>1, <3>3, <3>4, <3>5 DEF StoresInv
  <2>4. CASE bytes' = bytes /\ uri' = [uri EXCEPT ![f] = IF @ = Absent THEN Unset ELSE @]
    <3>1. \A g \in Files : uri'[g] # uri[g] => g = f /\ uri[g] = Absent /\ uri'[g] = Unset
      BY <2>4 DEF StoresInv, StoresTypeOK
    <3>2. StoresTypeOK'
      BY <2>1, <2>4 DEF StoresInv, StoresTypeOK
    <3>3. Absent \notin Stores /\ Unset \notin Stores
      BY DEF Absent, Unset, Stores
    <3>4. NamedBytesExist'
      BY <2>4, <3>1, <3>3 DEF StoresInv, NamedBytesExist
    <3>5. ASSUME Unmoved PROVE Unmoved'
      BY <2>1, <2>2, <2>4, <3>1, <3>3, <3>5 DEF Unmoved
    <3> QED BY <2>1, <3>2, <3>4, <3>5 DEF StoresInv
  <2> QED BY <1>3, <2>3, <2>4 DEF Mirror
<1>4. CASE Restart
  BY <1>4 DEF Restart, StoresInv, StoresTypeOK, NamedBytesExist
<1>5. CASE UNCHANGED storeVars
  BY <1>5 DEF storeVars, StoresInv, StoresTypeOK, NamedBytesExist, Unmoved
<1> QED BY <1>1, <1>2, <1>3, <1>4, <1>5 DEF StoresNext

(* There is nothing at first.                                               *)
LEMMA StoresInitial == StoresInit => StoresInv
  BY DEF StoresInit, StoresInv, StoresTypeOK, NamedBytesExist, Unmoved, Stores, Absent

(* A delete leaves bytes behind only after FILE_STORAGE has changed, and     *)
(* never takes bytes that a row still names (blobstore's Delete).           *)
THEOREM BytesFollowRows == StoresSpec => []OnlyMovesLeaveBytes
<1>1. ASSUME StoresInv PROVE OnlyMovesLeaveBytes
  <2>1. ASSUME Unmoved PROVE OrphanBytesCollected
    BY <2>1 DEF Unmoved, OrphanBytesCollected, Stores, Absent
  <2> QED BY <1>1, <2>1 DEF StoresInv, NamedBytesExist, OnlyMovesLeaveBytes, StoresTypeOK
<1> QED BY StoresInitial, StoresStep, <1>1, PTL DEF StoresSpec

-----------------------------------------------------------------------------
(***************************************************************************)
(* Readiness, for any buffer and any StaleAfter.  At a place in the channel *)
(* the flag will be set: the last connection event before it is a connect, *)
(* or there is none and the flag is set already.                           *)
(***************************************************************************)
SetAt(i) ==
    /\ connected \/ \E j \in 1..(i - 1) : events[j] = "connected"
    /\ \A k \in 1..(i - 1) : events[k] = "disconnect"
          => \E j \in (k + 1)..(i - 1) : events[j] = "connected"

(* A message is sent on a connection, and handled with the flag set.        *)
MessagesAreConnected ==
    /\ \A i \in 1..Len(events) : events[i] = "message" => SetAt(i)
    /\ link = "up" => SetAt(Len(events) + 1)
    /\ handling => connected

(* A request that has found the flag set was ready, or the age was too high *)
(* then and is until a message has been handled.                           *)
UnreadyIsStale ==
    probe.pc = "last" => probe.wasReady \/ ~Recent

HealthInv == HealthTypeOK /\ MessagesAreConnected /\ UnreadyIsStale

(* What is sent comes after every place there was.                          *)
LEMMA SendingKeepsPlaces ==
    ASSUME HealthTypeOK, NEW ev, events' = Append(events, ev), connected' = connected,
           NEW i \in 1..(Len(events) + 1), SetAt(i)
    PROVE  SetAt(i)'
<1>1. Len(events) \in Nat /\ \A j \in 1..(i - 1) : events'[j] = events[j]
  BY DEF HealthTypeOK
<1> QED BY <1>1 DEF SetAt

(* What the loop takes was at the first place, and the others move up.      *)
LEMMA SetMovesUp ==
    ASSUME HealthTypeOK, events # <<>>, events' = Tail(events),
           connected' = Flag(Head(events)),
           NEW i \in 2..(Len(events) + 1), SetAt(i)
    PROVE  SetAt(i - 1)'
<1>1. /\ Len(events) \in Nat /\ Head(events) = events[1]
      /\ \A j \in 2..(i - 1) : events'[j - 1] = events[j]
  BY DEF HealthTypeOK
<1>2. ASSUME NEW k \in 1..(i - 2), events'[k] = "disconnect"
      PROVE  \E j \in (k + 1)..(i - 2) : events'[j] = "connected"
  <2>1. events[k + 1] = "disconnect" /\ k + 1 \in 1..(i - 1)
    BY <1>1, <1>2
  <2>2. PICK j \in (k + 2)..(i - 1) : events[j] = "connected"
    BY <2>1 DEF SetAt
  <2> QED BY <1>1, <2>2
<1>3. connected' \/ \E j \in 1..(i - 2) : events'[j] = "connected"
  <2>1. CASE \E j \in 2..(i - 1) : events[j] = "connected"
    <3>1. PICK j \in 2..(i - 1) : events[j] = "connected"
      BY <2>1
    <3>2. j - 1 \in 1..(i - 2) /\ events'[j - 1] = "connected"
      BY <1>1, <3>1
    <3> QED BY <3>2
  <2>2. CASE ~\E j \in 2..(i - 1) : events[j] = "connected"
    <3>1. events[1] # "disconnect"
      BY <2>2 DEF SetAt
    <3>2. connected \/ events[1] = "connected"
      BY <2>2 DEF SetAt
    <3> QED BY <1>1, <3>1, <3>2 DEF Flag
  <2> QED BY <2>1, <2>2
<1> QED BY <1>2, <1>3 DEF SetAt

(* A request is told of the moments at which it would have been ready; that *)
(* the last event becomes recent is one of them if the flag is set.         *)
LEMMA WatchKeeps ==
    ASSUME HealthTypeOK, UnreadyIsStale, Watch, Recent' => Recent \/ connected'
    PROVE  UnreadyIsStale' /\ probe' \in [pc : {"none", "last"}, wasReady : BOOLEAN]
<1>1. /\ probe'.pc = probe.pc
      /\ probe'.wasReady <=> probe.wasReady \/ (probe.pc # "none" /\ Ready')
      /\ probe' \in [pc : {"none", "last"}, wasReady : BOOLEAN]
  BY DEF HealthTypeOK, Watch
<1> QED BY <1>1 DEF UnreadyIsStale, Ready

(* Whatever is sent, the messages sent before it stay where they are.       *)
LEMMA SendsKeeps ==
    ASSUME HealthInv, NEW ev \in {"connected", "disconnect", "error", "message"}, Sends(ev),
           link' \in {"up", "down", "broken"},
           ev = "message" => link = "up",
           link' = "up" => ev = "connected" \/ (link = "up" /\ ev = "message")
    PROVE  HealthInv'
<1>0. PICK n \in Nat : n = Len(events)
  BY DEF HealthInv, HealthTypeOK
<1>1.  /\ n + 1 <= Buffer
      /\ events' = Append(events, ev)
      /\ UNCHANGED <<handling, connected, age, answer>> /\ Watch
  BY <1>0, HealthAssumption DEF Sends, HealthInv, HealthTypeOK
<1>2. /\ Len(events') = n + 1 /\ events'[n + 1] = ev
      /\ \A i \in 1..n : events'[i] = events[i]
      /\ events' \in Seq({"connected", "disconnect", "error", "message"})
  BY <1>0, <1>1 DEF HealthInv, HealthTypeOK
<1>3. Recent' = Recent
  BY <1>1 DEF Recent, Never
<1>4. HealthTypeOK' /\ UnreadyIsStale'
  BY <1>0, <1>1, <1>2, <1>3, WatchKeeps DEF HealthInv, HealthTypeOK, Never
<1>5. \A i \in 1..(n + 1) : SetAt(i) => SetAt(i)'
  BY <1>0, <1>1, SendingKeepsPlaces DEF HealthInv
<1>6. \A i \in 1..Len(events') : events'[i] = "message" => SetAt(i)'
  BY <1>0, <1>1, <1>2, <1>5 DEF HealthInv, MessagesAreConnected
<1>7. ASSUME link' = "up" PROVE SetAt(n + 2)'
  <2>1. CASE ev = "connected"
    BY <1>1, <1>2, <2>1 DEF SetAt
  <2>2. CASE ev = "message" /\ link = "up"
    <3>1. SetAt(n + 1)'
      BY <1>0, <1>1, <1>5, <2>2 DEF HealthInv, MessagesAreConnected
    <3> QED BY <1>1, <1>2, <2>2, <3>1 DEF SetAt
  <2> QED BY <1>7, <2>1, <2>2
<1>8. Len(events') + 1 = n + 2
  BY <1>1, <1>2
<1>9. MessagesAreConnected'
  BY <1>1, <1>6, <1>7, <1>8 DEF HealthInv, MessagesAreConnected
<1> QED BY <1>4, <1>9 DEF HealthInv

(* The loop takes a message with the flag set, and leaves it set.           *)
LEMMA TakeKeeps ==
    ASSUME HealthInv, Take
    PROVE  HealthInv'
<1>0. PICK n \in Nat : n = Len(events)
  BY DEF HealthInv, HealthTypeOK
<1>1. /\ events # <<>> /\ n >= 1 /\ n <= Buffer /\ Head(events) = events[1]
      /\ events' = Tail(events) /\ Len(events') = n - 1
      /\ \A i \in 1..(n - 1) : events'[i] = events[i + 1]
      /\ events' \in Seq({"connected", "disconnect", "error", "message"})
      /\ connected' = Flag(Head(events)) /\ handling' = (Head(events) = "message")
      /\ UNCHANGED <<link, age, answer>> /\ Watch
  BY <1>0, HealthAssumption DEF Take, HealthInv, HealthTypeOK
<1>a. handling' => Head(events) = "message"
  BY Zenon DEF Take
<1>2. Recent' = Recent /\ connected' \in BOOLEAN /\ handling' \in BOOLEAN
  BY <1>1 DEF Recent, Never, Flag, HealthInv, HealthTypeOK
<1>3. HealthTypeOK' /\ UnreadyIsStale'
  <2>1. UnreadyIsStale' /\ probe' \in [pc : {"none", "last"}, wasReady : BOOLEAN]
    BY <1>1, <1>2, WatchKeeps DEF HealthInv
  <2>2. Len(events') <= Buffer
    BY <1>1, HealthAssumption
  <2> QED BY <1>1, <1>2, <2>1, <2>2 DEF HealthInv, HealthTypeOK, Never
<1>4. \A i \in 2..(n + 1) : SetAt(i) => SetAt(i - 1)'
  BY <1>0, <1>1, SetMovesUp DEF HealthInv
<1>5. ASSUME NEW i \in 1..(n - 1), events'[i] = "message" PROVE SetAt(i)'
  <2>1. i + 1 \in 2..(n + 1) /\ i + 1 \in 1..n /\ events[i + 1] = "message" /\ (i + 1) - 1 = i
    BY <1>1, <1>5
  <2>2. SetAt(i + 1)
    BY <1>0, <2>1 DEF HealthInv, MessagesAreConnected
  <2> QED BY <1>4, <2>1, <2>2
<1>6. ASSUME link' = "up" PROVE SetAt(n)'
  <2>1. n + 1 \in 2..(n + 1) /\ (n + 1) - 1 = n
    BY <1>1
  <2>2. SetAt(n + 1)
    BY <1>0, <1>1, <1>6 DEF HealthInv, MessagesAreConnected
  <2> QED BY <1>4, <2>1, <2>2
<1>7. ASSUME handling' PROVE connected'
  <2>1. events[1] = "message" /\ 1 \in 1..n
    BY <1>a, <1>1, <1>7
  <2>2. SetAt(1)
    BY <1>0, <2>1 DEF HealthInv, MessagesAreConnected
  <2> QED BY <1>1, <2>1, <2>2 DEF SetAt, Flag
<1>8. MessagesAreConnected'
  <2>1. Len(events') = n - 1 /\ (n - 1) + 1 = n
    BY <1>1
  <2> QED BY <1>5, <1>6, <1>7, <2>1 DEF MessagesAreConnected
<1> QED BY <1>3, <1>8 DEF HealthInv

(* Sending, taking, handling, a tick and the two reads of a request.        *)
LEMMA HealthStep == HealthInv /\ [HealthNext]_healthVars => HealthInv'
<1> SUFFICES ASSUME HealthInv, [HealthNext]_healthVars PROVE HealthInv'
  OBVIOUS
<1>1. CASE Client
  BY <1>1, SendsKeeps DEF Client, Connect, Disconnect, Message, Breaks, HealthInv, HealthTypeOK
<1>2. CASE Take
  BY <1>2, TakeKeeps
<1>3. ASSUME UNCHANGED <<link, events, handling, connected>> PROVE MessagesAreConnected'
  <2>1. \A i \in 1..(Len(events) + 1) : SetAt(i) => SetAt(i)'
    BY <1>3 DEF SetAt
  <2> QED BY <1>3, <2>1 DEF HealthInv, HealthTypeOK, MessagesAreConnected
<1>4. CASE Handled
  <2>1. /\ handling /\ handling' = FALSE /\ age' \in {0, age}
        /\ UNCHANGED <<link, events, connected, answer>> /\ Watch
    BY <1>4 DEF Handled
  <2>2. connected' /\ connected' = connected
    BY <2>1 DEF HealthInv, MessagesAreConnected
  <2>3. UnreadyIsStale' /\ probe' \in [pc : {"none", "last"}, wasReady : BOOLEAN]
    BY <2>1, <2>2, WatchKeeps DEF HealthInv
  <2>4. HealthTypeOK'
    <3>1. age' \in 0..Never /\ Never' = Never
      BY <2>1, HealthAssumption DEF HealthInv, HealthTypeOK, Never
    <3> QED BY <2>1, <2>3, <3>1 DEF HealthInv, HealthTypeOK
  <2>5. \A i \in 1..(Len(events) + 1) : SetAt(i) => SetAt(i)'
    BY <2>1 DEF SetAt
  <2>6. MessagesAreConnected'
    BY <2>1, <2>5 DEF HealthInv, HealthTypeOK, MessagesAreConnected
  <2> QED BY <2>3, <2>4, <2>6 DEF HealthInv
<1>5. CASE Tick
  <2>1. /\ age <= StaleAfter /\ age' = age + 1 /\ age' \in 0..Never /\ Recent
        /\ UNCHANGED <<link, events, handling, connected, answer>> /\ Watch
    BY <1>5, HealthAssumption DEF Tick, HealthInv, HealthTypeOK, Never, Recent
  <2>2. UnreadyIsStale' /\ probe' \in [pc : {"none", "last"}, wasReady : BOOLEAN]
    BY <2>1, WatchKeeps DEF HealthInv
  <2>3. HealthTypeOK'
    BY <2>1, <2>2 DEF HealthInv, HealthTypeOK, Never
  <2> QED BY <1>3, <2>1, <2>2, <2>3 DEF HealthInv
<1>6. CASE Readyz
  <2>1. UNCHANGED <<link, events, handling, connected, age>>
    BY <1>6 DEF Readyz, ReadConnected, ReadLastEvent
  <2>2. \/ probe' = [pc |-> "last", wasReady |-> Ready] /\ connected /\ answer' = answer
        \/ probe' = NoProbe /\ answer' \in {"ready", "unready"}
    BY <1>6 DEF Readyz, ReadConnected, ReadLastEvent, Replies
  <2>3. Ready \in BOOLEAN /\ (connected => (Ready <=> Recent)) /\ (Recent' <=> Recent)
    BY <2>1 DEF Ready, Recent, Never, HealthInv, HealthTypeOK
  <2>4. UnreadyIsStale'
    <3>1. CASE probe' = [pc |-> "last", wasReady |-> Ready] /\ connected
      <4>1. probe'.wasReady = Ready
        BY <3>1
      <4> QED BY <2>3, <3>1, <4>1, Zenon DEF UnreadyIsStale
    <3>2. CASE probe' = NoProbe
      BY <3>2 DEF UnreadyIsStale, NoProbe
    <3> QED BY <2>2, <3>1, <3>2
  <2>5. probe' \in [pc : {"none", "last"}, wasReady : BOOLEAN]
    <3>1. \/ probe' = [pc |-> "last", wasReady |-> TRUE]
          \/ probe' = [pc |-> "last", wasReady |-> FALSE]
          \/ probe' = [pc |-> "none", wasReady |-> FALSE]
      BY <2>2, <2>3, Zenon DEF NoProbe
    <3>2. /\ [pc |-> "last", wasReady |-> TRUE] \in [pc : {"none", "last"}, wasReady : BOOLEAN]
          /\ [pc |-> "last", wasReady |-> FALSE] \in [pc : {"none", "last"}, wasReady : BOOLEAN]
          /\ [pc |-> "none", wasReady |-> FALSE] \in [pc : {"none", "last"}, wasReady : BOOLEAN]
      OBVIOUS
    <3> QED BY <3>1, <3>2, Zenon
  <2>6. HealthTypeOK'
    <3>1. answer' \in {"none", "ready", "unready"} /\ Never' = Never
      BY <2>2 DEF HealthInv, HealthTypeOK, Never
    <3> QED BY <2>1, <2>5, <3>1 DEF HealthInv, HealthTypeOK
  <2> QED BY <1>3, <2>1, <2>4, <2>6 DEF HealthInv
<1>7. CASE UNCHANGED healthVars
  <2>1. UNCHANGED <<link, events, handling, connected, age, probe, answer>>
    BY <1>7 DEF healthVars
  <2> QED BY <1>3, <2>1 DEF HealthInv, HealthTypeOK, UnreadyIsStale, Recent, Never
<1> QED BY <1>1, <1>2, <1>4, <1>5, <1>6, <1>7 DEF HealthNext, Loop

(* At first no connection is up, and nothing is in the channel.             *)
LEMMA HealthInitial == HealthInit => HealthInv
<1> SUFFICES ASSUME HealthInit PROVE HealthInv
  OBVIOUS
<1>1. HealthTypeOK
  <2>1. Never \in 0..Never /\ Len(<<>>) <= Buffer
    BY HealthAssumption DEF Never
  <2>2. <<>> \in Seq({"connected", "disconnect", "error", "message"})
    OBVIOUS
  <2>3. NoProbe \in [pc : {"none", "last"}, wasReady : BOOLEAN]
    BY DEF NoProbe
  <2> QED BY <2>1, <2>2, <2>3 DEF HealthInit, HealthTypeOK
<1>2. MessagesAreConnected /\ UnreadyIsStale
  BY DEF HealthInit, MessagesAreConnected, UnreadyIsStale, NoProbe
<1> QED BY <1>1, <1>2 DEF HealthInv

(* /readyz tells "ready" only of a process that was ready at one moment of  *)
(* the request: the flag cannot be lost before the last event is renewed.   *)
THEOREM ReadyIsHonest == HealthSpec => AnswersHonestly
<1>1. HealthInv /\ [HealthNext]_healthVars
        => [(probe.pc = "last" /\ probe' = NoProbe /\ answer' = "ready")
              => probe.wasReady]_healthVars
  <2> SUFFICES ASSUME HealthInv, HealthNext, probe.pc = "last", probe' = NoProbe,
                      answer' = "ready"
               PROVE  probe.wasReady
    OBVIOUS
  <2>1. CASE ReadLastEvent
    BY <2>1 DEF ReadLastEvent, Replies, HealthInv, UnreadyIsStale
  <2>2. CASE Watch
    BY <2>2 DEF Watch, NoProbe, HealthInv, HealthTypeOK
  <2>3. ~ReadConnected
    BY DEF ReadConnected
  <2> QED BY <2>1, <2>2, <2>3 DEF HealthNext, Client, Connect, Disconnect, Message, Breaks,
             Sends, Loop, Take, Handled, Tick, Readyz
<1> QED BY <1>1, HealthInitial, HealthStep, PTL DEF HealthSpec, AnswersHonestly

(***************************************************************************)
(* What the flag will be once the loop has taken all that is in the        *)
(* channel: that a connection is there, or was and broke without a word.   *)
(***************************************************************************)
FlagSettled == SetAt(Len(events) + 1) <=> link # "down"

(* An event that is sent decides if it is about the connection.             *)
LEMMA SentLast ==
    ASSUME HealthTypeOK, NEW ev, events' = Append(events, ev), connected' = connected
    PROVE  /\ ev = "connected" => SetAt(Len(events) + 1)'
           /\ ev = "disconnect" => ~SetAt(Len(events) + 1)'
           /\ ev \notin {"connected", "disconnect"} =>
                 (SetAt(Len(events) + 1)' <=> SetAt(Len(events) + 1))
<1>0. PICK n \in Nat : n = Len(events)
  BY DEF HealthTypeOK
<1>1. /\ Len(events') = n + 1 /\ events'[n + 1] = ev
      /\ \A i \in 1..n : events'[i] = events[i]
      /\ (n + 2) - 1 = n + 1 /\ (n + 1) - 1 = n
  BY <1>0 DEF HealthTypeOK
<1>2. SetAt(Len(events) + 1)' <=>
         /\ connected \/ \E j \in 1..(n + 1) : events'[j] = "connected"
         /\ \A k \in 1..(n + 1) : events'[k] = "disconnect"
               => \E j \in (k + 1)..(n + 1) : events'[j] = "connected"
  BY <1>1 DEF SetAt
<1>3. SetAt(Len(events) + 1) <=>
         /\ connected \/ \E j \in 1..n : events[j] = "connected"
         /\ \A k \in 1..n : events[k] = "disconnect"
               => \E j \in (k + 1)..n : events[j] = "connected"
  BY <1>0, <1>1 DEF SetAt
<1>4. CASE ev = "connected"
  BY <1>1, <1>2, <1>4
<1>5. CASE ev = "disconnect"
  <2>1. ~\E j \in ((n + 1) + 1)..(n + 1) : TRUE
    OBVIOUS
  <2> QED BY <1>1, <1>2, <1>5, <2>1
<1>6. CASE ev \notin {"connected", "disconnect"}
  <2>1. \A j \in 1..(n + 1) : events'[j] \in {"connected", "disconnect"}
           => j \in 1..n /\ events'[j] = events[j]
    BY <1>1, <1>6
  <2>2. \A j \in 1..n : j \in 1..(n + 1) /\ events'[j] = events[j]
    BY <1>1
  <2>3. (\E j \in 1..(n + 1) : events'[j] = "connected")
           <=> \E j \in 1..n : events[j] = "connected"
    <3>1. ASSUME NEW j \in 1..(n + 1), events'[j] = "connected"
          PROVE  \E i \in 1..n : events[i] = "connected"
      BY <2>1, <3>1
    <3>2. ASSUME NEW j \in 1..n, events[j] = "connected"
          PROVE  \E i \in 1..(n + 1) : events'[i] = "connected"
      BY <2>2, <3>2
    <3> QED BY <3>1, <3>2
  <2>4. ASSUME NEW k \in 1..n
        PROVE  (\E j \in (k + 1)..(n + 1) : events'[j] = "connected")
                  <=> \E j \in (k + 1)..n : events[j] = "connected"
    <3>1. ASSUME NEW j \in (k + 1)..(n + 1), events'[j] = "connected"
          PROVE  j \in (k + 1)..n /\ events[j] = "connected"
      <4>1. j \in 1..(n + 1)
        OBVIOUS
      <4>2. j \in 1..n /\ events'[j] = events[j]
        BY <2>1, <3>1, <4>1
      <4> QED BY <1>0, <3>1, <4>2
    <3>2. ASSUME NEW j \in (k + 1)..n, events[j] = "connected"
          PROVE  j \in (k + 1)..(n + 1) /\ events'[j] = "connected"
      <4>1. j \in 1..n
        OBVIOUS
      <4> QED BY <1>0, <2>2, <3>2, <4>1
    <3> QED BY <3>1, <3>2
  <2>5. (\A k \in 1..(n + 1) : events'[k] = "disconnect"
               => \E j \in (k + 1)..(n + 1) : events'[j] = "connected")
         <=> \A k \in 1..n : events[k] = "disconnect"
               => \E j \in (k + 1)..n : events[j] = "connected"
    <3> DEFINE P(k) == \E j \in (k + 1)..(n + 1) : events'[j] = "connected"
               Q(k) == \E j \in (k + 1)..n : events[j] = "connected"
    <3>1. \A k \in 1..n : P(k) <=> Q(k)
      BY <2>4
    <3> HIDE DEF P, Q
    <3>2. (\A k \in 1..(n + 1) : events'[k] = "disconnect" => P(k))
           <=> \A k \in 1..n : events[k] = "disconnect" => Q(k)
      BY <2>1, <2>2, <3>1
    <3> QED BY <3>2 DEF P, Q
  <2> QED BY <1>2, <1>3, <1>6, <2>3, <2>5
<1> QED BY <1>4, <1>5, <1>6

(* What the loop takes changes nothing of where it will end.                *)
LEMMA TakenFirst ==
    ASSUME HealthTypeOK, events # <<>>, events' = Tail(events),
           connected' = Flag(Head(events))
    PROVE  SetAt(Len(events) + 1)' <=> SetAt(Len(events) + 1)
<1>0. PICK n \in Nat : n = Len(events) /\ n >= 1
  BY DEF HealthTypeOK
<1>1. /\ Len(events') = n - 1 /\ Head(events) = events[1]
      /\ \A i \in 1..(n - 1) : events'[i] = events[i + 1]
      /\ ((n - 1) + 1) - 1 = n - 1 /\ (n + 1) - 1 = n
  BY <1>0 DEF HealthTypeOK
<1>2. ASSUME SetAt(Len(events) + 1) PROVE SetAt(Len(events) + 1)'
  <2>1. SetAt((n + 1) - 1)'
    BY <1>0, <1>2, SetMovesUp
  <2> QED BY <1>0, <1>1, <2>1
<1>3. ASSUME SetAt(Len(events) + 1)' PROVE SetAt(Len(events) + 1)
  <2>1. /\ connected' \/ \E j \in 1..(n - 1) : events'[j] = "connected"
        /\ \A k \in 1..(n - 1) : events'[k] = "disconnect"
              => \E j \in (k + 1)..(n - 1) : events'[j] = "connected"
    BY <1>1, <1>3 DEF SetAt
  <2>2. ASSUME NEW i \in 1..(n - 1), NEW j \in i..(n - 1), events'[j] = "connected"
        PROVE  \E m \in (i + 1)..n : events[m] = "connected"
    <3>1. j + 1 \in (i + 1)..n /\ events[j + 1] = "connected"
      BY <1>1, <2>2
    <3> QED BY <3>1
  <2>3. connected \/ \E j \in 1..n : events[j] = "connected"
    <3>1. CASE \E j \in 1..(n - 1) : events'[j] = "connected"
      <4>1. PICK j \in 1..(n - 1) : events'[j] = "connected"
        BY <3>1
      <4>2. j + 1 \in 1..n /\ events[j + 1] = "connected"
        BY <1>1, <4>1
      <4> QED BY <4>2
    <3>2. CASE connected'
      <4>1. CASE events[1] = "connected"
        BY <1>0, <4>1
      <4>2. CASE events[1] # "connected"
        <5>1. connected' = (IF events[1] = "disconnect" THEN FALSE ELSE connected)
          BY <1>1, <4>2 DEF Flag
        <5> QED BY <3>2, <5>1, Zenon
      <4> QED BY <4>1, <4>2
    <3> QED BY <2>1, <3>1, <3>2
  <2>4. ASSUME NEW k \in 1..n, events[k] = "disconnect"
        PROVE  \E j \in (k + 1)..n : events[j] = "connected"
    <3>1. CASE k = 1
      <4>1. ~connected'
        BY <1>1, <2>4, <3>1 DEF Flag
      <4>2. PICK j \in 1..(n - 1) : events'[j] = "connected"
        BY <2>1, <4>1
      <4>3. j + 1 \in (k + 1)..n /\ events[j + 1] = "connected"
        BY <1>1, <3>1, <4>2
      <4> QED BY <4>3
    <3>2. CASE k # 1
      <4>1. k - 1 \in 1..(n - 1) /\ events'[k - 1] = "disconnect"
        BY <1>1, <2>4, <3>2
      <4>2. PICK j \in ((k - 1) + 1)..(n - 1) : events'[j] = "connected"
        BY <2>1, <4>1
      <4>3. j + 1 \in (k + 1)..n /\ events[j + 1] = "connected"
        BY <1>1, <4>2
      <4> QED BY <4>3
    <3> QED BY <3>1, <3>2
  <2> QED BY <1>0, <1>1, <2>3, <2>4 DEF SetAt
<1> QED BY <1>2, <1>3

(* The flag lags behind the connection by what is in the channel, and by    *)
(* nothing else: with the channel empty it tells what the connection is,    *)
(* but that a connection that broke is still told of until a new one ends.  *)
(* The part of FlagFollows that is left to fairness is that the channel     *)
(* empties.                                                                 *)
THEOREM FlagLagsOnly ==
    HealthSpec => [](FlagSettled /\ (events = <<>> => (connected <=> link # "down")))
<1> DEFINE Inv == HealthInv /\ FlagSettled
<1>1. HealthInit => Inv
  BY HealthInitial DEF HealthInit, FlagSettled, SetAt
<1>2. Inv /\ [HealthNext]_healthVars => Inv'
  <2> SUFFICES ASSUME HealthInv, FlagSettled, [HealthNext]_healthVars PROVE FlagSettled'
    BY HealthStep
  <2>1. HealthTypeOK
    BY DEF HealthInv
  <2>2. ASSUME NEW ev, Sends(ev), ev = "connected" => link' = "up",
               ev = "disconnect" => link' = "down",
               ev \notin {"connected", "disconnect"} => (link' = "down" <=> link = "down")
        PROVE  FlagSettled'
    BY <2>1, <2>2, SentLast DEF Sends, FlagSettled
  <2>3. CASE Client
    BY <2>1, <2>2, <2>3 DEF Client, Connect, Disconnect, Message, Breaks
  <2>4. CASE Take
    BY <2>1, <2>4, TakenFirst DEF Take, FlagSettled
  <2>5. CASE UNCHANGED <<link, events, connected>>
    BY <2>5 DEF FlagSettled, SetAt
  <2> QED BY <2>3, <2>4, <2>5 DEF HealthNext, Loop, Handled, Tick, Readyz, ReadConnected,
                                  ReadLastEvent, healthVars
<1>3. Inv => FlagSettled /\ (events = <<>> => (connected <=> link # "down"))
  BY DEF HealthInv, HealthTypeOK, FlagSettled, SetAt
<1> QED BY <1>1, <1>2, <1>3, PTL DEF HealthSpec

\* No message waits in the channel, and none is handled.
NoMessage == ~handling /\ \A i \in 1..Len(events) : events[i] # "message"

\* Without a connection, once the messages are through, none comes, the age of
\* the last event only grows, by the clock alone, and what is stale stays so.
StaleStays ==
    NoMessage /\ link # "up" /\ link' # "up" =>
        /\ NoMessage'
        /\ age' = age \/ (Tick /\ age < age')
        /\ ~Recent => ~Recent'

(* A process without a connection whose messages are through can only get   *)
(* staler, and unready it stays, also where the flag is still set: the part *)
(* of EndsUnready that is left to fairness is that the loop gets through    *)
(* them and that time passes.                                              *)
THEOREM StaleForGood == HealthSpec => [][StaleStays]_healthVars
<1>1. ASSUME HealthInv, [HealthNext]_healthVars, NoMessage, link # "up", link' # "up"
      PROVE  /\ NoMessage'
             /\ age' = age \/ (Tick /\ age < age')
             /\ ~Recent => ~Recent'
  <2>0. /\ age \in 0..(StaleAfter + 2) /\ StaleAfter \in Nat
        /\ events \in Seq({"connected", "disconnect", "error", "message"})
    BY <1>1, HealthAssumption DEF HealthInv, HealthTypeOK, Never
  <2>1. CASE Client
    <3>1. PICK ev \in {"connected", "disconnect", "error"} :
              Sends(ev) /\ UNCHANGED <<handling, age>>
      BY <1>1, <2>1 DEF Client, Connect, Disconnect, Message, Breaks, Sends
    <3>2. events' = Append(events, ev) /\ ev # "message"
      BY <3>1 DEF Sends
    <3>3. NoMessage'
      BY <1>1, <2>0, <3>1, <3>2 DEF NoMessage
    <3>4. Recent' <=> Recent
      BY <3>1 DEF Recent, Never
    <3> QED BY <3>1, <3>3, <3>4
  <2>2. CASE Take
    <3>1. events # <<>> /\ Head(events) = events[1] /\ 1 \in 1..Len(events)
      BY <2>0, <2>2 DEF Take
    <3>2. events' = Tail(events) /\ handling' = FALSE /\ age' = age
      BY <1>1, <2>2, <3>1 DEF Take, NoMessage
    <3>3. NoMessage'
      BY <1>1, <2>0, <3>1, <3>2 DEF NoMessage
    <3>4. Recent' <=> Recent
      BY <3>2 DEF Recent, Never
    <3> QED BY <3>2, <3>3, <3>4
  <2>3. CASE Handled
    BY <1>1, <2>3 DEF Handled, NoMessage
  <2>4. CASE Tick
    <3>1. NoMessage'
      BY <1>1, <2>4 DEF Tick, NoMessage
    <3>2. age <= StaleAfter /\ age' = age + 1 /\ Recent
      BY <2>4 DEF Tick, Recent
    <3>3. age < age'
      BY <2>0, <3>2
    <3> QED BY <2>4, <3>1, <3>2, <3>3
  <2>5. CASE Readyz \/ UNCHANGED healthVars
    BY <1>1, <2>5 DEF Readyz, ReadConnected, ReadLastEvent, NoMessage, Recent, healthVars
  <2> QED BY <1>1, <2>1, <2>2, <2>3, <2>4, <2>5 DEF HealthNext, Loop
<1>2. HealthInv /\ [HealthNext]_healthVars => [StaleStays]_healthVars
  BY <1>1 DEF StaleStays
<1> QED BY <1>2, HealthInitial, HealthStep, PTL DEF HealthSpec

-----------------------------------------------------------------------------
(***************************************************************************)
(* Parts: whatever component takes its steps, the others stand still, so   *)
(* that what is proved of each holds of the whole.                         *)
(***************************************************************************)
(* A step of the whole is a step of one, or none, of each.                  *)
LEMMA PartsStep ==
    [PartsNext]_partsVars =>
       /\ [StartNext]_startVars
       /\ [MigrateNext]_migrateVars
       /\ [HealthNext]_healthVars
       /\ [StoresNext]_storeVars
       /\ [FtsNext]_ftsVars
  BY Zenon DEF PartsNext, partsVars, Only, AStart, AMigrate, AHealth, AStores, AFts

(* Tables that are migrated keep the record, too.                           *)
LEMMA MigratedKeeps == Migrated => MigrateInv
<1> SUFFICES ASSUME Migrated PROVE MigrateInv
  OBVIOUS
<1>1. /\ Latest + 1 \in Nat
      /\ version = [i \in 1..(Latest + 1) |-> i - 1]
      /\ \A i \in 1..(Latest + 1) : i - 1 \in Versions
  BY LatestAssumption, SMT DEF Migrated, Versions
<1>2. version \in Seq(Versions) /\ Len(version) = Latest + 1
  BY <1>1, SMT
<1>3. RecordMatchesTables
  BY <1>1, <1>2, LatestAssumption, SMT DEF Migrated, RecordMatchesTables, Versions
<1>4. MigrateTypeOK
  BY <1>2, LatestAssumption, SMT DEF Migrated, MigrateTypeOK, Versions, None
<1>5. WorksMigrated /\ TxIsNext /\ ReadIsPast
  BY SMT DEF Migrated, WorksMigrated, TxIsNext, ReadIsPast
<1> QED BY <1>3, <1>4, <1>5 DEF MigrateInv

(* Each component of the whole starts as it does alone; the migrations may  *)
(* also start where they would have ended.                                  *)
LEMMA PartsInitial ==
    PartsInit => /\ StartInit /\ HealthInit /\ StoresInit /\ FtsInit
                 /\ MigrateInv
<1>1. PartsInit => StartInit /\ HealthInit /\ StoresInit /\ FtsInit
  BY Zenon DEF PartsInit, Unstarted
<1>2. PartsInit => MigrateInit \/ Migrated
  BY Zenon DEF PartsInit
<1> QED BY <1>1, <1>2, MigrateInitial, MigratedKeeps

(* The migrated tables of a run that is about something else stay so.       *)
MigratedAside == part \in Components /\ (part # "migrate" => Migrated)

(* The part that takes its steps is the same all along.                     *)
LEMMA PartStays ==
    /\ PartsInit => MigratedAside /\ (part = "migrate" => MigrateInit)
    /\ [PartsNext]_partsVars => part' = part
    /\ MigratedAside /\ [PartsNext]_partsVars => MigratedAside'
<1>1. PartsInit => MigratedAside /\ (part = "migrate" => MigrateInit)
  BY Zenon DEF PartsInit, MigratedAside
<1>2. [PartsNext]_partsVars =>
         part' = part /\ (part = "migrate" \/ UNCHANGED migrateVars)
  BY DEF PartsNext, partsVars, Only, AStart, AMigrate, AHealth, AStores, AFts
<1>3. UNCHANGED migrateVars => (Migrated <=> Migrated')
  BY Zenon DEF migrateVars, Migrated
<1> QED BY <1>1, <1>2, <1>3, Zenon DEF MigratedAside

(* The run of the whole is a run of each component by its own               *)
(* specification, so that its checks are checks of theirs; of the           *)
(* migrations, when it is they that take the steps, and otherwise the       *)
(* tables are migrated and nothing happens to them.                         *)
THEOREM PartsRunAll ==
    PartsSpec => /\ StartSpec /\ HealthSpec /\ StoresSpec /\ FtsSpec
                 /\ part = "migrate" => MigrateSpec
                 /\ part # "migrate" => []Migrated
<1>1. PartsSpec => StartSpec /\ HealthSpec /\ StoresSpec /\ FtsSpec
  BY PartsInitial, PartsStep, PTL DEF PartsSpec, StartSpec, HealthSpec, StoresSpec, FtsSpec
<1>2. PartsSpec => (part = "migrate" => MigrateSpec)
  BY PartStays, PartsStep, PTL DEF PartsSpec, MigrateSpec
<1> DEFINE Aside == part # "migrate"
<1>3. [PartsNext]_partsVars => (Aside => Aside')
  BY PartStays
<1>4. MigratedAside /\ Aside => Migrated
  BY DEF MigratedAside
<1>5. PartsSpec => (Aside => []Migrated)
  <2> HIDE DEF Aside
  <2> QED BY PartStays, <1>3, <1>4, PTL DEF PartsSpec
<1> QED BY <1>1, <1>2, <1>5

(* A time that came by either road is one of the second of its ts.          *)
LEMMA TimesInSecond == TimesInv => TimeTypeOK
<1> SUFFICES ASSUME TimesInv, NEW u \in Messages
             PROVE  posted_at[u] \in NoTime..(Second - 1)
  BY SMT DEF TimesInv, TimeTypeOK
<1>1. u \in Nat /\ u < 1000000 /\ Second \in Nat /\ Second > 0
  BY TimestampsAssumption, SMT DEF Second
<1>2. posted_at[u] = NoTime \/ posted_at[u] \in Roads(u)
  BY SMT DEF TimesInv
<1> QED BY <1>1, <1>2, RoadNear, SMT DEF NoTime

(* Every variable of every component holds a value of its kind, the tables  *)
(* and the bytes of the blob stores included, for any constants: what the   *)
(* run of the whole checks of its small ones.                               *)
THEOREM PartsTypes == PartsSpec => []PartsTypeOK
<1> DEFINE Inv == /\ MigratedAside
                  /\ StartInv /\ MigrateInv /\ HealthInv /\ StoresInv
                  /\ FtsInv /\ TimesInv
<1>1. PartsInit => Inv
  <2>1. TimeInit => TimesInv
    BY SMT DEF TimeInit, TimesInv
  <2> QED BY <2>1, PartStays, PartsInitial, StartInitial, HealthInitial, StoresInitial,
             FtsInitial, Zenon DEF FtsInit
<1>2. Inv /\ [PartsNext]_partsVars => Inv'
  <2>1. [FtsNext]_ftsVars => [TimeNext]_posted_at
    BY Zenon DEF FtsNext, TimeNext, ftsVars
  <2> QED BY <2>1, PartStays, PartsStep, StartStep, MigrateStep, HealthStep, StoresStep,
             FtsStep, TimesStep, Zenon
<1>3. Inv => PartsTypeOK
  BY TimesInSecond, Zenon
     DEF PartsTypeOK, MigratedAside, StartInv, MigrateInv, HealthInv, StoresInv, FtsInv
<1> HIDE DEF Inv
<1> QED BY <1>1, <1>2, <1>3, PTL DEF PartsSpec
=============================================================================
