------------------------------- MODULE Startup -------------------------------
(***************************************************************************)
(* One start of the program, from the command line and the environment to  *)
(* its exit status: cmd/slack-mirror/main.go, internal/config, and what    *)
(* app.Serve and app.Backfill do before and after their work: they build   *)
(* the blob store, then the backend (backend.Select, dbconn.New,           *)
(* sqlitestore.Open), each of which may fail and must then close what it   *)
(* has opened.  The work itself is one state here, "run"; the modules      *)
(* EventPipeline, Backfill and Service look inside it.                     *)
(***************************************************************************)
EXTENDS Integers, FiniteSets

VARIABLES env,           \* the command line and the environment, read once
          stage,         \* where the start is
          open,          \* the resources open: clients, pools, handles
          blobs,         \* the blob store in use: "none", "local" or "gcs"
          exit           \* exit status; Alive until the process ends

startVars == <<env, stage, open, blobs, exit>>

Alive == -1
Killed == 143            \* ended by a signal that nothing handles

CloudSQL == {"CLOUDSQL_INSTANCE", "DB_NAME", "DB_USER"}

(* What Load tells apart.  An unset variable is one of the values of its    *)
(* default; numbers says that BACKFILL_DAYS and FILE_MAX_BYTES are unset or *)
(* parse; "other" is any value the code does not know.                      *)
Environment ==
    [command : {"serve", "backfill", "other"},
     tokens  : SUBSET {"SLACK_APP_TOKEN", "SLACK_BOT_TOKEN"},
     numbers : BOOLEAN,
     allow   : BOOLEAN,                               \* CHANNEL_ALLOWLIST
     storage : {"none", "local", "gcs", "other"},     \* FILE_STORAGE
     places  : SUBSET {"FILE_DIR", "FILE_BUCKET"},
     backend : {"postgres", "sqlite", "other"},       \* STORE_BACKEND
     url     : BOOLEAN,                               \* DATABASE_URL
     cloud   : SUBSET CloudSQL]

FilesEnabled(e) == e.storage # "none"
SqliteEnabled(e) == e.backend = "sqlite"
useDirectURL(e) == e.url
hasDBAny(e) == SqliteEnabled(e) \/ e.url \/ e.cloud # {}     \* mutant
hasDB(e) == SqliteEnabled(e) \/ e.url \/ e.cloud = CloudSQL

ValidateServe(e) ==
    e.tokens = {"SLACK_APP_TOKEN", "SLACK_BOT_TOKEN"} /\ hasDB(e)
ValidateBackfill(e) == "SLACK_BOT_TOKEN" \in e.tokens /\ hasDB(e)

StartInit == /\ env \in Environment
             /\ stage = "parseCommand"
             /\ open = {}
             /\ blobs = "none"
             /\ exit = Alive

At(step) == stage = step /\ exit = Alive
Proceed(step) == stage' = step /\ UNCHANGED <<env, exit>>

(* An error: everything in closing is closed, and main exits with status 1  *)
(* after the deferred calls of the command, if it has any by then.          *)
FailClosing(closing) ==
    /\ open' = open \ closing
    /\ exit' = 1
    /\ UNCHANGED <<env, stage, blobs>>
Fail == FailClosing({})

-----------------------------------------------------------------------------
parseCommand ==
    /\ At("parseCommand")
    /\ \/ env.command # "other" /\ Proceed("Load") /\ UNCHANGED <<open, blobs>>
       \/ env.command = "other" /\ exit' = 2 /\ UNCHANGED <<env, stage, open, blobs>>

Load == /\ At("Load")
        /\ \/ env.numbers /\ Proceed("Validate") /\ UNCHANGED <<open, blobs>>
           \/ ~env.numbers /\ Fail

AcceptsNoList(e) ==      \* mutant
    \/ e.command = "serve" /\ ValidateServe(e)
    \/ e.command = "backfill" /\ ValidateBackfill(e)
Accepts(e) ==
    \/ e.command = "serve" /\ ValidateServe(e)
    \/ e.command = "backfill" /\ ValidateBackfill(e) /\ e.allow

Validate ==
    /\ At("Validate")
    /\ \/ Accepts(env) /\ Proceed("NewBlobs") /\ UNCHANGED <<open, blobs>>
       \/ ~Accepts(env) /\ Fail

(* blobstore.New, called only when files are enabled; making the Cloud      *)
(* Storage client may fail.                                                *)
NewBlobs ==
    /\ At("NewBlobs")
    /\ \/ /\ ~FilesEnabled(env)
          /\ Proceed("Select") /\ UNCHANGED <<open, blobs>>
       \/ /\ env.storage = "local" /\ "FILE_DIR" \in env.places
          /\ blobs' = "local" /\ Proceed("Select") /\ UNCHANGED open
       \/ /\ env.storage = "local" /\ "FILE_DIR" \notin env.places
          /\ Fail
       \/ /\ env.storage = "gcs" /\ "FILE_BUCKET" \in env.places
          /\ blobs' = "gcs" /\ open' = open \cup {"gcs"} /\ Proceed("Select")
       \/ /\ env.storage \in {"gcs", "other"}
          /\ Fail

(* backend.Select: any other name than "sqlite" is Postgres.               *)
Select ==
    /\ At("Select")
    /\ Proceed(CASE SqliteEnabled(env) -> "OpenSqlite"
                 [] ~SqliteEnabled(env) /\ useDirectURL(env) -> "NewPool"
                 [] OTHER -> "NewDialer")
    /\ UNCHANGED <<open, blobs>>

NewDialer ==
    /\ At("NewDialer")
    /\ \/ open' = open \cup {"dialer"} /\ Proceed("NewPool") /\ UNCHANGED blobs
       \/ Fail

(* ParseConfig and NewWithConfig; the dialer is closed when either fails.  *)
NewPool ==
    /\ At("NewPool")
    /\ \/ open' = open \cup {"pool"} /\ Proceed("Migrate") /\ UNCHANGED blobs
       \/ FailClosing({"dialer"})

(* MkdirAll and sql.Open, which makes the handle and connects to nothing.  *)
OpenSqlite ==
    /\ At("OpenSqlite")
    /\ \/ open' = open \cup {"sqlite"} /\ Proceed("Migrate") /\ UNCHANGED blobs
       \/ Fail

(* store.Migrate, or SQLite's Ping and sqlitestore.Migrate, and what the   *)
(* caller closes when they fail.                                           *)
MigrateFailsKeepsDialer == FailClosing({"pool", "sqlite"})      \* mutant
MigrateFails == FailClosing({"dialer", "pool", "sqlite"})
MigrateSchema ==
    /\ At("Migrate")
    /\ \/ Proceed("run") /\ UNCHANGED <<open, blobs>>
       \/ MigrateFails

(***************************************************************************)
(* The work ends: Backfill is complete or has failed, or serve's consumer  *)
(* has, or serve has taken the signal it asked for, which is no error.     *)
(* The deferred cleanup closes the backend before main exits.              *)
(***************************************************************************)
cleanup == open \ {"pool", "dialer", "sqlite"}
Return(status) ==
    /\ At("run")
    /\ open' = cleanup
    /\ exit' = status
    /\ UNCHANGED <<env, stage, blobs>>

Ends == Return(0) \/ Return(1)

(* A signal that no handler is installed for ends the process where it is: *)
(* serve installs its handler last, backfill never does.                   *)
Signal ==
    /\ exit = Alive
    /\ ~(stage = "run" /\ env.command = "serve")
    /\ exit' = Killed
    /\ UNCHANGED <<env, stage, open, blobs>>

StartNext == \/ parseCommand \/ Load \/ Validate \/ NewBlobs \/ Select
             \/ NewDialer \/ NewPool \/ OpenSqlite \/ MigrateSchema \/ Ends \/ Signal

StartSpec == StartInit /\ [][StartNext]_startVars

-----------------------------------------------------------------------------
StartTypeOK == /\ env \in Environment
               /\ stage \in {"parseCommand", "Load", "Validate", "NewBlobs", "Select",
                             "NewDialer", "NewPool", "OpenSqlite", "Migrate", "run"}
               /\ open \subseteq {"gcs", "dialer", "pool", "sqlite"}
               /\ blobs \in {"none", "local", "gcs"}
               /\ exit \in {Alive, 0, 1, 2, Killed}

Databases == {"dialer", "pool", "sqlite"}

(***************************************************************************)
(* Whichever step fails, a command that returns to main has closed every   *)
(* database resource it opened.  (Its Cloud Storage client is never closed:*)
(* only the end of the process releases it.)                               *)
(***************************************************************************)
ReturnsClosed == exit \in {0, 1, 2} => open \cap Databases = {}

(***************************************************************************)
(* A command that works has what its work uses and nothing else: the       *)
(* tokens it talks to Slack with, one database by one path, and a blob     *)
(* store exactly when files are mirrored.                                  *)
(***************************************************************************)
WorksEquipped ==
    stage = "run" /\ exit = Alive =>
       /\ "SLACK_BOT_TOKEN" \in env.tokens
       /\ env.command = "serve" => "SLACK_APP_TOKEN" \in env.tokens
       /\ env.command = "backfill" => env.allow
       /\ blobs = env.storage
       /\ "gcs" \in open <=> blobs = "gcs"
       /\ open \cap Databases =
             IF env.backend = "sqlite" THEN {"sqlite"}
             ELSE IF env.url THEN {"pool"} ELSE {"pool", "dialer"}
       /\ "dialer" \in open => env.cloud = CloudSQL

(***************************************************************************)
(* A start whose settings are incomplete never touches a database: all of  *)
(* them, the file settings too, have been refused by then.                 *)
(***************************************************************************)
ChecksFirst ==
    open \cap Databases # {} =>
       /\ env.numbers
       /\ env.storage # "other"
       /\ env.storage = "local" => "FILE_DIR" \in env.places
       /\ env.storage = "gcs" => "FILE_BUCKET" \in env.places
       /\ env.backend # "sqlite" => env.url \/ env.cloud = CloudSQL
       /\ env.command = "backfill" => env.allow
=============================================================================
