# Verification of slack-mirror

TLA+ models of `slack-mirror`, the TLC configurations that check them on small
instances, and TLAPS proofs of the properties that hold for every instance.
Modules are translated from the Go and SQL source; paths below are relative to
`src/internal/`.

## The system

`slack-mirror serve` subscribes to Slack message events over Socket Mode and
mirrors messages, edits and deletes into Postgres or SQLite. `slack-mirror
backfill` pages the visible history of the allowlisted channels into the same
tables and exits. When files are enabled `serve` and `backfill` download
attachments into a blob store.

| Component | State | Operations | Correct when | Module |
|---|---|---|---|---|
| Slack (external) | messages and their versions; unacknowledged envelopes | post, edit, remove, redeliver; history and reply pages | - | `Slack` |
| Live consumer, `consumer/consumer.go`, `app/serve.go` | the buffered event channel, the event in hand, the context | take and acknowledge, dispatch, apply, handle attachments, stop, restart | rows and attachments converge to what Slack shows; a difference is explained by a lost or repeated event | `EventPipeline`, `Service` |
| Dispatch, `dispatch/dispatch.go` | none (pure) | channel and subtype filter; event to action | only admitted messages, under the right ts | `Dispatch` |
| Apply and resolver, `consumer/apply.go`, `resolver/resolver.go` | caches of channels and users known to be written | ensure channel, ensure user, then write | a message row never lacks its channel row; the caches never run ahead of the tables | `Apply` |
| Message store, `store/store.go`, `sqlitestore/sqlitestore.go` | channels, users, messages | upsert, delete | keyed on (channel, ts), last writer wins | `Apply`, `PgStore` |
| Backfill, `backfill/backfill.go`, `app/backfill.go` | cursor, the page in hand, its own resolver | page history, page threads, upsert | ends, misses nothing, does not undo what the consumer did | `Backfill`, `LiveBackfill` |
| File mirroring, `files/download.go`, `store/store.go`, `sqlitestore/` | files, message_files | reconcile, upsert and link, download, reference-counted garbage collection | rows, edges and objects agree, and nothing unreferenced stays | `FileMirror`, `PgStore` |
| Blob stores, `blobstore/` | objects under `files/<id>` | put, delete by URI | a row's URI leads to its bytes | `FileMirror`, `BlobStores` |
| Timestamps, `dispatch/dispatch.go:53`, `backfill/backfill.go:145`, `sqlitestore/helpers.go` | posted_at | two conversions of a ts, a timestamptz or a text | a time is within a microsecond of its ts, and as a column in the order of the ts but for named exceptions | `Timestamps` |
| Health, `health/health.go` | connected flag, time of the last event | set, mark, readiness | `ready` is only told of a connected process with recent events | `Health` |
| SQLite search, `sqlitestore/search.go`, `sqlitestore/migrations/` | FTS5 index kept by triggers | insert, update, delete, search | a query finds what messages say now | `SqliteFts` |
| Start-up: `cmd`, `config/`, `backend/`, `dbconn/` | settings, open resources, exit status | load, validate, open, migrate, clean up | nothing opened before all settings were accepted; a failing step closes what was opened | `Startup` |
| Migrations, `store/migrate.go`, `sqlitestore/migrate.go` | tables, recorded versions | apply what is missing, at every start | versions and tables agree; nobody works on an old schema | `Migrations` |

The components interact by direct calls within one process: the loop of
`Consumer.Run` is one goroutine that runs dispatch, apply and the attachments of
one event to the end before it takes the next. Two processes meet only in the
database and in the blob store. What makes the behaviour hard:

- an envelope is acknowledged before its write, and may be delivered again;
- `serve` and `backfill` interleave at every statement, and backfill writes from
  responses it holds for a long time;
- each upload, statement and blob delete can fail, or the process can die,
  between any two of them; blobs are outside the transaction;
- a transaction under READ COMMITTED sees more with each statement;
- nothing waits for the loop at shutdown.

`PROJECT.json` lists these hazards line by line, with the properties that cover
them.

## Modules

**`FileMirror`** (core). Workers (the loop of `serve`, a `backfill` run) each
have one job: apply an upserted or deleted message and, for an upsert, handle its
attachments. `messages`, `files`, `edges` and `blobs` are the three tables and
the objects; `job[w]` holds the local variables of the call in progress and its
position. Each call that leaves the process is one action: `UpsertMessage`,
`ReconcileMessageFiles`, `DeleteMessage` (transactions, with `gcOrphans` as their
common end), `DeleteBlob` after the commit, then per attachment `UpsertFile`,
`LinkFile`, `Skip` or `Get`, `Put`, `SetFileStored`. A row is a download state
and whether it records a URI; an object is absent, truncated or whole. `Faults`
turns on failures of the database (a reply may be lost after the commit), of
downloads and uploads, of blob deletes, and crashes. Attachments of a message are
a set, handled in any order; which of them the filters skip is part of the
delivered message, because a file that was removed in Slack comes back without a
download URL. A transaction is one step, which is what SQLite does
(`SetMaxOpenConns(1)`).

**`PgStore`** extends `FileMirror`: the transactions of `store/store.go` statement
by statement under READ COMMITTED. `tx[w]` has the position in the transaction,
the Go variables `candidates`, `orphans` and `uris`, and the rows deleted and not
yet committed; the variables of `FileMirror` hold what is committed. A statement
that needs a row another transaction deleted waits for it (`Free`), the check of a
foreign key included; a `LinkFile` that waits for its message holds the shared lock
of its file meanwhile (`Shares`), for which a delete of file rows waits.
`DeadlockDetected` is the server breaking a circle of waits, `ForeignKeyFails` an edge that came between the search for orphans and
their delete. Everything outside the two transactions is taken from `FileMirror`,
as far as it finds its rows unlocked.

**`Slack`**. The workspace: versions of messages, threads, removals. A payload is
the number of the version it shows.

**`Dispatch`**. The pure mapping from events to actions and the two filters.

**`Apply`** extends `Slack`. `consumer.Apply` and the resolver for any set of
processes: a position in the call, a cache per process, and the rows they write.
Every Web API call with the statement that follows it is one action;
`WriteFails` is an error of any of the statements, with the write committed or
not.

**`EventPipeline`** extends `Apply` and `Dispatch`. Delivery over Socket Mode,
and the consumer: `Take` acknowledges an envelope and dispatches its event,
`Step` runs `Apply`, `Return` ends the turn. `Sigterm` cancels the context: from
then on statements may fail, events may still be taken (`select` picks either
ready case), and `Exit` may come at any time, since nobody waits for the
goroutine. `lost` is a history variable: the events that were taken and not
written.

**`Mirror`** is the abstract specification of the rows of `messages`: a row holds
a version that Slack published of an admitted message, and goes only when Slack
removed the message. `ImplementsMirror` states that `EventPipeline` implements it;
the mapping is by name, and `Admitted` is computed from the filters.

**`Service`** composes `EventPipeline` with `FileMirror`: the file side of a turn
is a job of `FileMirror` with the loop as its one worker (`F`, an instance whose
message rows are those of the pipeline). `TakeEvent` starts both sides, and leaves
open which of the attachments the file policy skips; `Upserts`
and `Deletes` are the statements they share, `Handles` is a call of
`Downloader.Handle`, and `Returns` waits for it. `unfinished` is a history
variable: messages written by a turn that was cut short.

**`Backfill`** extends `Apply` and `Dispatch`: one run with its loops over
channels, history pages, messages, reply pages and replies. A page is a snapshot
of what Slack showed when it was read. The ts of a message is a number; pages of
history run down from the newest, pages of replies up from the parent. A thread
whose parent has gone cannot be read, and any error ends the run, an error of
`Handle` included (`HandleFails`).

**`LiveBackfill`** composes `EventPipeline` and `Backfill` over one database.
`overtaken` is a history variable: messages changed while backfill held a copy it
had still to write.

**`Timestamps`**. `tsToTime` is the padded digits; `parseTS` is the double nearest
to the ts (22 bits of fraction until 2038), its fraction times 1e9, cut to an
integer. `posted_at` is the time that either process wrote last; `timestamptz` is what
Postgres keeps of it, and `rfc` the text that SQLite keeps, as the digit or the `Z` at
each place after the seconds, compared from the left by `TextBefore`.

**`SqliteFts`** extends `Timestamps`: the SQLite tables. The index holds pairs of a
rowid and a term; `messages_ai`, `messages_ad` and `messages_au` are the three
triggers, and a new row gets the largest rowid plus one, so that rowids come back.
`Hits` is the join of index and rows that `Search` makes; which of them its limit
keeps is up to the ranking.

**`Health`**. The Socket Mode client sends connection events through a bounded
channel; the loop sets the flag, and marks the time when it has handled a message;
`/readyz` reads the two in two steps, interleaved with the loop. A connection that
breaks sends an error and no disconnect.

**`Startup`**. One start from command line and environment to exit status. Every
step that opens something may fail and closes what its code closes; `open` is what
is open.

**`Migrations`**. `goose.UpContext` as used: each process reads the newest version
outside of the transaction that makes the next tables.

**`BlobStores`**. Objects and URIs of the two stores across restarts that change
`FILE_STORAGE`; one event is one step.

**`Parts`** puts the components that share no variable (`Startup`, `Migrations`,
`Health`, `BlobStores`, `SqliteFts` with `Timestamps`) into one specification: `part`
says which of them takes steps, and the others stand still.

`MC*` modules give the constants their values for TLC. `*Proofs` modules hold the
theorems.

## Runs

| Run | Instance | Checks |
|---|---|---|
| `file_single` | `PgStore`, 1 worker, 2 messages, 2 files, local blobs, all faults; symmetric in messages and files | `TypeOK`, `UriHasBlob`, `CollectsOnlyUnclaimed`, `CleanJobMirrors`, `LastEdgeCollects`, and that it implements `FileMirror` (`Spec`) |
| `file_shared` | `PgStore`, 2 workers, 2 messages, 1 file, bucket, no faults | `RefIntegrity`, `JobsEnd` |
| `file_shared_blob` | `FileMirror`, 2 workers, no faults | finds `UriHasBlob` violated |
| `file_broken_copy` | `FileMirror`, 1 worker, local blobs, copies break off | finds `UnreferencedCollected` violated |
| `pg_skew` | `PgStore`, 2 workers, no faults | finds `LastEdgeCollects` violated |
| `pipe_inorder` | `Service`, 3 messages, 5 changes, 2 files, a denied channel, a persisted subtype; only the Web API and downloads fail | `InSync`, `FilesInSync`, `NeverOlder`, `FilesConverge` |
| `pipe_faults` | `EventPipeline`, 3 messages, 3 changes, 1 redelivery, a skipped subtype; every fault | `TypeOK`, `ChannelBeforeMessage`, `SeenIsWritten`, `DivergesOnlyByLossOrRetry`, `ImplementsMirror`, `CachedRowsStay` |
| `pipe_redelivered` | 1 redelivery, no faults | finds `InSync` violated |
| `pipe_drain` | SIGTERM only | finds `Drained` violated |
| `service_faults` | `Service`, 2 messages, 3 changes, 1 redelivery, 2 files, bucket; every fault | `AttachmentsFollowRow`, `FilesAreMirrored` |
| `live_backfill` | 5 messages (one before the window, a thread, a skipped subtype, a new one), pages of 1, 2 changes; backfill's reads, writes and process fail | `BothTypeOK`, `MissesNothing`, `DivergesOnlyIfOvertaken`, `BackfillEnds` |
| `parts` | every environment of `Startup`; 3 processes and 2 migrations; `Health` with a channel of 3; 2 messages and 2 files in `BlobStores`; 3 messages, 2 terms and 4 rowids in `SqliteFts` | `PartsTypeOK` and the 14 properties of these modules |

**Bounds.** Two messages and two files are the least in which one file is shared
by two messages while another is not; more of either only adds jobs that do not
meet. A worker repeats jobs without limit, so no bound is on the length of a
history. `file_shared` needs two messages with one file for its races; the
constraint `NothingFiltered` leaves out files that the filters skip, whose
statements wait for the same rows. In the pipeline `MaxVersion = 2` lets an older
version overwrite a newer one; `MaxEvents` (3 to 5) admits post, edit and delete
of one message with events of another between; one redelivery is what it takes to
reorder. Pages of one message make every loop of backfill turn more than once.
`MaxEvents = 2` during a backfill lets a change fall between two reads and another
between a read and its write. In `Health` a channel of 3 holds a connection, its
message and its end; ages count in ticks, of which one is recent. Four rowids for
three messages let the newest one come back; `SqliteFts` hands out no more than
`MaxRowid`. The times of `parts` are neighbours and the last of a second. Of the
neighbours backfill writes 200033 and 200986 ns, for .000200 and .000201: both are
.000200 in Postgres, and in SQLite the text of .0002, when `serve` wrote it, sorts
after that of .000200986. The last one parseTS puts above its ts, and below the next
second.

**Deadlock** is checked in every run but `pipe_inorder`, `pipe_redelivered` and
`parts`, where a bounded workload or a start ends and the process then rightly
stops or waits for ever; in the other pipeline runs a process may always be
stopped or restarted.

**Fairness.** `PgFairSpec` has strong fairness of each process's own steps: a
goroutine goes on with its job, and the server wakes a statement that waits for a
row when the transaction it waits for ends, so that new transactions do not pass
it over for ever. `ServiceFairSpec` has weak fairness of the loop, which waits for
nothing but events and calls, and calls return: for downloads that is an
assumption, since `http.DefaultClient` has no timeout. Slack, SIGTERM, crashes
and restarts are under no obligation. `BothFairSpec` adds weak fairness of the
backfill run that was begun. `HealthFairSpec`: the loop takes what the channel
holds, time passes, requests are served. `MigrateFairSpec`: the platform starts a
stopped process again and its statements get their answers; `EachWorks` further
assumes that crashes end. `Parts` has the fairness of the last two for the part
that takes steps. No failure is assumed to stop recurring elsewhere: a job that
fails ends.

## What the runs show

*File mirroring, one process.* A row that records a URI has an object, even if it
was left failed by a broken re-download. An object goes only when no row and no
edge needs it. `CleanJobMirrors` says that every job none of whose calls failed
leaves exactly the attachments it was asked for, stored in full, whatever earlier
jobs left half-done: retrying an edit heals a message. The statements of
`store.go` do no more than the single step of `FileMirror`: with one process,
Postgres and SQLite behave alike.

*File mirroring, two processes.* An edge always joins two rows, on either
backend, and every job ends: some statements wait in a circle (a delete, and a
foreign-key check of another transaction or of a `LinkFile` outside of one), the
server fails one of them, and its job ends with an error. Two promises do not survive. `UriHasBlob`: process A deletes
the last message of a file and commits; B records, links, uploads and marks the
same file stored; A then deletes the object. `LastEdgeCollects`, on Postgres: two
transactions that remove the last two edges of a file each see the other's edge,
or the candidates are read just before another process links the file; the row
stays for ever.

*Message rows and attachments.* In order and without failures of the database
the mirror agrees with Slack whenever nothing is in flight, and in the end:
rows, edges, file rows and objects. With failures the difference is never
unexplained: some event about the very message was lost after its acknowledgement
or came twice, and a message has other attachments than its row says only if the
turn that wrote it was cut short. Redelivery alone breaks agreement, since an
upsert carries no version.

*Backfill.* A completed run has every message and reply that was visible in its
window when it began and still is, at least as new as it was then. It may write
back an old copy, but only of a message that changed while the copy was held.

*Times and search.* A stored time is at most 120 nanoseconds off its ts, and cut to
microseconds in Postgres it may be the one before. `ORDER BY posted_at` gives the
order of the ts with one exception in each store: in Postgres two messages one
microsecond apart may have the same time, and in SQLite a time that ends in zeros
sorts after the times that go on from its digits. The triggers keep index and table in
step through rowids that are used again; no query finds what a message no longer says.

*Readiness.* `ready` is told only of a process that was ready at some moment of
the request. The flag follows every end of a connection that the client announces;
where a connection just breaks, the age of the last event makes the process unready
in the end, provided it ever handled one.

*Start-up.* Whatever step fails, a command that returns has closed its database
resources, and none is opened before all settings were accepted. Of processes that
migrate at once, some may fail; restarted, each gets to work on the newest schema.

The findings in `PROJECT.json` quote the lines of the repository that the five
`violation` runs contradict.

### Observations

Behaviour met while modelling that no run is devoted to:

- `backfill.go:109` asks only the subtype filter, so that a channel on both lists
  is mirrored by backfill, although the denylist says "always ignore"
  (`README.md:64`).
- `helpers.go:13` writes RFC3339Nano, which cuts trailing zeros: the text of
  `...05Z` sorts after that of `...05.1Z`, so `ORDER BY posted_at` over SQLite's
  texts can reverse two messages of one second (`README.md:213`).
- Backfilling a message that `serve` captured can move its `posted_at`: by up to
  120 nanoseconds in SQLite, and back by a microsecond in Postgres, where it may then
  equal that of the message before it. `parseTS` cuts, `tsToTime` does not.
- An error of `UpsertFile` or `LinkFile` is returned from `Handle`, which skips the
  attachments after it; another process that collects the file row between the two
  calls is enough. The comment at `files/download.go:35` speaks of errors on
  individual files that do not abort the batch.
- Two processes that migrate an empty database together can both read that a
  version is missing; the start of the second fails.
- A connection that breaks before the first message was handled leaves the process
  ready for ever (`EndsUnready` names the exception).
- After a change of `FILE_STORAGE` deletes leave the bytes of the former store
  behind (`moved` in `OnlyMovesLeaveBytes`).
- The Cloud Storage client is never closed, and a signal before `serve` installs
  its handler, or at any time in `backfill`, ends the process without the cleanup
  (`Signal` in `Startup`).

## What is proved

For any values of the constants that satisfy the modules' assumptions:

`FileMirrorProofs`
- `TypeCorrect`: `Spec => []TypeOK`. Not inductive by itself, since a step uses
  the message and attachment of its job: `TypeInv` adds that a busy job has a
  message and a job at an attachment has one (`Informed`).
- `EdgesJoinRows`: `Spec => []RefIntegrity`, for any number of workers. Inductive
  relative to `TypeInv`: a transaction takes no row to which a remaining edge
  points (`GcKeeps`), updates keep rows where they are (`UpdatedKeeps`), and an
  edge is added only between two rows (the foreign keys).
- `LastEdgeTakesRow`: `Spec => LastEdgeCollects`, for any number of workers, as long
  as a transaction is one step (SQLite). `pg_skew` shows that it needs that.
- `UrisHaveBlobs` and `OnlyUnclaimedGo`, under `SingleWriter` (at most one
  worker; with two the first is false, as `file_shared_blob` shows). `BlobInv`
  strengthens `UriHasBlob` with: a row that is absent records no URI; the objects
  a job has yet to delete belong to absent rows, and a job that is not collecting
  has none; a job about to record a URI has its object.
- `CleanJobsMirror` (`CleanJobMirrors`), under `SingleWriter`. `JobInv` says what a
  job was asked for (`Asked`); that its message is there from the upsert on, and what
  it has ticked off is attached (`Filed`); and that while none of its calls failed each
  of those files is as the policy wants it (`Kept`, `Settled`). Objects are deleted only
  before the first file is ticked off, so none of theirs goes later.
- `JobsRunOut`, the part of `JobsEnd` that is not fairness. `StepsLeft` counts the calls
  left to a job, weighted by where it stands with its attachment: for n files at most
  7n + 3, nothing exactly if it is idle, and each call and each failure takes from it and
  leaves the other workers' alone. It assumes that `Files` is finite, as do the other
  results that count files: a message names finitely many.

`PgStoreProofs`
- `PgEdgesJoinRows`: `PgSpec => []RefIntegrity`, for any number of processes
  and all faults. `PgInv` adds `TxTakes`: no edge but those a transaction takes is
  left to a message it takes, and none to a file it takes once the check of the
  foreign key is done; its locks keep new ones away (`LinkNeeds`).
- `PgImplementsFileMirror`: `PgSpec => Spec` under `SingleWriter`; the run `file_single`
  has it as a refinement. `TxExact`: what an open transaction has read and decided is
  what `FileMirror`'s one step would do now, since nobody else writes; so each
  statement is a stutter and the commit is that step. With two writers it is false
  (`pg_skew`).
- `PgSingleWriterMirrors`: hence `UriHasBlob`, `CollectsOnlyUnclaimed`,
  `LastEdgeCollects` and `CleanJobMirrors` hold over Postgres with one writer.
- `PgJobsRunOut`: the same measure with the statements of a transaction added (7n + 8),
  for any number of processes; a rollback ends its job and is not tried again.
- `NeverStandsStill`: while any process has a job, some process can take its next
  statement or call (`CanGo`), or somebody is in a circle of waits, which the server
  breaks. Whatever a statement waits for is held by an open transaction
  (`HoldersInside`), and those wait at three of their statements only; so a chain of
  waits ends at one that can go, or runs in a circle. That a delete may wait for a
  `LinkFile` too only adds circles.

`PipelineProofs`, for any faults, redeliveries and filters
- `RowsImplementMirror`: `Spec => ImplementsMirror`. `PipeInv` says that whatever
  travels, in envelopes, in the channel and in calls, was published by Slack.
- `CachesFollowTables`, `ChannelsComeFirst`, `CachedNamesStay`: from `Written`,
  which ties caches and call positions to rows.

`ServiceProofs`, for any attachments of any version of a message, shared or not
- `ServeMirrorsFiles`: `ServiceSpec => FilesAreMirrored`, step by step; so the
  theorems about `FileMirror` with a single writer are about `serve`.
- `ServeRunsPipeline`: `ServiceSpec => Spec` (of `EventPipeline`), so those of
  `PipelineProofs` and `DeliveryProofs` are too; `ServeInSync` is `MirrorInSync` so
  carried over.
- `AttachmentsAsWritten` (`AttachmentsFollowRow`), under every fault. `ServeInv` ties
  both halves of a turn together: where the call stands tells where the file job does
  (`Paired`); the job was asked for the attachments of the version in the row; the
  edges of its message lie between what it has ticked off and that (`Halfway`); and
  every other message that no turn left half done has its attachments (`Agree`).
- `ServeFilesInSync` (`FilesInSync`), under `OnlyFetchesFail`: `Reliable`, and no
  failure to copy or to delete an object. `InHandOnly`: then a file row without an edge
  is the one about to be linked, and an object without a URI is one the turn is
  storing or about to delete. It assumes `Past = {}` as `MirrorInSync` does.
- `ServeKeepsRows`, `ServeNeverOlder` and `ServeDivergesOnlyByLossOrRetry` carry the
  theorems about rows over to `serve` with attachments, under their own assumptions.
- `ServeKeepsFiles`: those about files, under every fault, shutdown and restart: an edge
  joins two rows, a URI has its object, only unclaimed objects go, the last edge takes the
  row, and a turn without failure mirrors its message in full. `FP` is `FileMirrorProofs`
  with the loop as its worker; `SameSteps` and `SameStart` say that its steps are those
  of `F`. `TurnsRunOut` is `JobsRunOut` so carried over.
- `LoopDrains`, the part of `FilesConverge` that is not fairness, under every fault.
  `LoopLeft` is a share of 7n + 8 for each event that waits, plus what both sides of the
  turn in hand have left. There is something left exactly if the loop can take a step
  (`LoopCanGo`, the guards of `Goes`, for which `Paired` is needed: neither side of a turn
  waits for the other in vain); each step, failed or not, leaves less; an exit leaves
  nothing; and only an event that Slack sends adds its share.

`DeliveryProofs`, about `EventPipeline` too. The invariant goes message by message.
The events of one wait in the channel in their order, behind the one in hand
(`InLine`); unless one of them was lost or repeated, the last is about the last change
of the message (`LastIsTop`). `TurnOK`: the loop has the action that `Dispatch` made
of the event in hand. `RowOK`: once no event of a message waits, its row agrees with
Slack, or the call that will make it agree has not ended.
- `RowsDivergeOnlyByLossOrRetry`, with every fault.
- `MirrorInSync`, under `Reliable`: no redelivery, and no failure of the database,
  crash or SIGTERM (`NothingLost` is then an invariant). `pipe_redelivered` and
  `pipe_drain` show that it cannot do without.
- `RowsNeverOlder`, under `MaxResent = 0` and any other fault, from `NotAhead`: nothing
  on its way to a row is older than the row.
- `LivePathTypes`: `Spec => []TypeOK`, events on their way, in hand and lost included
  (`PublishedTypes`, `CallTypes`).

The first two assume `Past = {}`, messages posted while `serve` is there: one of `Past`
was in Slack before, and has no row until backfill brings it.

`BackfillProofs`, about `serve` and `backfill` over one database, interleaved step by
step. `RunInv` says where each loop of the run may stand: what it holds was read from
Slack, a page has one copy of a message, replies belong to the message in hand, and
a row is written only after the steps that precede it.
- `BothImplementMirror`, `BothTypes`, `BothCachesFollow`, `BothChannelsFirst`: from
  `RunInv` and the invariants of `PipelineProofs`, for any faults of both. Each of the
  two leaves the other's invariants alone, since rows of channels stay and a copy was
  a version that Slack published.
- `OnlyOvertakenDiverge`, for any number of pages, threads, failures and repetitions
  of the run. `OvertakenInv` adds to the invariant of `DeliveryProofs` that a copy
  which backfill has still to write (`Pending`) is of the version that Slack shows, or
  its message is in `overtaken` (`Fresh`). It assumes `Reliable`, of the faults of
  `serve` alone, and `ListsApart`: no channel is on both lists, since backfill asks
  only the subtype filter (see the observations).
- `PagingMissesNothing` (`MissesNothing`), under the same two assumptions. `PagingInv`
  follows each message that was there when the run began and that the run owes: it is
  in its row, or `serve` is about to bring it (`Arrives`), or the run has yet to come
  by (`Awaits`): by its channel, its page, its turn on the page, or the replies of its
  thread. Pages go by time, so what the cursor has passed was on an earlier page.
- `RunsRunOut`, the part of `BackfillEnds` that is not fairness. `Left` is what the run
  has left on its five nested loops: channels, pages, messages, pages of replies, replies.
  Each step of a run ends it or lowers them in lexicographic order, in which there is no
  endless descent (`LeftRunsOut`); no step of `serve` or of Slack changes them, since a
  page is a snapshot and the cursor only moves one way; and a run under way has a step to
  take. It assumes `ListsApart` and a finite allowlist.

`SqliteFtsProofs`
- `TimesNear` (`WithinMicrosecond`), for every ts: from the error of the double
  (`FloatNear`) and of its fraction cut to nanoseconds (`ParseNear`).
- `TimesOrdered` (`OrderKept`), for every two ts of a second. The nanoseconds are in
  order, and so are their microseconds, or equal for neighbours (`RoadCut`,
  `CutOrdered`). The texts are compared place by place (`PlaceStep`, `AgreeNext`): at
  the first place where they differ the later one has the larger digit, unless the
  earlier one ends there (`TextsOrdered`).
- `IndexFollowsRows`, inductive with the types and distinct rowids;
  `SearchFindsCurrent` (`SearchAgrees`) follows. `RowsKeepTimes` carries the two
  theorems about times over to the rows of this store.

`PartsProofs`, about components that share no variable:
- `RecordedInOrder` and `WorkersMigrated`, for any number of processes and
  versions. `TxIsNext` says that an open transaction makes the version after the
  newest and is alone; `ReadIsPast` that what a process read is not newer than what
  is recorded.
- `ReturnsAreClosed`, `WorkIsEquipped`, `ChecksComeFirst`, for every environment and
  whichever step fails: `StartInv` says for each stage of the start what it has
  checked (`Placed`, `Routed`) and what it holds open (`Held`).
- `BytesFollowRows`, for any files, messages and moves between stores. `StoresInv`:
  named bytes exist; and until the first move no others do, all in one store
  (`Unmoved`).
- `ReadyIsHonest`: `HealthInv` says that a message is handled only while the flag is
  set (`MessagesAreConnected`), so that the flag cannot go, and the last event be
  renewed, between the two reads of a request that was never ready: when the second
  read is due, the process was ready at some moment of the request, or its last event
  is too old (`UnreadyIsStale`).

- `MigrationsRunOut`: of any number of processes and versions, a start ends after at most
  three statements for each version and six more, and what a waiting process waits for
  is a transaction that can commit.
- `FlagLagsOnly`: what the flag will be once the channel is empty is what the connection
  is (`FlagSettled`), except that a connection that broke is still told of until a new one
  ends.
- `StaleForGood`: a process without a connection, once its messages are through, gets only
  staler, and once stale stays so, whatever the flag says.
- `PartsRunAll`: a behaviour of `Parts` is one of `StartSpec`, `HealthSpec`,
  `StoresSpec` and `FtsSpec`, and of `MigrateSpec` when the migrations are the part
  that takes the steps; otherwise the tables are migrated and stay so (`Migrated`). So
  the run `parts` checks what it says it does. `PartsTypes`:
  `PartsSpec => []PartsTypeOK`.

Every invariant and every action property that a passing run checks is so proved, for
any values of the constants within the assumptions named here, as is each refinement.
Only model-checked is the liveness:
`JobsEnd`, `FilesConverge`, `BackfillEnds`, `EachWorks`, `FlagFollows`, `EndsUnready`.
Fairness, `ENABLED` and so `WF_` and `SF_` are out of the prover's reach. Of the first
four the theorems prove what fairness cannot give: that what is left only shrinks
(`JobsRunOut`, `PgJobsRunOut`, `LoopDrains`, `RunsRunOut`, `MigrationsRunOut`), and that
somebody can always go on (`NeverStandsStill`, `LoopDrains`, `RunsRunOut`,
`MigrationsRunOut`), with the guards of the steps written out in the place of `ENABLED`;
of the other two, where the flag settles (`FlagLagsOnly`) and that nothing but a new
connection makes a stale process ready (`StaleForGood`). That the process which can go
on does, that the channel empties and that time passes is the runs' to show.

## Abstractions

- Local blobs are used by one process (`FileMirrorAssumption`); two share a
  bucket.
- The Socket Mode payload is always present, an edit always carries its inner
  message, and a ts always parses.
- Columns other than the version of a message, the download state and URI of a
  file, and the presence of a name are left out of the pipeline; `posted_at` and
  the text are in modules of their own. A re-upload of a file is the same bytes.
- `EventPipeline` has an unbounded channel; `Health` has the bounded one, whose
  sender waits.
- Row locks of Postgres are those of deleted rows, the ones another statement here
  can wait for, and the shared lock of a `LinkFile` that waits. A statement takes its
  locks at once: a circle of statements that each have part of theirs is left out. Its
  outcome is that one of them fails, which the model has as a failed statement.
  Upserts of message rows commit at once.
- A rowid is one more than the largest in use, as SQLite chooses; VACUUM, which may
  renumber rows, is never run by the program.
- A text is the set of its terms, a query is one term.
- `Startup` reduces the parsing of numbers and lists to whether it succeeds.

## Not modelled

- Images, CI and the Litestream configuration: they hold no state the code reads.
- The tsvector column and its GIN index: the server generates the column from the
  row in the same statement, and no code of the program reads it.
- Tokenizing, query syntax and ranking of FTS5: the library's.
- The two counters of `/metrics`, which only grow and which nothing reads, and
  `/healthz`, which always answers ok.
- An ill-formed ts, whose error path only drops the event.
