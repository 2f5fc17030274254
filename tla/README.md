# OpenSnow: formal models

TLA+ specifications of the parts of OpenSnow whose correctness depends on the
order of events, on what survives a failure, or on two pieces of code agreeing
about the same data. Each module is translated from the Rust source;
`PROJECT.json` maps every definition to the lines it stands for. TLC checks small
instances and TLAPS proves the invariants that matter most for every value of
the constants.

Paths below are relative to `src/crates/` unless they start with `docs/`.

## The system

OpenSnow is a SQL warehouse in one Rust binary built on DataFusion. A server
process runs an engine behind HTTP, PostgreSQL wire and MCP front ends; further
crates add a catalog (SQLite or Postgres), identity and access control, streaming
ingest, a Redis job queue with warm workers, an Iceberg table format, a
coordinator with Flight workers, a Kubernetes reconciler of warehouses, and packs
of sample data and functions.

| Component | State | Operations | Properties that make it right | Module |
|---|---|---|---|---|
| Ingest buffer and compactor (`opensnow-server/src/ingest_buffer.rs`) | rows per (tenant, table), counters, Parquet directories, the session's registrations | push, interval or threshold flush, re-buffering, registration, status | acknowledged rows are neither lost (without a crash) nor doubled; they become visible unless their directory is spoiled | IngestLog, IngestBuffer |
| Pipes and file watcher (`opensnow-ingest/src/pipe.rs`, `file_watcher.rs`) | pipes, watcher handles, events, copies | create, drop, event, copy | a file finished under a watcher is copied whole | FilePipes |
| Kafka consumer (`opensnow-ingest/src/kafka.rs`) | buffer, schema, committed offset, files | receive, flush, stop | a message with a record is buffered, stored once, or given up for a reason | KafkaIngest |
| Job queue and warm pool (`opensnow-queue`) | Redis lists and status hashes, readiness flags, job loops | push, BRPOP, set_status, warm-up, shutdown | first in first out; at most one run; a reported status was true; nobody waits for ever | JobQueue |
| Iceberg tables (`opensnow-iceberg`) | metadata and data files, the handles' copies | create_table, open, append, scans | every metadata file is readable; committed appends are found again | IcebergTable |
| Engine tables and materialized views (`opensnow-core`) | Parquet files, the session, catalog rows | CREATE TABLE AS, COPY INTO, DROP TABLE, CREATE / REFRESH / DROP MATERIALIZED VIEW, start-up | a registered name has a file; an answer stands across restarts | Tables |
| Scanners of a statement (`sql_guardrails.rs`, `commands.rs`, `rest.rs`) | none | split, tokenize, find keywords and targets | what was checked is what runs | SqlText |
| Worker pool (`opensnow-distributed`) | pool with heartbeat ages, readiness, messages in flight | register, heartbeat, get_available_workers, check_health, deregister | only recently heard workers are offered, and of those started with a readiness flag only warm ones | Membership, WorkerPool |
| Scatter-gather (`opensnow-distributed`) | plan, fragments, engine channels, merged answer | execute_query, split_query, execute_fragment, merge_results | an answer is exact; each query is answered | ScatterGather |
| Warehouses and their controllers (`opensnow-core/src/commands.rs`, `operator.rs`, `k8s.rs`) | catalog rows, StatefulSets, plans | CREATE / ALTER WAREHOUSE, list, observe, plan, scale | the replicas settle at what the rows ask for | Reconciler |
| Configuration and start (`config.rs`, `engine.rs`, `server.rs`, catalog migrations) | configuration, schema, listeners | load, validate, build, migrate, bind, serve, end | what serves is ready and as configured; nothing stays half up | ServerStart |
| Secret store (`opensnow-auth/src/secrets.rs`) | sealed secrets, key ring | create, rotate, revoke, resolve, reseal | revoked is final; retired keys can be dropped | SecretStore |
| Single sign-on (`opensnow-auth/src/sso.rs`) | connections, mappings, login transactions, sessions | administration, start, callback, validate, end | nothing outlives its connection | SsoLogin |
| Service and evaluation clients (`opensnow-server/src/auth.rs`, catalog) | rows, a registry per process, quotas | create, rotate, revoke, token, bearer requests | a revoked client is refused everywhere | Identity |
| SCIM (`opensnow-server/src/auth.rs`) | tokens, users, groups | rotate, revoke, POST, PUT, PATCH, DELETE, groups | an issued and stored token works until it is revoked, but for rotations that overlap or guess an id | ScimDirectory |
| MCP server and signing keys (`opensnow-mcp`, `jwt.rs`, `oidc_verifier.rs`) | key sets, cached keys, calls, one engine thread | roll over, fetch, verify, authorize, call | trust follows the issuers; a roll-over keeps tokens | McpGateway |
| Agent tools (`opensnow-agent`) | model files, schedule, dashboards, charts, tables | dbt_write_model, dbt_delete_model, dashboard_create, chart_create, refactoring | what a call leaves for others is whole, but for writes cut off and answers that cannot be read | AgentTools |
| Control plane and audit (`auth.rs`, catalog) | accounts, organizations, workspaces, bindings, exports, warehouses, audit chain | bootstrap, create, upsert, audit, verify | what is stored lies under an organization that is stored; an account keeps to its limit, but for requests that race; what verifies is genuine | ControlPlane |
| dbt pipeline and saved charts (`pipeline.rs`, `charts.rs`) | running flag, artifacts, chart file | trigger, schedule, page; save, delete | runs do not overlap; the page is truthful; a saved chart stays | Workspace |
| Front ends and engine thread (`rest.rs`, `pg.rs`, `engine_handle.rs`) | handlers, channel, gauge, history | query, ingest, replace, pg query | every request is answered and accounted for, best-effort rows included | Frontend |
| Export (`pg_sink.rs`) | the target table | create, truncate, load, append | what is reported was done | PgExport |
| Sample data and pack functions (`bench.rs`, `opensnow-industry`, `opensnow-cli`) | Parquet files | generators; check digits and number formats | tables can be joined; functions agree | Datasets, ScalarFunctions |
| Redis worker registry, rewriter, metrics, GPU, storage wrapper | | | | not modelled |

How they interact. A REST handler pushes rows into the ingest buffer and returns;
the compactor, a task of the same process, writes files and registers them with
the engine. The front ends send commands over a bounded channel to the engine's
thread, which runs one at a time. Control-plane handlers share nothing but the
catalog, and each opens a handle of its own. Processes copy rows of clients and
SCIM tokens into memory, so they disagree for a while. The coordinator reads the
scheduler's pool once per query and then talks to workers by Flight; workers call
it only to register and to beat. Queue producers and workers share nothing but
Redis; controllers share catalog rows and StatefulSets. Everything that survives a
restart is in files, the catalog database or Redis.

Hard behaviours: a flush that fails for some tables while rows keep coming; a
status written after the event that overtakes it; a blocking command on a shared
connection; a pool, a plan, a row or a key set that is read, and stale when it is
used; heartbeats stamped by another clock; files truncated before they are
written; two stores (file, session, catalog) that change one after the other; a
login that waits for its provider while its connection is deleted; a request that
times out and is executed all the same; scanners that each know their own rules
for comments. They are listed line by line under `hazards` in `PROJECT.json`.

## Modules

Each component has one module; an MC module gives a group of them to TLC.

| MC module | Components | Proofs |
|---|---|---|
| MCFeeds | IngestBuffer (refines IngestLog), FilePipes, KafkaIngest | Feeds_proofs |
| MCJobQueue | JobQueue (refines JobLog) | JobQueue_proofs |
| MCStorage | IcebergTable, Tables, JobQueue, SqlText, Datasets, PgExport, ScalarFunctions | Tables_proofs (Tables, IcebergTable, Datasets, PgExport), Texts_proofs (SqlText, ScalarFunctions), JobQueue_proofs |
| MCCluster | WorkerPool (refines Membership), Reconciler, ServerStart | Cluster_proofs |
| MCScatterGather | ScatterGather (extends Membership) | ScatterGather_proofs |
| MCIdentity | SecretStore, SsoLogin, Identity, ScimDirectory, McpGateway, AgentTools | Access_proofs |
| MCServices | ControlPlane, Workspace, Frontend | Services_proofs |

The components of one MC module share no state. A variable `area` names the one
that a behaviour exercises, and the others stay at rest: the run then adds their
state spaces instead of multiplying them, and loses no interleaving that could
matter. A component with many initial states starts in only one of them while it
is at rest. Components that do interact are composed: Membership joins the two
halves of the distributed system (WorkerPool is shown to implement it and
ScatterGather runs its queries on it), ServerStart joins configuration, catalog
migration and listeners, Frontend joins handlers, channel, engine and history, and
McpGateway joins the issuers' roll-over, the verifier's cache and the MCP thread.

### Feeds

**IngestBuffer.** One step is a critical section of the state lock, or the creation or
completion of one file. `Push` is `IngestBuffer::push` (with the row shapes the batch
handler lets through); `Tick`, `Drain`, `CreateFile`, `FinishFile`, `WriteRejected`,
`WriteFails`, `Rebuffer` and `FinishFlush` are the compactor's loop and `flush_to_disk`;
`Register` and `FlushDone` are the registrations that follow; `Crash` is the end of the
process at any step, which loses the heap and the session and may leave an incomplete file.
Of a row's JSON the model keeps whether a batch can be decoded into one schema (`ShapeOf`);
files of one directory whose schemas do not merge (`OneSchema`) can be neither registered
nor queried together. The two ways a write fails, before and after `File::create`, are
separate bounds because only the second leaves a broken file behind.

**FilePipes.** `CreatePipe`, `SpawnWatcher` and `KeepHandle` are the three parts of
`create_pipe`; `DropPipe` and `ForgetPipe` those of `drop_pipe`, each under a lock of
its own. `Produce` is the external producer, who writes a file in two steps, both
of which `Notify` the watchers; `ChooseName` and `CopyFile` are `ingest_file`.

**KafkaIngest.** `Consume` and `TimesOut` are the arms of the loop, `Flush` and
`Settle` what a full batch or an ended interval does. A message without a payload (a
tombstone) is skipped, one of blank text is buffered and read as no record, and one that
is no JSON (junk) gives no schema; `AutoCommit` is the client's
own commit, `KafkaCrash` a restart from the committed offset.

### Queue and distributed execution

**JobQueue.** One step is a Redis command or a worker's decision between two awaits.
Redis runs one connection's commands in order: `Answers(c)` says a BRPOP of the
connection is not in the way. `LPush` and `InitialStatus` are `push`; `StartPolling`
is the end of the readiness gate; `CheckShutdown`, `PopJob`, `PopNothing`,
`MarkRunning`, `Execute` and `MarkFinished` are the job loop. An error reply may come
after Redis executed the command. Each job has a producer of its own. **JobLog** says
what is promised without commands, connections and workers: jobs of a warehouse start in
the order they were accepted, once at most, and end with one answer or are gone; what is
reported of a job is its answer or nothing. `ImplementsJobLog` maps the lists to what
waits, the jobs workers hold to what runs, and a status that is not final to no report.

**WorkerPool.** Time advances in heartbeat periods, and a timestamp is its age; `Skew` is
how far a worker's clock is behind the coordinator's. A beat may take any number of periods.
A worker that starts again has a new id (a UUID in the code), so a worker never comes back.
The readiness gate is there for workers started with a flag (`start_with_ready_flag`); those
of `Ungated` have none, as the program's own worker command gives none (`worker.rs:82`,
`main.rs:1007`), and register at once. `Remove` is what `CheckHealth` and `Deregister`
share.

**ScatterGather.** `Start` reads the offered workers and makes the plan; `Send`,
`Run`, `Unreachable` and `Finish` or `Fail` are the concurrent fragment futures, the
engine's channel and the merge. `Contract` states what a strategy asks of the data
(Replicate: disjoint shards; HashColumn: the same rows everywhere); `AnswerExact` is
about the queries whose data keep it.

**Reconciler.** A cycle is `List` (or `ListFails`), `Observe` for each warehouse (a
failed kubectl counts as no replicas), `Plan`, `Scale` for each action, `Sleep`. Two
controllers run it, the loop and `operator-apply`, with counts of different width
(`AsReplicas`): the loop casts to i32, the command saturates. `Half` stands for 2^31.

**ServerStart.** `LoadConfig`, `BuildEngine`, `OpenCatalog`, `LookForColumn` and
`AddColumn`, `RecordVersion`, `SpawnHttp`, `SpawnPg`, `BindHttp`, `BindPg` and `Join`
follow `run` in order; every one may end the process as the code does. `Kill` is the
end at any step. The catalog and the ports are shared by the processes.

### Storage and data

**IcebergTable.** A step is what a handle does between two effects on the directory.
`Open`, `StartAppend`, `StartCommit` and `FinishCommit` are `open` and `append`; file
names are compared as the code does, as strings (`PathOrder`). A failed write or a
crash leaves a partial data file or a torn metadata file.

**Tables.** A step is one effect of the current command: truncating, flushing or
closing a file, registering, writing a catalog row. `Crash` may fall between any two
and `Start` is the start-up that registers table files, then views. `said` remembers
what the last answered command on each name promised.

**SqlText.** A text grows one class of character at a time (letters, quotes, comment
marks, separators, spaces), a statement one word at a time. The three splitters are
written the way the code is: the guardrails', the REST interface's and the keyword scan
go character by character with what they are inside of (`Scanned`); the lexer and the
engine's splitter jump over a comment, a quoted text or a word at once (`LexSql`,
`CoreSplit`). All of them give positions, so that scanners can be compared by place.
`sep` stands for the semicolon.

**Datasets.** A generator is a sequence of tables, each with its keys and, per
reference, every key that a random draw can give: one state stands for every outcome
of the draws. `WriteTable` and `WriteTableFails` are the loop that writes them.

**PgExport.** One step is a statement on the external server. What was under way when
the export failed or timed out may still land (`StatementLands`).

**ScalarFunctions.** A number is typed digit by digit and every function (Luhn, IBAN,
SWIFT, IMSI, IMEI, MSISDN, E.164) is applied to it; `NumbersAgree` relates them.

### Identity and access

**SecretStore.** A call takes the database lock once per statement: `BeginRotate` and
`BeginReseal` list or read, `OpenNext` opens a row, `CheckAgain` and `WriteRow` are the
later locks. `AddKey` and `SetCurrentKey` need exclusive access, as `&mut self` does.
`Reopen` is a restart with the legacy key alone.

**SsoLogin.** A callback is one step per statement: `ReceiveCallback`, `Exchange` (the
external provider), `ReadTransaction`, `ReadConnection`, `ReadMappings`,
`ConsumeState`, `UpsertUser`, `CreateSession`. Administrators act between any two.

**Identity.** A request changes its row and copies it into the registry of its process
in a later step (`Reread`, `RegisterDurable`); `BearerStart` and `Authorize` are the
refresh and the check of a bearer request; `Start` loads the configured clients.

**ScimDirectory.** Token operations hold the lock of their process (`RotateRead`,
`RotateWrite`); those on users lock the database per statement (`CountUsers`,
`WriteUser`). A rotation that cannot count in the catalog takes its id from the counter in
memory, which rotations of other accounts advance too (`RotateElsewhere`); a write that
fails is logged and the secret handed out all the same. `Restart` empties the memory and
the counter.

**McpGateway.** `RollOver` moves one issuer to the next stage of the plan. A call is
verified by the middleware and again by the handler (`Verified`), from the cache or
after a fetch that reads one issuer and arrives later. `ToolAllowed` is the scope
check; `HandleRequest` is the thread, which a panic ends for good.

**AgentTools.** `WriteModel` finds the path, `TruncateFile` and `FillFile` are
`fs::write`, which may stop before or between them (`FileFails`); `DeleteModel` and
`RemoveFile` are a find and an effect. `DashboardCreate`, `CreateCard`, `CreateBoard`,
`PlaceCards` and `PublicLink` are Metabase calls. Any of them may fail; an answer that is a
success but cannot be read is no error to `mb_call`, so a card is recorded without an id
and the tool goes on (`unread`). `Refactor`, `SmokeTest` and `Report` are the refactoring
task.

### Services

**ControlPlane.** A request is the list of statements it will run (`Put`, `Insert`,
`Audit`), fixed when its checks pass; each statement is a step, and an error or a
crash leaves those that are done. Ids are those of the code: the organization of an
account is `org_account`, a further one `org_account_slug`. A slug has no underscore but
the name of an account may, so that `Joined` accounts share an id (`OrgId`), and the row
that is there is overwritten with its owner (`RunPut`); `taken` records such
organizations, and `raced` the accounts of which two requests counted the warehouses
before either had stored one. The audit append reads the tail and writes the row
in one transaction, which another handle's write may make fail. `Tamper` edits or
deletes a row. A hash is the sequence of what went into it: no two inputs collide.

**Workspace.** `Launch`, `SchedulerFires`, `DbtWrites` and `DbtEnds` are runs;
`ReadArtifacts` and `ReadRunState` the two reads of the page. `Load`, `SaveChart` or
`DeleteChart`, `Truncate` and `Fill` are a chart handler.

**Frontend.** `Send` waits for room in the channel; `Take`, `ExecuteSql`,
`ExecuteDrop`, `ExecuteCreate`, `RecordHistory` and `LoseHistory` (the INSERT of a history
row fails, which is logged) are the engine thread; `TimesOut`,
`HangUp` and `EnginePanics` may come at any step.

## Runs

| Run | Properties | Distinct states |
|---|---|---|
| ingest (MCFeeds) | RowsAccounted, FlushedIsVisible, ImplementsLog, EventuallyVisible; FileArrives; ConsumedOnce | 243 thousand |
| queue_live (MCJobQueue) | QueueProgress | 112 thousand |
| storage (MCStorage) | MetadataSound, CommittedVisible; RegisteredHasFile, AckedStands; InOrderAtMostOnce, StatusTruthful, ImplementsJobLog; CheckedIsRun; DatasetsJoin; ExportExact; NumbersAgree | 1.9 million |
| cluster (MCCluster) | AvailableIsRecent, StoppedLeavesPool, ImplementsMembership; Converges; ServesOnlyReady, WholeOrGone | 259 thousand |
| scatter (MCScatterGather) | AnswerExact, Answered | 480 thousand |
| identity (MCIdentity) | RevokedIsFinal, RetireSafe; NothingOutlivesConnection; RevokedIsRefused; IssuedTokenWorks; TrustFollowsIssuer, RolloutKeepsTokens; ToolsLeaveWhole | 1.8 million |
| services (MCServices) | HoldingsStand, VerifiedIsGenuine; OneRunTruthful; EveryRequestAnswered, QueryAccounting, ReplaceKeepsTable | 260 thousand |
| ingest_mixed_shapes, queue_late_status, iceberg_tenth, charts_lost, telecom_towers | one each, violated: see Findings | |

Each finishes within four minutes on two cores.

### Instances, and why they are enough

- **ingest.** Three rows (two of clashing shape) of two tenants, threshold 2, an
  early and a late fault and a crash: a batch that failed, a row that arrives
  meanwhile and one already on disk, and a fault and a crash can meet in one flush.
  Two pipes, two statements at once, two files of the same name in two directories,
  two tasks, one failing copy. A topic of six messages, one that is no JSON, one without a
  payload, one blank and one of another shape, batches of two, one fault, one crash.
- **queue_live, storage (queue).** Two jobs are the least that can be out of order,
  two workers the least that can both take one. In storage both jobs are in one
  list, with a fault, a crash and an expired status; in queue_live they are in two
  lists, with one of the three, and every process has a connection of its own.
- **storage (the rest).** Iceberg: a writer and a reader handle and four appends, a
  chain with a middle, a fault and a crash; order by name changes at the tenth, which
  has a run of its own. Tables: two names, three writes, a fault and two ends of the
  process: a table and a view of one name, replaced once, beside another name; the
  names are symmetric. Texts: all of five classes of character, enough for an
  opened and closed comment with something inside, and all statements of seven
  words. Datasets: two scales, one below and one above the minimum sizes. Export:
  two at once with two troubles. Numbers: up to 20 digits, the digits after an IBAN's
  check digits; the leading three range over five digits and the rest is one digit,
  enough for every branch and both sides of each length.
- **cluster.** Two workers with clocks a period ahead and behind, timeout 3, which
  leaves a period of margin on either side, one of them without a readiness flag, one
  coordinator restart. Two warehouses
  and both controllers, sizes on either side of what a replica count holds, two
  statements, one failing kubectl, one run of operator-apply. Two servers asking for
  the same ports and a worker, two starts each, two columns to migrate, five sets of
  configuration files (absent, broken, good, refused), three environments.
- **scatter.** Two queries, one per strategy, over two workers and the coordinator's
  engine; three rows, one of negative hash: partitions can be empty and a row missed,
  doubled or put in the wrong part. One error, one restart.
- **identity.** Two threads, two handles, two values, one rotated key, versions up to 2. One
  connection with four configurations (two issuers, one disabled, one SAML), two callbacks,
  two sessions, two creations. Two processes, two requests, one durable and one evaluation
  client, quota 1, two changes. Two SCIM processes, two requests, ids up to 2, three tokens,
  one catalog call that fails, two user names. Two issuers, two keys, a plan of four stages,
  life of a cached set 2, a fetch takes at most 1, four ticks, two calls, one failed fetch.
  Two agents, one model, one relation, dashboards of up to two cards, three calls, one
  fault.
- **services.** Two accounts, one named like an organization of the other, two calls at
  once of three, three rows of audit, one tampering, two warehouse names and a limit of
  one warehouse. Three runs and one page. Two chart handlers,
  three ids, three saves, one torn write. Three handlers, a channel of one message,
  one panic, one hang-up, one timeout, one row that cannot be recorded, one whose INSERT
  fails.

Bounds are constants whose names start with `Max` (and `Quota`, `Limit`,
`ChannelCap`, which are the code's own limits made small); they limit faults,
crashes, commands and ids, never an order of events. Three reductions in MC modules
also cut states. `FirstFirst`, `FirstFree` and `InOrder` name interchangeable calls, issuers and
handlers in one order only. `NoEvaluation`, `NoDurable` and `UsersOnly` split a component
into two areas that touch each other's state nowhere (durable and evaluation clients;
SCIM tokens and people), and `NothingLogged` and `NothingStored` the control plane into
what requests store and what they log. `Turns` lets the second server and the worker start
one at a time, so at most two of the three processes of the start are under way.

CHECK_DEADLOCK is off where a system comes to rest: all rows sent and the compactor
idle with the last bound used, all jobs done, all appends made, the process down and
not able to start, all requests answered. It is on in scatter.

Type invariants are not run as properties of their own: the runs would report an
operator applied outside its domain, and the inductive invariants that TLAPS proves
contain the types of their components.

### Fairness

- Buffer: the compactor is a spawned task that never leaves its loop, and time
  passes (weak fairness of `Compactor` and `IntervalElapses`). Faults are bounded,
  that is, transient.
- Pipes: a watcher's task runs (weak fairness of `WatcherStep`). Producers need not
  finish their files, and statements need not come.
- Queue: handlers and poll loops are tasks that keep running (weak); Redis answers a
  BRPOP for a list that is not empty, so `PopJob` is strongly fair: a poll that times
  out again and again does not miss the job for ever. Shutdowns, faults and expiry
  are not fair. Warm-up checks pass in the end (`FairWarmup`): catalog and engine do
  come up, and a worker whose checks fail for ever takes nothing.
- Pool: time passes and messages on the wire arrive or are lost (weak). Nothing
  makes a worker start or stop, and nothing calls `check_health`, which has no
  caller outside tests: StoppedLeavesPool rests on the age test alone.
- Warehouses: the loop never stops, and an operator-apply that has begun goes on
  (weak). Nobody has to give a command.
- Start: a thread that can go on does (weak fairness of `StartStep`).
- Scatter: the futures of a query are polled and engines run their channel (weak).
  The connection of a stopped worker is assumed to break; the code has no timeout.
- Front: the engine thread runs (weak). A handler that waits for room in the channel
  is served in turn, as tokio's semaphore does, so its step is strongly fair.
- Everything else states safety only and assumes no fairness.

## Proofs

`*_proofs.tla` extend the component and TLAPS. Each shows `Init => IInv`,
`IInv /\ [Next]_vars => IInv'` (a step per action) and `IInv => Inv`; the only
assumptions are the named ASSUMEs of the component's module and, in three theorems,
the hypothesis that their paragraph names. Each hypothesis marks where the code
itself stops keeping the property, and the runs' instances satisfy it (the MC modules
assume `NamesApart` and `Announced`, so that TLC evaluates them).

- **Feeds_proofs**, the buffer: TypeCorrect, RowsKept and Refinement (`Spec =>
  ImplementsLog`). That rows are conserved and in one place (RowsAccounted) is not
  inductive: a flush that drains must find nothing left over from the one before. IInv adds
  DrainedInFlush (rows are drained only while a flush writes). Every `Next` step then maps
  to Accept, Persist, Lose or a stutter of IngestLog.
- **Feeds_proofs**, visibility: FlushesSeen, under `NamesApart`: no default-tenant table
  is named like the registered name of another tenant's (the code does not exclude
  `acme__events`, see Ingest below). VisibleInv says that the session only maps names of
  its own tables, that each file of this process is registered, among those the flush
  under way has still to register, or in a spoiled directory (an unfinished file, or
  schemas that do not merge), and that nothing is left to register when the compactor
  rests.
- **Feeds_proofs**, Kafka: MessagesAccounted, for any topic, batch size and number of faults
  and crashes. ConsumedOnce speaks of a process that has not ended, and of messages that
  hold a record, and counts batches given up; the invariant says it message by message
  (AllPlaced: buffered, in one file, or in exactly one batch given up; what was not
  delivered is nowhere), that the inferred schema is that of the first message with one, and
  that each batch given up failed or holds a record of another shape: a tombstone or a blank
  message is never what loses the batch around it.
- **Feeds_proofs**, pipes: FilesNotForgotten (`DebtsPaid`), the safety half of FileArrives,
  for any pipes, directories, statements and number of failed copies: a file finished under
  a watcher is among the events the watcher has still to handle until it has copied the file
  whole or failed to, and the debt ends only with a whole copy in the warehouse. It holds of
  a watcher that DROP PIPE stopped, too, whose events then stay where they are. PipesInv adds
  that a watcher that has chosen a name still has the event it chose it for, so that the copy
  is of that file.
- **Tables_proofs**, Iceberg: IcebergTyped and HistoriesSound, for any number of handles
  and writers. A metadata file is written from a handle's memory, so IInv adds
  HandlesSound: each copy is a sound history of complete data files and the snapshot
  under way continues it. It survives failed appends that stay in memory, and two
  writers overwriting each other.
- **Tables_proofs**, Iceberg's visibility: AppendsVisible, under `OneWriterNineAppends`: one
  handle appends, nine times at most. Both halves are the code's: two writers drop each
  other's snapshots, and the tenth metadata file sorts before the second (finding 3). The
  invariant says that the versions in the directory are 1..n, and that the last of them,
  unless torn, and the writer's own copy hold every acknowledged append; it covers a
  failed append that stays in the writer's memory and a restart that reads it back.
- **Cluster_proofs**, the pool: TypeCorrect, PoolIsRecent and Implements
  (`MemberSpec => ImplementsMembership`), for every timeout and skew and any workers
  without a readiness flag, whom Membership counts as fit from the start. IInv adds Gated
  (who is registering, on the wire or listed is ready, or has no flag) and Aged (the age of a listed
  or flying beat is at least the silence, less what the clock is ahead).
- **Cluster_proofs**, the controllers of the warehouses: CountsAreCounts (`CountsFit`: kubectl
  is never asked for a count below zero or above an i32, whatever the rows hold and though
  `as i32` wraps) and SettledStays (`StaysSettled`). The second is the safety half of
  Converges: once each StatefulSet has what its row asks for and the loop works from current
  rows, no step but a statement, a failure, a new StatefulSet or a run of the command
  changes a replica count or makes the loop stale, even when the counts it read earlier in
  the cycle were wrong. ReconcilerInv says what a controller at work has read: rows of
  warehouses, a count for some of them, and nothing to do outside them. It assumes that the
  width of a count is at least two and that bounds are integers.
- **Cluster_proofs**, the start of a server: ServersReady, for any processes, files and
  environments and any list of migrations. The invariant describes each process by its
  stage, because what one has looked at another may be changing: Migrating (a migration
  has added the columns before the one it is at, and one it has seen is there for good),
  Migrated (past its first engine, a process has a catalog with every column and the
  version) and Listening (only a configuration that may be deployed and bound gets a
  listener, of the transport it asks for). It assumes that configurations have the
  fields the code gives them and that there is at least one migration.
- **ScatterGather_proofs**: TypeCorrect and EveryRowOnce, for any finite set of workers,
  any queries, rows and hashes, errors, stops and restarts. That an answer is exact
  rests on the past of each fragment: ScatterInv says that a message on the way is of a
  queued fragment that has not run, at the engine of its part, and there once
  (SentOnce), that a fragment that answered has run once (RanSound), and that the rows
  of an answer are those its fragments yield (AnswersSound). A lemma about plans then
  gives exactness: with hashed columns a row falls into one partition, whatever the sign
  of its hash, and otherwise one engine at most holds it.
- **Tables_proofs**: TablesTyped, TableFiles and AnswersStand, for any set of names
  and any number of writes, faults and crashes. TablesInv says what each intermediate step
  of a command has already done (InCommand) and, per name, how file, session, catalog
  row and promise fit together (NamesHold); a lemma shows that a step touches one
  name only.
- **Tables_proofs**, export: ExportsExact, for any number of exports, errors and timeouts.
  Whether an export is alone is fixed while it runs, so the invariant says that one that
  is alone finds the table as its own last statement left it, and that statements outlive
  only exports that gave up.
- **Tables_proofs**, sample data: GeneratedTablesJoin, for every scale. Each reference of
  each generator has a lemma (a draw modulo or below the size of the table it names, an
  index divided by the fan-out); the telecom towers need eighty or more, which is what
  DatasetsJoin says of them (finding 5). The invariant of the writing loop is that the
  files before the next one are of the run's scale.
- **Texts_proofs**, scalar functions: AllNumbersAgree, for numbers of every length and any
  digits. The check digits are recursive functions over the digits, so what they compute
  is shown by induction on the length, taken as the least element of the set of
  counterexamples (WFMin of WellFoundedInduction, lemmas LessWellFounded and UpTo) because
  the library's induction rules take an operator. Mod97Law and LuhnLaw are the equations
  of the two recursive functions; both keep two values apart, so a misread digit changes
  the remainder. The fields of an IBAN, IMSI or MSISDN are neighbouring slices, and
  together the number.
- **Texts_proofs**, the scanners of a statement: CheckedStatementRuns, for texts and
  statements of every length. The state needs only its type (Readable); the work is in the
  five scanners. `Modes` is what the guardrails' scan is inside of at each character,
  `AtCode` says that a position is code and `Resume` where code goes on from a position
  inside of something. NextCode and JumpToCode show that the jumps of the lexer and of the
  engine's splitter land exactly where the character scan comes back to code; so every token
  is in code (TokensAtCode), and a separator in code cuts the tokens of the text in two
  (PieceOfWhole). A piece begins in code (FromIs), and CoreFollows and CutPiece show that
  the engine's splitter cuts where the guardrails' does and keeps the same piece;
  RestFollows does it for the REST splitter where no two characters open a comment.
  GuardScan, KeywordScan and RestScan carry the three character scans from left to right,
  LexLaw and CoreLaw the two jumping ones from right to left; DownTo and JumpRecursion are
  the induction and the recursion over positions that this takes. For CREATE TABLE AS,
  FirstThree and FirstAt turn "the first", "the second" and "the third" token into
  positions, and SameTable and SameAnswer compare target and query.
- **Access_proofs**, the secret store: SecretsTyped, RevocationFinal and KeysRetire, for any number
  of threads and handles. That a revoked row is never written needs no invariant but
  the types: WriteRow checks the state under the lock it writes under. KeysRetire
  needs Accounted: a reseal_all under way has listed, has open, or has sealed under
  the current key every active handle; those created since are sealed under it
  anyway, because the current key changes only when nobody calls.
- **Access_proofs**, single sign-on: SsoTyped and ConnectionsOwn, for any number of
  administrators, logins and callbacks. The type of a callback depends on its phase
  (PhaseFields). The invariant RowsHaveConnection also speaks of sessions that have
  ended, which NothingOutlivesConnection does not: otherwise a delete and a second
  creation could hide one. ConnectionsStay carries it through every step that deletes
  no connection; DeleteConnection cascades.

- **Access_proofs**, service clients: RevokedTurnedAway, for any processes, requests and
  clients. The property speaks of a request that found its row revoked when it came in,
  and what the request does later depends on a registry that others write. The invariant
  says that the row stays revoked while its change counter stands, that whoever in that
  process is about to register the row has read it as revoked, and that from the
  request's own registration on the process knows the client as revoked.
- **Access_proofs**, SCIM tokens: TokensWork, for any number of processes, rotations and
  revocations and any number of catalog calls that fail. While no two rotations have
  overlapped and none has guessed an id that is not the next, rotations take turns
  (TakesTurns): the ids 1..k have rows, the rotation under way will write k+1, and each
  secret that was handed out and written is in the row of its id.
- **Access_proofs**, MCP tokens: TokensKept, under `Announced`: the plan publishes a key a
  stage before it signs with it and a key that was removed does not come back. Processes
  are at most a stage apart, so what one signs with the other trusts already. TrustBounded
  has no hypothesis: its invariant says that each key set on the way or in the cache is
  what one issuer published at a known time, a fetch at most `Lag` ago, a cached set at
  most `Lag` before it arrived; fetches may overtake each other.
- **Access_proofs**, the agents' tools: ToolsWhole, for any number of agents, models and
  calls. A model that is not contended has one call at work on it, in the layer its file
  is in, and the file is whole unless that call is filling it or was cut off; cards and
  boards belong to the call that made them, and a board is published only when all the
  cards whose answers were read are placed.
- **JobQueue_proofs**: TypeCorrect, OrderAndRuns, ReportsAreTrue and QueueIsLog
  (`QueueSpec => ImplementsJobLog`), for any jobs, warehouses, handlers and workers, lost
  answers and crashes. That a job runs at most once
  is not inductive: IInv adds that each list holds distinct jobs nobody has touched, that
  a job has one holder, and that what was popped is held, lost or has run; a result is
  then that of the one run. It assumes that every job belongs to a warehouse. For the
  refinement, each command maps to one step of JobLog or to none: an LPUSH that arrives is an
  Accept, a BRPOP a Take (its job lost, if the answer is), Execute an End, a crash of a
  worker that holds a job an Abandon, and whatever writes or expires a status a Report. The
  invariant is what makes them so: a job that is pushed is nowhere yet (UntouchedIsNew), one
  that ends was held by that worker alone (HolderLeaves), and a final status is the answer
  of the one run.
- **Services_proofs**, the dbt pipeline: PipelineTruthful. IInv says that all runs but the
  newest have ended, whose results the files hold, and what a viewer that read the files
  first can still be told.
- **Services_proofs**, the front: QueriesAccounted and TableReplaced, for any set of
  requests (assumed finite, since the gauge is compared with a cardinality), any channel
  and any number of timeouts, hang-ups and panics. IInv follows the line of messages (the
  busy one, then the channel): each is of a handler that waits for it, has given up on it
  or is gone, none is there twice, and a history row is in the line, in the history or lost
  exactly for the queries that were answered. For tables it says which half of a replacing
  ingest the engine has done.
- **Services_proofs**, the control plane: OwnersStand and AuditGenuine, for any accounts (at
  least one), names, requests and any number of edits and deletions. For owners, CpInv also
  speaks of the statements requests have still to run: each put lies under an organization
  that is stored, or that the same request stores before it, and an organization only
  changes its account under an id that two accounts share (`Rightful`). For the limit,
  LimitSound says that, of an account whose requests did not race, at most one is on the way
  to its INSERT and the place it counted is still free. For the audit log, hashes of an
  account's rows grow strictly (so the hash a row links to names one row), each is over what
  was written, and a transaction that may still commit holds the newest hash. It survives an
  edit or deletion of any row, because both keep the hashes of the others in order; only
  `VerifyAuditChain` itself is claimed while nobody tampered.

Every invariant and action property of the runs is stated by a theorem; `DebtsPaid`,
`CountsFit` and `StaysSettled` are proved and in no run. Only
model-checked are the liveness properties (EventuallyVisible, FileArrives, QueueProgress,
StoppedLeavesPool, Converges, WholeOrGone, Answered, EveryRequestAnswered): liveness under
fairness and ENABLED are beyond the prover.

## Findings

Each has a run whose counterexample is a run of the code.

1. **A mixed batch never reaches the disk** (ingest_mixed_shapes). When the rows
   drained for a table cannot share a schema, `flush_to_disk` fails and re-buffers all
   of them (`ingest_buffer.rs:174`), together with whatever arrives later: the table
   is stuck until the process ends, and then loses the rows. The module doc promises
   that the background task drains the buffer to a file (4-6).
2. **A finished job is queued again, by its status** (queue_late_status). `push` makes
   the job visible before it writes the initial status (`queue.rs:69`), so Done or
   Failed may be overwritten by Queued until the key expires.
3. **The tenth Iceberg commit disappears** (iceberg_tenth). `open` sorts the metadata
   files by path (`table.rs:108`): `v10` comes before `v9`.
4. **An overlapping save drops a chart** (charts_lost). Each handler of `charts.rs`
   reads the whole file, changes its copy and writes it back without a lock
   (`charts.rs:135`): of two requests that both read first, the later write drops the
   earlier chart, which was answered ok.
5. **Calls at towers that do not exist** (telecom_towers). The list of towers that
   records draw from is computed as `loc_idx * 4 + i % 4`
   (`telecom/sample_data.rs:157`), not as the towers are numbered: below scale 4 most
   records name no tower.

### Other disagreements met while modelling

They follow from the source, and the models show most of them as traces, but no run
states them as properties. Where a definition of a module states what a comment or
document promises and the code does not keep, it is named here, its comment says so,
and no run checks it; where a checked property exempts a case, it is said here.

**Ingest.** A write that fails after `File::create` leaves an unreadable file: its rows are
written again, but no query of the directory succeeds until the file is removed
(FlushedIsVisible exempts `broken`). Each flush infers the schema of its own batch, so two
flushes may leave files in one directory whose schemas clash, and the table that spans them
can then not be registered or queried (`engine.rs:503`; FlushedIsVisible and
EventuallyVisible exempt a directory that is `Spoiled`). After a restart the ingest
directories are not registered until each table's next flush, because start-up reads only
`opensnow/public`. A default-tenant table named `acme__events` has the registered name of
acme's `events`. DROP PIPE between a CREATE PIPE's definition and its handle leaves a
watcher that no statement stops (`WatcherHasPipe`, `pipe.rs:93`). Two watchers that both
find no file of a name copy to the same one (`CopiesStay`, `file_watcher.rs:121`), and each
event copies the file again under another name. A Kafka message without a payload is skipped
without a log line, and a batch of blank messages is done with as if it had been stored
(`kafka.rs:121`, 197; ConsumedOnce speaks of messages with a record). Offsets are committed
while records are only buffered, so a crash loses them; a buffer without a schema is dropped
when the stream ends.

**Queue.** With `pop_timeout_secs = 0` on a connection shared with producers, a blocked
BRPOP holds back the LPUSH that would answer it, for ever (`LPush` waits for
`Answers(HandlerConn)`); QueueProgress speaks of jobs that reached their list. With 0 an
idle worker does not see a shutdown either, and the readiness gate does not look at it
at all. The run uses a timeout and separate connections. The backoff's `2u64.pow`
overflows at attempt 64. `push` may return an error for a job that will run.

**Iceberg.** A torn latest metadata file makes every later `open` fail although the
version before it is intact (CommittedVisible exempts it). A failed append stays in the
handle's memory and is committed by the next. Two writers number their commits from
their own copies, and the later write drops the other's snapshot.

**Tables.** A crash while a table file is written makes every later start-up fail at the
torn file; `Start` is then disabled, and AckedStands holds because nothing is answered.
DROP MATERIALIZED VIEW of a plain table deregisters it and then answers "not found". A
second COPY INTO of a table overwrites its file and then answers an error, and one that
fails early leaves `__copy_source_<table>` registered. A table and a view of one name:
after a restart the table wins. CREATE TABLE AS with no rows answers Ok and creates
nothing.

**Statements.** The REST splitter and its first-keyword test know no comments, while the
other interfaces do. A comment between CREATE and TABLE passes the guardrails but is missed
by the engine's own handling, so the table is made in memory; a comment that contains AS,
before the real one, makes the engine refuse the statement. CheckedIsRun compares the
scanners where both accept. In the rewriter (no caller outside tests), NVL, NVL2 and IFF
give a value for a NULL, DATEDIFF is always 0, and the colon-path rewriting breaks `x::int`.

**Sample data and functions.** TPC-H's partsupp repeats pairs of part and supplier,
lineitem's pairs need not be in partsupp, and a scale of 0.01 gives 10 suppliers where a
comment says about 100. The command line's sample transactions name accounts that are
not in its accounts, its IBANs have made-up check digits, and its callers exceed its
subscribers (DatasetsJoin names the references that hold). E.164 keeps the second zero
of a "00" prefix; SWIFT and IBAN functions slice bytes, so text that is not ASCII panics;
fx_convert, compound_interest and tower_distance take a literal beside a column as one
row.

**Export.** A failed export leaves a dropped, empty or partly filled table; the statement
that timed out may still land, and a retried append doubles what had been written. A
NaN is written without quotes.

**Distributed.** `Coordinator::execute_query` puts LocalWorkerExecutors on its own engine,
so Replicate returns each row once per worker and repeats a DML statement: the data do not
keep `Contract`. The worker command starts without a readiness flag, so the program's own
workers register before they are warm, although `worker.rs` gates those that have one
(ImplementsMembership counts them as fit). Heartbeats of unknown workers are ignored and
workers register only at start, so after a coordinator restart live workers stay unknown.
Dead workers stay listed, though not offered. A beat whose age equals the timeout is neither
available nor dead. `HASH()` is defined nowhere in the source (`HashOf` is external).
Nothing bounds a remote call. The Redis registry can pair an old registration with a fresh
heartbeat when a worker registers again between the two reads of its listing.

**Warehouses.** operator-apply saturates a bound above i32 (`i64_to_i32_clamped`); the
loop's cast wraps it to a negative number, which counts as 0, so the two controllers
disagree about such a row (Converges speaks of what the loop reads). The replicas are
said to be clamped into the bounds (`operator.rs:150`), but a suspended warehouse has 0
whatever its minimum. A failed observation counts as no replicas.
`run_reconcile_loop` has no caller; operator-apply has.

**Start.** Without a configuration file that can be parsed neither environment overrides
nor validation apply (`config.rs:109` says OPENSNOW_SERVER_HOST sets the host), and a
broken file is skipped silently. Enterprise mode refuses credentials from the environment,
where `config.rs:405` says Helm puts them. A failed object-store registration is only
warned of, against the comment at `engine.rs:145`. Two processes opening an older catalog
may find the same column missing; the second's start fails. A coordinator whose gRPC
port is taken serves on without workers. The host "localhost" passes as loopback but
does not parse as an address. HTTP may accept before pgwire's certificate fails the
start. Nothing flushes the ingest buffer when `run` returns.

**Secrets and sign-on.** `reseal_secret` undoes a rotation that comes between its read and
its write (`ResealKeepsValue`, `secrets.rs:664`). A login that began before its connection
was disabled completes; two callbacks of one state may both complete; users are keyed by
email whatever their account. After a delete and a second creation between two reads of
a callback, the session belongs to the new connection.

**Clients and SCIM.** A token is issued from the memory of a process although the row is
revoked (`TokenFromCatalog`, `docs/DEPLOYMENT.md:145`); `rotate` makes a revoked client
active again (`catalog/lib.rs:1588`); the refresh of a bearer request may write an older
row over a newer registry entry. A refused X-Tenant-ID still counts against the quota. A
SCIM token from another process or from before a restart is listed but cannot be revoked
(`ListedIsRevocable`, `docs/DEPLOYMENT.md:191`). Ids are the number of rows plus one: two
processes at once may count the same id and one row replaces the other; a rotation that
cannot count takes its id from the counter in memory, which starts at 1 after a restart, and
may replace a stored secret (`auth.rs:538`); one whose row cannot be written hands out a
secret that never works (`auth.rs:576`), and a revocation whose row cannot be written is
answered as done. IssuedTokenWorks exempts the first three; users are numbered without any
lock. A user write that the
unique index refuses is answered as stored (`DeactivationPersists`,
`docs/DEPLOYMENT.md:193`). A PATCH whose last `active` is no boolean undoes the ones before.
If the catalog cannot be opened the directory silently uses memory.

**MCP and agents.** The verifier fetches no keys for an unknown key id until its cached set
has aged, and its client has no timeout (`Lag` is an assumption). A panic of the engine
ends the thread behind `/mcp` for good, and that engine is not the one behind `/query`, so
tables in memory differ. Two agents that write one new model into different layers
leave two files (`platform_tools.rs:47` says 1:1; ToolsLeaveWhole exempts a model two
calls were at work on). `fs::write` that stops half-way leaves a torn model under its name,
and a torn schedule file. A card whose answer cannot be read is recorded as null and the
dashboard is published without it (`platform_tools.rs:389`, 521); ToolsLeaveWhole exempts
both. A failed dashboard_create leaves its cards; more than six cards
overlap. Nothing reads the schedule file that `platform_tools.rs:325` says the server reads.
The refactoring task counts its own test queries the next time, and names the source as
the target of its migration.

**Control plane.** Two handles that count at the same time can both pass the limit on
warehouses (`docs/DEPLOYMENT.md:472`; HoldingsStand exempts an account that `raced`). The
default organization of an account called `a_s` has the id of organization `s` of account
`a`: whichever is stored later overwrites the other with its owner (`catalog/lib.rs:1341`
and 1447, `auth.rs:2011`), and what lay under it now lies under an organization of another
account (HoldingsStand exempts organizations that were `taken`, and shows that no other
ever is). Rows deleted at either end of the audit chain are
not detected, against the comment at `catalog/lib.rs:1772` (VerifiedIsGenuine speaks of
rows between two others). Every `Catalog::open` writes its migrations and so can make
another handle's audit transaction fail; the event is lost with a warning.
`create_organization` does not look the account up. A binding's id may come from the
payload and replaces the stored row with its owner.

**Services.** A torn chart file reads as an empty list, which the next save writes over.
Nothing bounds a dbt run, and an agent's `pipeline_run` may overlap the server's. A
replacing ingest that is cut off between its two commands has already removed the table
(ReplaceKeepsTable exempts it). History is best-effort, as `engine_handle.rs:168` says: a
row whose INSERT fails is logged and left out (QueryAccounting counts `lost`). A query that
timed out is executed all the same; its handler then waits for room in the channel, without
a timeout, to record it. The gauge is not lowered when a client goes away (QueryAccounting
counts `leaked`). A panic ends the engine's thread, and every later request is answered with
an error.

## What is not modelled, and why

File formats, SQL planning and execution, TLS, signatures and the wire protocols belong
to libraries. Pages, listings and exports that only read do not change the state the
models keep. Formatting, parsing, logging and metrics are left out unless a property
depends on them (file-name order, negative hash modulo, row shapes, comments in
statements, number formats do). Left out as a whole:

- the Redis worker registry: no caller, and the same state as the pool in memory;
- metrics and telemetry: counters nothing else reads, but for the gauge in Frontend;
- the Snowflake rewriter and its functions: no caller outside tests;
- GPU bridge and storage wrapper: a subprocess and a library call;
- users and roles as rows, and the contract types: single statements without a caller
  outside the crate, and data.

Left out of modelled components: object-store roots (the write path is the same; start-up
and DROP read local paths only); SAML and the legacy tenant look-up of single sign-on; the
SCIM directory without a catalog; the object policy, which walks the sqlparser library's
syntax tree; the token modes of the MCP server without an external issuer, and its REST
tool routes.

## Plan

Done, in this order: IngestBuffer, JobQueue, IcebergTable, the worker pool and
scatter-gather, Tables, with their proofs; then SecretStore, SsoLogin, Identity,
ScimDirectory, ControlPlane, Workspace, Frontend, Reconciler, ServerStart, the two other
feeds, McpGateway and AgentTools, SqlText, Datasets, PgExport and ScalarFunctions, with
proofs for all of them, and JobQueue's refinement of JobLog.

Next, most useful first.

1. Abstract specifications for SecretStore (a handle's versions move forward, revoked is
   final) and for the query surfaces (request, answer), with refinements.
2. The object policy as operators over a small syntax tree, against a reference decision;
   roles and grants with it.
3. The replacing ingest on Tables, so that a cut-off handler meets a crash of the process.

## Running

    tlc -workers 2 -config ingest.cfg MCFeeds
    tlapm Feeds_proofs.tla

`PROJECT.json` names the module and configuration of every run.
