---------------------------- MODULE IngestBuffer ----------------------------
(***************************************************************************)
(* The streaming ingest buffer of opensnow-server (ingest_buffer.rs): rows *)
(* POSTed to /api/v1/ingest/batch accumulate in memory per (tenant, table) *)
(* and the background compactor drains them into Parquet files which it    *)
(* registers with the engine.                                              *)
(*                                                                         *)
(* One process at a time: its heap (buffers, counters, the compactor's     *)
(* locals, the engine's session) is lost in a crash, the files are not.    *)
(* One step is what the code does between two points where another task,   *)
(* or a crash, can come in: a critical section of the state lock, or the   *)
(* creation and the completion of one file.                                *)
(***************************************************************************)
EXTENDS Naturals, FiniteSets

CONSTANTS
    Tenant,          \* tenant ids
    DefaultTenant,   \* opensnow_catalog::DEFAULT_TENANT
    Table,           \* unqualified table names
    Name,            \* names in the engine's session
    Prefixed,        \* [tenant, table] -> the name "<tenant>__<table>"
    Row,             \* rows; each is sent once
    ShapeOf,         \* [Row -> shape of its JSON fields]
    FlushThreshold,  \* flush_threshold
    MaxCrashes,      \* bound: crashes of the process
    MaxEarlyFaults,  \* bound: I/O errors before the file is created
    MaxLateFaults    \* bound: I/O errors after the file is created

Key == [tenant : Tenant, table : Table]

ASSUME TenantAssumption == DefaultTenant \in Tenant /\ Table \subseteq Name
ASSUME PrefixedAssumption == Prefixed \in [Key -> Name]
ASSUME RowAssumption == IsFiniteSet(Row) /\ DOMAIN ShapeOf = Row
ASSUME BoundsAssumption ==
    /\ FlushThreshold \in Nat
    /\ MaxCrashes \in Nat
    /\ MaxEarlyFaults \in Nat
    /\ MaxLateFaults \in Nat

VARIABLES
    buffers,     \* BufferState.buffers; a missing entry is the empty set
    lastFlush,   \* "none", "recent", or "due": flush_interval has elapsed
    totalRows,   \* BufferState.total_rows_flushed
    totalFiles,  \* BufferState.total_files_flushed
    pc,          \* where the compactor task is
    drained,     \* flush_to_disk: rows taken from the buffer, not yet written
    current,     \* the key whose file is open while pc = "writing"
    flushed,     \* flush_to_disk: descriptors of the files it completed
    flushedRows, \* flush_to_disk: its local total_rows
    files,       \* disk: complete Parquet files
    broken,      \* disk: keys whose directory keeps a file never completed
    session,     \* engine: registered name -> key whose directory it reads
    crashes, earlyFaults, lateFaults

\* History: rows acknowledged, rows lost in a crash, files and rows that were
\* on disk when the present process started.
VARIABLES acked, lost, bootFiles

bufferVars == <<buffers, lastFlush, totalRows, totalFiles>>
flushVars  == <<pc, drained, current, flushed, flushedRows>>
diskVars   == <<files, broken>>
faultVars  == <<crashes, earlyFaults, lateFaults>>
histVars   == <<acked, lost, bootFiles>>
vars == <<bufferVars, flushVars, diskVars, session, faultVars, histVars>>

NoRows == [k \in Key |-> {}]

\* A completed file.  Its name, a time stamp in microseconds, is abstracted:
\* the one compactor never creates two files of a key at the same instant.
File == [key : Key, rows : SUBSET Row]

RowsIn(buf) == UNION {buf[k] : k \in Key}
RowsOf(fs) == UNION {f.rows : f \in fs}

TypeOK ==
    /\ buffers \in [Key -> SUBSET Row]
    /\ lastFlush \in {"none", "recent", "due"}
    /\ totalRows \in Nat
    /\ totalFiles \in Nat
    /\ pc \in {"idle", "woken", "flushing", "writing", "registering"}
    /\ drained \in [Key -> SUBSET Row]
    /\ current \in Key
    /\ flushed \in SUBSET File /\ IsFiniteSet(flushed)
    /\ flushedRows \in Nat
    /\ files \in SUBSET File
    /\ broken \in SUBSET Key
    /\ session \in UNION {[N -> Key] : N \in SUBSET Name}
    /\ crashes \in 0..MaxCrashes
    /\ earlyFaults \in 0..MaxEarlyFaults
    /\ lateFaults \in 0..MaxLateFaults
    /\ acked \in SUBSET Row
    /\ lost \in SUBSET Row
    /\ bootFiles \in SUBSET File

-----------------------------------------------------------------------------
\* Mutants: the prefix forgotten; the tenant passed for the table.
RegisteredName_NoPrefix(k) == k.table

\* The name a key's directory is registered under.
RegisteredName(k) == IF k.tenant = DefaultTenant THEN k.table ELSE Prefixed[k]

\* infer_json_schema merges the rows' fields into one schema and the decoder
\* holds every row to it: rows whose fields disagree cannot share a file.
Decodable(rows) == \A r, s \in rows : ShapeOf[r] = ShapeOf[s]

ShouldFlush ==
    LET total == Cardinality(RowsIn(buffers))
    IN  /\ total > 0
        /\ total >= FlushThreshold \/ lastFlush # "recent"

\* The files of the directory have one schema between them.  A flush infers the
\* schema of its own batch, so two flushes may leave files that have none.
OneSchema(k) ==
    \A f, g \in files : f.key = k /\ g.key = k => Decodable(f.rows \cup g.rows)

\* The engine can read the directory as a table: every file has a footer, and
\* their schemas merge.  A table registered before a clashing file came fails
\* when the query reads the file, or, where the cast happens to succeed, not;
\* the model promises nothing of it.
DirReadable(k) == /\ k \notin broken /\ ~(pc = "writing" /\ current = k)
                  /\ OneSchema(k)

\* What a query of the key's registered name returns.
Visible(k) ==
    IF /\ RegisteredName(k) \in DOMAIN session
       /\ session[RegisteredName(k)] = k
       /\ DirReadable(k)
    THEN RowsOf({f \in files : f.key = k})
    ELSE {}

-----------------------------------------------------------------------------
Init ==
    /\ buffers = NoRows /\ lastFlush = "none" /\ totalRows = 0 /\ totalFiles = 0
    /\ pc = "idle" /\ drained = NoRows /\ current \in Key
    /\ flushed = {} /\ flushedRows = 0
    /\ files = {} /\ broken = {} /\ session = [n \in {} |-> CHOOSE k \in Key : TRUE]
    /\ crashes = 0 /\ earlyFaults = 0 /\ lateFaults = 0
    /\ acked = {} /\ lost = {} /\ bootFiles = {}

\* ingest_batch: the client is told "ok" once push has extended the buffer.
Push(k, rows) ==
    /\ rows # {} /\ rows \cap acked = {}
    /\ buffers' = [buffers EXCEPT ![k] = @ \cup rows]
    /\ acked' = acked \cup rows
    /\ UNCHANGED <<lastFlush, totalRows, totalFiles, flushVars, diskVars,
                   session, faultVars, lost, bootFiles>>

IntervalElapses ==
    /\ lastFlush = "recent"
    /\ lastFlush' = "due"
    /\ UNCHANGED <<buffers, totalRows, totalFiles, flushVars, diskVars,
                   session, faultVars, histVars>>

\* The compactor's tick: should_flush releases the lock before flush takes it.
Tick ==
    /\ pc = "idle" /\ ShouldFlush
    /\ pc' = "woken"
    /\ UNCHANGED <<bufferVars, drained, current, flushed, flushedRows, diskVars,
                   session, faultVars, histVars>>

\* Mutant: the buffers are cloned, not taken.
Drain_Clone ==
    /\ pc = "woken"
    /\ drained' = buffers
    /\ flushed' = {} /\ flushedRows' = 0
    /\ pc' = "flushing"
    /\ UNCHANGED <<bufferVars, current, diskVars, session, faultVars, histVars>>

Drain ==
    /\ pc = "woken"
    /\ drained' = buffers
    /\ buffers' = NoRows
    /\ flushed' = {} /\ flushedRows' = 0
    /\ pc' = "flushing"
    /\ UNCHANGED <<lastFlush, totalRows, totalFiles, current, diskVars,
                   session, faultVars, histVars>>

\* Mutant: the error path logs and goes on to the next table.
Rebuffer_Dropped(k) ==
    /\ drained' = [drained EXCEPT ![k] = {}]
    /\ UNCHANGED buffers

\* A failed write hands its rows back, behind any that arrived meanwhile.
Rebuffer(k) ==
    /\ buffers' = [buffers EXCEPT ![k] = @ \cup drained[k]]
    /\ drained' = [drained EXCEPT ![k] = {}]

\* write_table_parquet fails before File::create: the batch has no common
\* schema, or an I/O error creating the directory or the file.
WriteRejected(k) ==
    /\ pc = "flushing" /\ drained[k] # {}
    /\ \/ ~Decodable(drained[k]) /\ UNCHANGED earlyFaults
       \/ earlyFaults < MaxEarlyFaults /\ earlyFaults' = earlyFaults + 1
    /\ Rebuffer(k)
    /\ UNCHANGED <<lastFlush, totalRows, totalFiles, pc, current, flushed,
                   flushedRows, diskVars, session, crashes, lateFaults, histVars>>

\* write_table_parquet up to and including File::create.
CreateFile(k) ==
    /\ pc = "flushing" /\ drained[k] # {} /\ Decodable(drained[k])
    /\ current' = k
    /\ pc' = "writing"
    /\ UNCHANGED <<bufferVars, drained, flushed, flushedRows, diskVars, session,
                   faultVars, histVars>>

\* The writer is closed and the descriptor pushed.
FinishFile ==
    LET file == [key |-> current, rows |-> drained[current]]
    IN  /\ pc = "writing"
        /\ files' = files \cup {file}
        /\ flushed' = flushed \cup {file}
        /\ flushedRows' = flushedRows + Cardinality(file.rows)
        /\ drained' = [drained EXCEPT ![current] = {}]
        /\ pc' = "flushing"
        /\ UNCHANGED <<bufferVars, current, broken, session, faultVars, histVars>>

\* write or close fails: the file stays behind without a footer.
WriteFails ==
    /\ pc = "writing"
    /\ lateFaults < MaxLateFaults /\ lateFaults' = lateFaults + 1
    /\ broken' = broken \cup {current}
    /\ Rebuffer(current)
    /\ pc' = "flushing"
    /\ UNCHANGED <<lastFlush, totalRows, totalFiles, current, flushed,
                   flushedRows, files, session, crashes, earlyFaults, histVars>>

\* Mutant: the compactor calls flush_to_disk and never registers.
FinishFlush_Unregistered ==
    /\ pc = "flushing" /\ drained = NoRows
    /\ lastFlush' = "recent"
    /\ totalRows' = totalRows + flushedRows
    /\ totalFiles' = totalFiles + Cardinality(flushed)
    /\ pc' = "idle"
    /\ UNCHANGED <<buffers, drained, current, flushed, flushedRows, diskVars,
                   session, faultVars, histVars>>

\* The last critical section of flush_to_disk.
FinishFlush ==
    /\ pc = "flushing" /\ drained = NoRows
    /\ lastFlush' = "recent"
    /\ totalRows' = totalRows + flushedRows
    /\ totalFiles' = totalFiles + Cardinality(flushed)
    /\ pc' = "registering"
    /\ UNCHANGED <<buffers, drained, current, flushed, flushedRows, diskVars,
                   session, faultVars, histVars>>

\* handle.register_parquet: the engine merges the schemas of the directory's
\* files and adds the name; a name already taken, a file it cannot read, or
\* schemas that do not merge are an error that flush only logs.
Register(f) ==
    LET n == RegisteredName(f.key)
    IN  /\ pc = "registering" /\ f \in flushed
        /\ flushed' = flushed \ {f}
        /\ session' = IF n \in DOMAIN session \/ ~DirReadable(f.key)
                      THEN session
                      ELSE [m \in DOMAIN session \cup {n} |->
                               IF m = n THEN f.key ELSE session[m]]
        /\ UNCHANGED <<bufferVars, pc, drained, current, flushedRows, diskVars,
                       faultVars, histVars>>

FlushDone ==
    /\ pc = "registering" /\ flushed = {}
    /\ pc' = "idle"
    /\ UNCHANGED <<bufferVars, drained, current, flushed, flushedRows, diskVars,
                   session, faultVars, histVars>>

\* The process stops anywhere and is started again.  A file being written is
\* left incomplete.  The new session knows no ingest directory: start-up only
\* registers <warehouse>/opensnow/public.
Crash ==
    /\ crashes < MaxCrashes /\ crashes' = crashes + 1
    /\ lost' = lost \cup RowsIn(buffers) \cup RowsIn(drained)
    /\ broken' = IF pc = "writing" THEN broken \cup {current} ELSE broken
    /\ buffers' = NoRows /\ lastFlush' = "none" /\ totalRows' = 0 /\ totalFiles' = 0
    /\ pc' = "idle" /\ drained' = NoRows /\ flushed' = {} /\ flushedRows' = 0
    /\ session' = [n \in {} |-> current]
    /\ bootFiles' = files
    /\ UNCHANGED <<current, files, earlyFaults, lateFaults, acked>>

Write == FinishFile \/ \E k \in Key : CreateFile(k)

Compactor ==
    \/ Tick \/ Drain \/ Write
    \/ \E k \in Key : WriteRejected(k)
    \/ WriteFails \/ FinishFlush
    \/ \E f \in flushed : Register(f)
    \/ FlushDone

Next ==
    \/ \E k \in Key, rows \in SUBSET Row : Push(k, rows)
    \/ IntervalElapses
    \/ Compactor
    \/ Crash

Spec == Init /\ [][Next]_vars

\* The compactor is a task of its own that never exits its loop, and time
\* passes.  Faults are bounded, so they are transient; nothing makes a client
\* send, and nothing makes the process crash.
Fairness == WF_vars(Compactor) /\ WF_vars(IntervalElapses)

FairSpec == Spec /\ Fairness

-----------------------------------------------------------------------------
InMemory == RowsIn(buffers) \cup RowsIn(drained)
OnDisk == RowsOf(files)

\* Every acknowledged row is in memory, in a complete file, or was in memory
\* when the process crashed: no error path of flush_to_disk drops rows
\* (ingest_buffer.rs:171 "Re-buffer so we don't lose data").
Conservation == acked = InMemory \cup OnDisk \cup lost

\* A row is in one place only, so no query ever counts it twice: a batch that
\* was re-buffered is in no file, and one that is in a file is not written
\* again by the next flush.
AtOnePlace ==
    /\ RowsIn(buffers) \cap RowsIn(drained) = {}
    /\ InMemory \cap OnDisk = {}
    /\ lost \cap (InMemory \cup OnDisk) = {}
    /\ \A k, l \in Key : k # l => /\ buffers[k] \cap buffers[l] = {}
                                  /\ drained[k] \cap drained[l] = {}
    /\ \A f, g \in files : f # g => f.rows \cap g.rows = {}

\* No error path, retry or crash in the middle of a flush loses a row that was
\* not in memory at the crash, or stores one twice (flush_to_disk).
RowsAccounted == Conservation /\ AtOnePlace

\* The prefixed names are apart from each other and from the default tenant's;
\* the code does not exclude a default table that is called `<tenant>__<table>`.
NamesApart ==
    /\ \A k, l \in Key : Prefixed[k] = Prefixed[l] => k = l
    /\ \A k \in Key : Prefixed[k] \notin Table

\* The directory holds an unfinished file, or files whose schemas clash: from
\* then on neither a registration nor a query of the whole table succeeds, and
\* nothing in the code removes or rewrites a file.
Spoiled(k) == k \in broken \/ ~OneSchema(k)

\* Once a flush is over, each directory this process wrote to is registered
\* under its tenant's own name, so its rows are visible to queries, unless the
\* directory is spoiled (ingest_buffer.rs:7).
FlushedIsVisible ==
    pc \in {"idle", "woken"} =>
        \A f \in files \ bootFiles : Spoiled(f.key) \/ f.rows \subseteq Visible(f.key)

\* While the process lives, an acknowledged row reaches a Parquet file
\* (ingest_buffer.rs:4 "A background task drains the buffer to a Parquet file").
EventuallyOnDisk ==
    \A r \in Row : (r \in acked) ~> (r \in OnDisk \/ r \in lost)

\* The row shares its batch with one no common schema fits.
Stuck(r) == \E k \in Key :
    /\ r \in buffers[k] \cup drained[k]
    /\ ~Decodable(buffers[k] \cup drained[k])

\* Without a crash, a query of its table returns an acknowledged row in the end
\* (ingest_buffer.rs:7 "so subsequent SQL queries see the new rows"), however
\* writes failed, unless its batch cannot be decoded, or it is on disk in a
\* directory that is spoiled.
EventuallyVisible ==
    \A r \in Row : (r \in acked) ~>
        \/ \E k \in Key : \/ r \in Visible(k)
                          \/ Spoiled(k) /\ \E f \in files : f.key = k /\ r \in f.rows
        \/ Stuck(r) \/ crashes > 0

\* Rows are drained only while a flush writes files.
DrainedInFlush == pc \notin {"flushing", "writing"} => drained = NoRows

\* The inductive invariant behind RowsAccounted: the rows a flush
\* has taken are its own until it has written or returned all of them.
IInv == TypeOK /\ Conservation /\ AtOnePlace /\ DrainedInFlush

Log == INSTANCE IngestLog WITH pending <- InMemory, durable <- OnDisk

\* The buffer implements the durable log.
ImplementsLog == Log!LogSpec
=============================================================================
