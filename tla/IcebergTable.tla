---------------------------- MODULE IcebergTable ----------------------------
(***************************************************************************)
(* An Iceberg table of opensnow-iceberg (table.rs): a directory of Parquet *)
(* data files and of metadata files v<N>.metadata.json, appended to through *)
(* IcebergTable handles that keep their own copy of the metadata.          *)
(*                                                                         *)
(* A step is what a handle does between two effects on the directory, so   *)
(* that readers, other handles and a crash can come in between.            *)
(***************************************************************************)
EXTENDS Naturals, Sequences, FiniteSets

CONSTANTS
    Handle,       \* IcebergTable values, in one process
    Writer,       \* the handles append is called on
    RowCount,     \* row counts of appended batches
    MaxAppends,   \* bound: calls of append (at most 98)
    MaxDataFaults,    \* bound: I/O errors of the file system
    MaxHandleCrashes    \* bound: crashes of the process

ASSUME TableAssumption ==
    /\ Writer \subseteq Handle
    /\ RowCount \subseteq Nat
    /\ MaxAppends \in 0..98
    /\ {MaxDataFaults, MaxHandleCrashes} \subseteq Nat

VARIABLES
    meta,      \* directory: version -> content of v<version>.metadata.json
    complete,  \* directory: snapshot ids whose data file has a footer
    partial,   \* directory: snapshot ids whose data file has none
    pc,        \* where a handle is: "closed", "open", "data" or "commit"
    snaps,     \* TableMetadata.snapshots of a handle
    next,      \* the snapshot a handle is appending
    clock,     \* the snapshot ids given out: milliseconds and a counter
    dataFaults, handleCrashes

\* History: the snapshots whose append returned Ok.
VARIABLE acked

dirVars    == <<meta, complete, partial>>
handleVars == <<pc, snaps, next>>
icebergVars == <<dirVars, handleVars, clock, dataFaults, handleCrashes, acked>>

NoId == 0
Id == 1..MaxAppends

Snapshot == [id : Id, parent : Id \cup {NoId}, added : RowCount,
             records : Nat, files : Nat]
NoSnapshot == [id |-> NoId, parent |-> NoId, added |-> 0, records |-> 0, files |-> 0]

\* fs::write truncates the file before it writes: until then it is torn.
Metadata == [torn : BOOLEAN, snaps : Seq(Snapshot)]
TornFile == [torn |-> TRUE, snaps |-> <<>>]

IcebergTypeOK ==
    /\ DOMAIN meta \subseteq Nat \ {0}
    /\ \A v \in DOMAIN meta : meta[v] \in Metadata
    /\ complete \subseteq Id /\ partial \subseteq Id
    /\ pc \in [Handle -> {"closed", "open", "data", "commit"}]
    /\ snaps \in [Handle -> Seq(Snapshot)]
    /\ next \in [Handle -> Snapshot \cup {NoSnapshot}]
    /\ clock \in 0..MaxAppends
    /\ dataFaults \in Nat /\ handleCrashes \in Nat
    /\ acked \subseteq Id

\* IcebergTable::create: v1 holds the empty metadata.
IcebergInit ==
    /\ meta = [v \in {1} |-> [torn |-> FALSE, snaps |-> <<>>]]
    /\ complete = {} /\ partial = {}
    /\ pc = [h \in Handle |-> "closed"]
    /\ snaps = [h \in Handle |-> <<>>]
    /\ next = [h \in Handle |-> NoSnapshot]
    /\ clock = 0 /\ dataFaults = 0 /\ handleCrashes = 0
    /\ acked = {}

\* The place of v<v>.metadata.json, v < 100, in the order of the paths: '.'
\* sorts before the digits, so v1 < v10 < v11 < ... < v2 < v20 < ...
PathOrder(v) == IF v < 10 THEN 11 * v ELSE 11 * (v \div 10) + (v % 10) + 1

\* The first file of the directory is taken.
IsLatest_First(v) == \A u \in DOMAIN meta : PathOrder(v) <= PathOrder(u)

\* open: the last path of the sorted directory is taken for the latest metadata.
IsLatest(v) == \A u \in DOMAIN meta : PathOrder(u) <= PathOrder(v)

\* The directory after v<n>.metadata.json got the content m.
WithVersion(n, m) == [v \in DOMAIN meta \cup {n} |-> IF v = n THEN m ELSE meta[v]]

Newest(s) == IF s = <<>> THEN NoSnapshot ELSE s[Len(s)]

-----------------------------------------------------------------------------
\* A metadata file that does not parse is an error.
Open(h) ==
    /\ pc[h] = "closed"
    /\ \E v \in DOMAIN meta :
        /\ IsLatest(v) /\ ~meta[v].torn
        /\ snaps' = [snaps EXCEPT ![h] = meta[v].snaps]
    /\ pc' = [pc EXCEPT ![h] = "open"]
    /\ UNCHANGED <<dirVars, next, clock, dataFaults, handleCrashes, acked>>

Drop(h) ==
    /\ pc[h] = "open"
    /\ pc' = [pc EXCEPT ![h] = "closed"]
    /\ snaps' = [snaps EXCEPT ![h] = <<>>]
    /\ UNCHANGED <<dirVars, next, clock, dataFaults, handleCrashes, acked>>

\* The totals count this append only.
StartAppend_NoTotals(h) ==
    /\ h \in Writer /\ pc[h] = "open" /\ clock < MaxAppends
    /\ clock' = clock + 1
    /\ \E n \in RowCount :
        next' = [next EXCEPT ![h] =
            [id |-> clock', parent |-> Newest(snaps[h]).id, added |-> n,
             records |-> n, files |-> Newest(snaps[h]).files + 1]]
    /\ partial' = partial \cup {clock'}
    /\ pc' = [pc EXCEPT ![h] = "data"]
    /\ UNCHANGED <<meta, complete, snaps, dataFaults, handleCrashes, acked>>

\* append: a new id, and its data file is created.
StartAppend(h) ==
    /\ h \in Writer /\ pc[h] = "open" /\ clock < MaxAppends
    /\ clock' = clock + 1
    /\ \E n \in RowCount :
        next' = [next EXCEPT ![h] =
            [id |-> clock', parent |-> Newest(snaps[h]).id, added |-> n,
             records |-> Newest(snaps[h]).records + n,
             files |-> Newest(snaps[h]).files + 1]]
    /\ partial' = partial \cup {clock'}
    /\ pc' = [pc EXCEPT ![h] = "data"]
    /\ UNCHANGED <<meta, complete, snaps, dataFaults, handleCrashes, acked>>

\* The writer fails: append returns the error, the file stays.
DataFails(h) ==
    /\ pc[h] = "data" /\ dataFaults < MaxDataFaults
    /\ dataFaults' = dataFaults + 1
    /\ pc' = [pc EXCEPT ![h] = "open"]
    /\ next' = [next EXCEPT ![h] = NoSnapshot]
    /\ UNCHANGED <<dirVars, snaps, clock, handleCrashes, acked>>

\* writer.close; the snapshot joins the handle's metadata; fs::write opens the
\* file of the new version, named by the number of snapshots.
StartCommit(h) ==
    /\ pc[h] = "data"
    /\ complete' = complete \cup {next[h].id}
    /\ partial' = partial \ {next[h].id}
    /\ snaps' = [snaps EXCEPT ![h] = Append(@, next[h])]
    /\ meta' = WithVersion(Len(snaps[h]) + 1, TornFile)
    /\ pc' = [pc EXCEPT ![h] = "commit"]
    /\ UNCHANGED <<next, clock, dataFaults, handleCrashes, acked>>

EndAppend(h) ==
    /\ pc' = [pc EXCEPT ![h] = "open"]
    /\ next' = [next EXCEPT ![h] = NoSnapshot]

\* fs::write returns: append is Ok.
FinishCommit(h) ==
    /\ pc[h] = "commit"
    /\ meta' = WithVersion(Len(snaps[h]), [torn |-> FALSE, snaps |-> snaps[h]])
    /\ acked' = acked \cup {next[h].id}
    /\ EndAppend(h)
    /\ UNCHANGED <<complete, partial, snaps, clock, dataFaults, handleCrashes>>

\* fs::write fails: append is an error, and the handle keeps the snapshot.
CommitFails(h) ==
    /\ pc[h] = "commit" /\ dataFaults < MaxDataFaults
    /\ dataFaults' = dataFaults + 1
    /\ EndAppend(h)
    /\ UNCHANGED <<dirVars, snaps, clock, handleCrashes, acked>>

\* The process dies: the handles are gone, the directory stays as it is.
HandleCrash ==
    /\ handleCrashes < MaxHandleCrashes
    /\ handleCrashes' = handleCrashes + 1
    /\ pc' = [h \in Handle |-> "closed"]
    /\ snaps' = [h \in Handle |-> <<>>]
    /\ next' = [h \in Handle |-> NoSnapshot]
    /\ UNCHANGED <<dirVars, clock, dataFaults, acked>>

IcebergNext ==
    \/ \E h \in Handle : \/ Open(h) \/ Drop(h) \/ StartAppend(h) \/ DataFails(h)
                         \/ StartCommit(h) \/ FinishCommit(h) \/ CommitFails(h)
    \/ HandleCrash

IcebergSpec == IcebergInit /\ [][IcebergNext]_icebergVars

-----------------------------------------------------------------------------
Ids(s) == {s[i].id : i \in DOMAIN s}

\* data_files_at: what a time-travel query to time t reads.
DataFilesAt(s, t) == {i \in Ids(s) : i <= t}

\* The data files of s are among those done, the parents form one chain from
\* the first append, and the summaries add up.
SoundHistory(s, done) ==
    \A i \in DOMAIN s :
        /\ s[i].id \in done
        /\ s[i].parent = (IF i = 1 THEN NoId ELSE s[i - 1].id)
        /\ s[i].records = (IF i = 1 THEN 0 ELSE s[i - 1].records) + s[i].added
        /\ s[i].files = i

\* Every metadata file a reader can parse describes a table it can read,
\* whatever failed or crashed before (append writes the data file, then the
\* metadata, table.rs:144-187).
MetadataSound == \A v \in DOMAIN meta : SoundHistory(meta[v].snaps, complete)

\* query_at_timestamp: the union of those files; one that is not there fails
\* the query.
QueryAt(s, t) == IF DataFilesAt(s, t) \subseteq complete THEN DataFilesAt(s, t) ELSE {}

\* A query at the time of any acknowledged append reads that append and those
\* before it, through the metadata the next open finds, unless a commit that
\* did not finish left that file torn (table.rs:125 "Append data as a new
\* snapshot (atomic commit)", table.rs:103 "Find the latest metadata file").
CommittedVisible ==
    \A v \in DOMAIN meta :
        IsLatest(v) => meta[v].torn
            \/ \A t \in acked : {i \in acked : i <= t} \subseteq QueryAt(meta[v].snaps, t)

\* Every handle's copy is sound too, and what it is about to append fits it.
HandlesSound ==
    \A h \in Handle :
        /\ SoundHistory(snaps[h], complete)
        /\ pc[h] = "data" =>
               /\ next[h] \in Snapshot
               /\ next[h].parent = Newest(snaps[h]).id
               /\ next[h].records = Newest(snaps[h]).records + next[h].added
               /\ next[h].files = Len(snaps[h]) + 1
        /\ pc[h] = "commit" => next[h] \in Snapshot /\ snaps[h] # <<>>

\* The inductive invariant behind MetadataSound.
IInv == IcebergTypeOK /\ MetadataSound /\ HandlesSound
=============================================================================
