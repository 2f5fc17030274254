----------------------------- MODULE IngestLog -----------------------------
(***************************************************************************)
(* What streaming ingest promises a client, without buffers, flushes or    *)
(* files.  A row the server has acknowledged is pending; it becomes        *)
(* durable exactly once; only a crash of the process may lose it, and only *)
(* while it is pending.                                                    *)
(***************************************************************************)
CONSTANT Row        \* every row a client may ever send

VARIABLES pending,  \* acknowledged and only in memory
          durable,  \* on disk, in a complete Parquet file
          lost      \* acknowledged, then lost with the process

logVars == <<pending, durable, lost>>

LogInit == pending = {} /\ durable = {} /\ lost = {}

\* POST /api/v1/ingest/batch answers "ok" for rows it had not seen before.
Accept(rows) ==
    /\ rows \cap (pending \cup durable \cup lost) = {}
    /\ pending' = pending \cup rows
    /\ UNCHANGED <<durable, lost>>

\* A flush completes a file holding some of the pending rows.
Persist(rows) ==
    /\ rows \subseteq pending
    /\ pending' = pending \ rows
    /\ durable' = durable \cup rows
    /\ UNCHANGED lost

\* The process stops: what is only in memory is gone, the files stay.
Lose ==
    /\ lost' = lost \cup pending
    /\ pending' = {}
    /\ UNCHANGED durable

LogNext ==
    \/ \E rows \in SUBSET Row : Accept(rows) \/ Persist(rows)
    \/ Lose

LogSpec == LogInit /\ [][LogNext]_logVars
=============================================================================
