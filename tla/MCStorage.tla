------------------------------ MODULE MCStorage ------------------------------
(***************************************************************************)
(* What is stored and handed over: an Iceberg table with a writer and a    *)
(* reader handle, the engine's Parquet tables and materialized views (two  *)
(* names each usable for both), the Redis job queue (two jobs in one list, *)
(* two workers with a connection each), the scanners of a statement, the   *)
(* sample datasets, the export to another server, and the functions on     *)
(* account and phone numbers.  They share no state, so each behaviour      *)
(* exercises one of them and the run adds their state spaces instead of    *)
(* multiplying them.                                                       *)
(***************************************************************************)
EXTENDS IcebergTable, Tables, JobQueue, SqlText, Datasets, PgExport, ScalarFunctions, TLC

CONSTANTS h1, h2, t, m, j1, j2, w1, w2, ca, cb, cc, e1, e2

VARIABLE area  \* the component this behaviour exercises

Symmetry == Permutations({t, m})

\* One worker polls both lists, the other only the first; both jobs are in it.
MCWarehouses == {"etl", "bi"}
MCWarehouseOf == (j1 :> "etl") @@ (j2 :> "etl")
MCPolls == (w1 :> <<"etl", "bi">>) @@ (w2 :> <<"etl">>)
MCOwnConns == (w1 :> ca) @@ (w2 :> cb)

\* One job and one worker, for the runs about something else.
MCOneEtl == j1 :> "etl"
MCOnePolls == w1 :> <<"etl", "bi">>
MCOneConn == w1 :> ca

inputVars == <<textVars, datasetVars, exportVars, number>>

StorageInit ==
    /\ area \in {"iceberg", "tables", "queue", "text", "datasets", "export", "functions"}
    /\ IcebergInit /\ Init /\ QueueInit /\ TextInit /\ DatasetInit /\ ExportInit
    /\ NumberInit
    \* An area at rest starts in one state.
    /\ area = "text" \/ items = <<>>
    /\ area = "datasets" \/ dataset = "tpch"
    /\ area = "export" \/ target.exists

StorageNext ==
    \/ area = "iceberg" /\ IcebergNext /\ UNCHANGED <<area, vars, queueVars, inputVars>>
    \/ area = "tables" /\ Next /\ UNCHANGED <<area, icebergVars, queueVars, inputVars>>
    \/ area = "queue" /\ QueueNext /\ UNCHANGED <<area, icebergVars, vars, inputVars>>
    \/ /\ area = "text" /\ TextNext
       /\ UNCHANGED <<area, icebergVars, vars, queueVars, datasetVars, exportVars, number>>
    \/ /\ area = "datasets" /\ DatasetNext
       /\ UNCHANGED <<area, icebergVars, vars, queueVars, textVars, exportVars, number>>
    \/ /\ area = "export" /\ ExportNext
       /\ UNCHANGED <<area, icebergVars, vars, queueVars, textVars, datasetVars, number>>
    \/ /\ area = "functions" /\ NumberNext
       /\ UNCHANGED <<area, icebergVars, vars, queueVars, textVars, datasetVars, exportVars>>

StorageSpec ==
    StorageInit /\ [][StorageNext]_<<area, icebergVars, vars, queueVars, inputVars>>
=============================================================================
