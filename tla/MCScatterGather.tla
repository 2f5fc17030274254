--------------------------- MODULE MCScatterGather ---------------------------
(***************************************************************************)
(* Two workers and two queries: q1 replicates over the workers' shards,    *)
(* q2 hashes rows that every engine sees and runs the second worker's      *)
(* fragment on the coordinator's engine.                                   *)
(***************************************************************************)
EXTENDS ScatterGather, TLC

CONSTANTS w1, w2, q1, q2, r1, r2, r3

MCWorker == {w1, w2}
MCStrategy == (q1 :> "replicate") @@ (q2 :> "hash")
MCRemote == (q1 :> {w1, w2}) @@ (q2 :> {w1})
MCRowsAt ==
    (q1 :> ((w1 :> {r1}) @@ (w2 :> {r2, r3}) @@ (Coord :> {})))
    @@ (q2 :> [e \in Engine |-> {r1, r2, r3}])
MCHashOf == (r1 :> 4) @@ (r2 :> 7) @@ (r3 :> -3)
=============================================================================
