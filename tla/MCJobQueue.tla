----------------------------- MODULE MCJobQueue -----------------------------
(***************************************************************************)
(* Small instances of the job queue for TLC.                               *)
(***************************************************************************)
EXTENDS JobQueue, TLC

CONSTANTS nojob, j1, j2, w1, w2, ca, cb, cc

Warehouses == {"etl", "bi"}
TwoJobs == {j1, j2}
OneJob == {j1}
OneEtl == j1 :> "etl"
\* One job in each list.
JobSplit == (j1 :> "etl") @@ (j2 :> "bi")
Workers == {w1, w2}
\* One worker polls both lists, the other only the first.
Polls == (w1 :> <<"etl", "bi">>) @@ (w2 :> <<"etl">>)
PollsOne == w1 :> <<"etl", "bi">>
\* Every process has a connection of its own.
OwnConns == (w1 :> ca) @@ (w2 :> cb)
OwnConn == w1 :> ca
=============================================================================
