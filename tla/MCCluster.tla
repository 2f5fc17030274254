------------------------------ MODULE MCCluster ------------------------------
(***************************************************************************)
(* What keeps the cluster in shape: the worker pool with its heartbeats,   *)
(* the controllers that size the warehouses, and the start of its servers. *)
(* They share no state, so each behaviour exercises one of them.           *)
(* Pool: a gated worker whose clock runs a period ahead, one without a     *)
(* flag a period behind, the code's timeout of three periods and one       *)
(* coordinator restart.                                                    *)
(* Controllers: two warehouses and both controllers, with sizes on either  *)
(* side of what a replica count holds.                                     *)
(* Start: two servers and a worker of one machine on one catalog; the      *)
(* servers ask for the same ports, and the second names its configuration. *)
(***************************************************************************)
EXTENDS WorkerPool, Reconciler, ServerStart, TLC

CONSTANTS w1, w2, etl, bi, p1, p2, p3, ca, cb

VARIABLE area  \* the component this behaviour exercises

MCWorker == {w1, w2}
MCSkew == (w1 :> -1) @@ (w2 :> 1)
MCSizes == {<<0, 2>>, <<2, 5>>, <<5, 5>>}

MCColumns == <<ca, cb>>
Command(role, config, pgwire) ==
    [role |-> role, config |-> config, http |-> 80, pg |-> 54, pgwire |-> pgwire]
MCFlags == (p1 :> Command("standalone", 0, FALSE)) @@ (p2 :> Command("standalone", 2, TRUE))
           @@ (p3 :> Command("worker", 0, FALSE))

Absent == [kind |-> "absent"]
Broken == [kind |-> "broken"]
File(c) == [kind |-> "config", config |-> c]
Public == [DefaultConfig EXCEPT !.host = "public", !.pgwire = TRUE, !.tls = "good"]
Named == [DefaultConfig EXCEPT !.host = "named", !.pgwire = TRUE]
Worst == [DefaultConfig EXCEPT !.tls = "bad files", !.pgwire = TRUE]
Enterprise == [Public EXCEPT !.mode = "enterprise", !.provider = TRUE]
MCFileSets == {<<Absent, File(Public)>>, <<Broken, File(Enterprise)>>, <<File(Named), File(Worst)>>,
               <<File([Public EXCEPT !.tls = "no paths"]), Broken>>,
               <<File(Worst), File([Public EXCEPT !.root = "file"])>>}
Env(host, keys, jwt, allow) == [host |-> host, keys |-> keys, jwt |-> jwt, allow |-> allow]
MCEnvs == {Env("unset", "unset", FALSE, FALSE), Env("public", "set", TRUE, FALSE),
           Env("empty", "empty", FALSE, TRUE)}

\* The second server and the worker take turns, and have two starts together.
Turns == /\ node'[p2].stage = "down" \/ node'[p3].stage = "down"
         /\ node'[p2].starts + node'[p3].starts <= 2

AtRest == /\ files = <<Absent, Broken>> /\ env = Env("unset", "unset", FALSE, FALSE)
          /\ tables = FALSE /\ schema = {} /\ version = FALSE
          /\ holder = [port \in Ports |-> Nobody] /\ node = [p \in Procs |-> Down(0)]

ClusterInit == /\ MemberInit /\ ReconcilerInit
               /\ \/ area \in {"pool", "houses"} /\ AtRest
                  \/ area = "start" /\ StartInit

InPool(A) == area = "pool" /\ A /\ UNCHANGED <<area, reconcilerVars, startVars>>
InHouses(A) == area = "houses" /\ A /\ UNCHANGED <<area, memberVars, startVars>>
InStart(A) == area = "start" /\ A /\ Turns /\ UNCHANGED <<area, memberVars, reconcilerVars>>

ClusterNext == InPool(MemberNext) \/ InHouses(ReconcilerNext) \/ InStart(StartNext)

clusterVars == <<area, memberVars, reconcilerVars, startVars>>

\* The fairness of WorkerPool, Reconciler and ServerStart, each in its own
\* behaviours.
ClusterFairness ==
    /\ WF_clusterVars(InPool(Tick))
    /\ \A w \in Worker : WF_clusterVars(
         InPool(AcceptRegister(w) \/ DeliverBeat(w) \/ LoseRequest(w)))
    /\ WF_clusterVars(InHouses(Cycle("loop")))
    /\ WF_clusterVars(InHouses(ctl["apply"] # Asleep /\ Cycle("apply")))
    /\ \A p \in Procs : WF_clusterVars(InStart(StartStep(p)))

ClusterSpec == ClusterInit /\ [][ClusterNext]_clusterVars /\ ClusterFairness
=============================================================================
