----------------------------- MODULE Membership -----------------------------
(***************************************************************************)
(* What the worker pool promises a query, without messages and clocks:     *)
(* the workers it is offered have joined, and none joins before it may.    *)
(* They may have stopped, and running ones may be missing; one that the    *)
(* pool has forgotten, by a restart of the coordinator or because its only *)
(* registration was lost, stays forgotten.  WorkerPool implements this;    *)
(* ScatterGather runs queries on it.                                       *)
(***************************************************************************)
CONSTANTS
    Worker,
    Ungated     \* workers started without a readiness flag

VARIABLES
    fit,        \* workers that may register
    alive,      \* workers whose process has not ended
    standing,   \* of each worker with the coordinator
    offered     \* what get_available_workers returns

membership == <<fit, alive, standing, offered>>

\* "new" until its registration has arrived or is lost, "out" once forgotten.
Standing == {"new", "member", "out"}

MembershipInit ==
    /\ fit = Ungated /\ alive = Worker
    /\ standing = [w \in Worker |-> "new"] /\ offered = {}

\* Its readiness probe passes.
Warm(w) ==
    /\ w \in alive \ fit
    /\ fit' = fit \cup {w}
    /\ UNCHANGED <<alive, standing, offered>>

Stop(w) ==
    /\ w \in alive
    /\ alive' = alive \ {w}
    /\ UNCHANGED <<fit, standing, offered>>

\* What can become of a worker's standing.
Onward(w) ==
    CASE standing[w] = "new" -> IF w \in fit THEN Standing ELSE {"new", "out"}
      [] standing[w] = "member" -> {"member", "out"}
      [] standing[w] = "out" -> {"out"}

Offer ==
    /\ standing' \in [Worker -> Standing]
    /\ \A w \in Worker : standing'[w] \in Onward(w)
    /\ offered' \in SUBSET {w \in Worker : standing'[w] = "member"}
    /\ UNCHANGED <<fit, alive>>

MembershipNext == Offer \/ \E w \in Worker : Warm(w) \/ Stop(w)

MembershipSpec == MembershipInit /\ [][MembershipNext]_membership
=============================================================================
