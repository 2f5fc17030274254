----------------------------- MODULE WorkerPool -----------------------------
(***************************************************************************)
(* Membership of the cluster (opensnow-distributed): worker processes      *)
(* register with the coordinator and send heartbeats; the coordinator's    *)
(* Scheduler keeps the pool in memory and offers for a query the workers   *)
(* it heard of recently.  A worker that is given a readiness flag          *)
(* registers once it is set; Worker::start gives none, and it is what the  *)
(* program's own worker command calls.                                     *)
(*                                                                         *)
(* A worker takes a new id whenever its process starts, so an element of   *)
(* Worker is one process and never comes back.  Time passes in heartbeat   *)
(* periods (10 s); a timestamp is represented by its age.                  *)
(***************************************************************************)
EXTENDS Integers

CONSTANTS
    Worker,        \* worker processes
    Ungated,       \* those started without a readiness flag
    Timeout,       \* heartbeat_timeout_secs, in periods
    Skew,          \* [Worker -> how far its clock is behind the coordinator's]
    MaxRestarts    \* bound: restarts of the coordinator

ASSUME PoolAssumption ==
    /\ Ungated \subseteq Worker
    /\ Timeout \in Nat \ {0}
    /\ Skew \in [Worker -> Int]
    /\ MaxRestarts \in Nat

VARIABLES
    proc,      \* where the worker's start is, or "beating", or "stopped"
    ready,     \* its readiness flag
    request,   \* its register_worker call
    flying,    \* workers with a heartbeat on the wire ...
    stamp,     \* ... and the age of that heartbeat's timestamp
    listed,    \* DOMAIN of Scheduler.workers ...
    age,       \* ... and the age of last_heartbeat
    restarts,
    quiet      \* history: periods since the worker was last running, or
               \* since its registration was last accepted

workerVars == <<proc, ready>>
wireVars   == <<request, flying, stamp>>
poolVars   == <<listed, age>>
memberVars == <<workerVars, wireVars, poolVars, restarts, quiet>>

TypeOK ==
    /\ proc \in [Worker -> {"gating", "registering", "beating", "stopped"}]
    /\ ready \in [Worker -> BOOLEAN]
    /\ request \in [Worker -> {"none", "sent", "accepted", "lost"}]
    /\ flying \subseteq Worker
    /\ stamp \in [Worker -> Int]
    /\ listed \subseteq Worker
    /\ age \in [Worker -> Int]
    /\ restarts \in Nat
    /\ quiet \in [Worker -> Nat]

MemberInit ==
    /\ proc = [w \in Worker |-> "gating"]
    /\ ready = [w \in Worker |-> FALSE]
    /\ request = [w \in Worker |-> "none"]
    /\ flying = {} /\ stamp = [w \in Worker |-> 0]
    /\ listed = {} /\ age = [w \in Worker |-> 0]
    /\ restarts = 0
    /\ quiet = [w \in Worker |-> 0]

Running(w) == proc[w] # "stopped"

-----------------------------------------------------------------------------
(* The worker. *)

\* Its readiness probe passes.
BecomeReady(w) ==
    /\ proc[w] = "gating" /\ w \notin Ungated /\ ~ready[w]
    /\ ready' = [ready EXCEPT ![w] = TRUE]
    /\ UNCHANGED <<proc, wireVars, poolVars, restarts, quiet>>

\* start_with_ready_flag waits for the flag it is given, if it is given one.
Register(w) ==
    /\ proc[w] = "gating" /\ (w \in Ungated \/ ready[w])
    /\ proc' = [proc EXCEPT ![w] = "registering"]
    /\ request' = [request EXCEPT ![w] = "sent"]
    /\ UNCHANGED <<ready, flying, stamp, poolVars, restarts, quiet>>

\* The reply arrives and the heartbeat loop starts.
Registered(w) ==
    /\ proc[w] = "registering" /\ request[w] = "accepted"
    /\ proc' = [proc EXCEPT ![w] = "beating"]
    /\ UNCHANGED <<ready, wireVars, poolVars, restarts, quiet>>

\* One heartbeat at a time: the loop awaits the reply.
SendBeat(w) ==
    /\ proc[w] = "beating" /\ w \notin flying
    /\ flying' = flying \cup {w}
    /\ stamp' = [stamp EXCEPT ![w] = Skew[w]]
    /\ UNCHANGED <<workerVars, request, poolVars, restarts, quiet>>

\* The process ends: it crashes, or start returns the error of a register
\* call that was lost or whose reply was.  What it sent stays on the wire.
Stop(w) ==
    /\ Running(w)
    /\ proc' = [proc EXCEPT ![w] = "stopped"]
    /\ UNCHANGED <<ready, wireVars, poolVars, restarts, quiet>>

-----------------------------------------------------------------------------
(* The coordinator. *)

\* Scheduler::register_worker: the entry is stamped with the coordinator's
\* clock.
AcceptRegister(w) ==
    /\ request[w] = "sent"
    /\ request' = [request EXCEPT ![w] = "accepted"]
    /\ listed' = listed \cup {w}
    /\ age' = [age EXCEPT ![w] = 0]
    /\ quiet' = [quiet EXCEPT ![w] = 0]
    /\ UNCHANGED <<workerVars, flying, stamp, restarts>>

\* Timestamping a heartbeat with its arrival.
DeliverBeat_Arrival(w) ==
    /\ w \in flying
    /\ flying' = flying \ {w}
    /\ stamp' = [stamp EXCEPT ![w] = 0]
    /\ age' = [age EXCEPT ![w] = IF w \in listed THEN 0 ELSE @]
    /\ UNCHANGED <<workerVars, request, listed, restarts, quiet>>

\* Mutant: a heartbeat enters a worker that is not listed.
DeliverBeat_Upsert(w) ==
    /\ w \in flying
    /\ flying' = flying \ {w}
    /\ stamp' = [stamp EXCEPT ![w] = 0]
    /\ listed' = listed \cup {w}
    /\ age' = [age EXCEPT ![w] = stamp[w]]
    /\ UNCHANGED <<workerVars, request, restarts, quiet>>

\* Scheduler::heartbeat: the sender's timestamp; a worker that is not listed
\* is ignored.
DeliverBeat(w) ==
    /\ w \in flying
    /\ flying' = flying \ {w}
    /\ stamp' = [stamp EXCEPT ![w] = 0]
    /\ age' = [age EXCEPT ![w] = IF w \in listed THEN stamp[w] ELSE @]
    /\ UNCHANGED <<workerVars, request, listed, restarts, quiet>>

\* do_action: what arrives at the coordinator is handled and answered.
DoAction(w) == AcceptRegister(w) \/ DeliverBeat(w)

\* The connection fails under a request.
LoseRequest(w) ==
    \/ /\ w \in flying
       /\ flying' = flying \ {w} /\ stamp' = [stamp EXCEPT ![w] = 0]
       /\ UNCHANGED <<workerVars, request, poolVars, restarts, quiet>>
    \/ /\ request[w] = "sent" /\ request' = [request EXCEPT ![w] = "lost"]
       /\ UNCHANGED <<workerVars, flying, stamp, poolVars, restarts, quiet>>

\* The entries of a set of workers are removed.
Remove(W) ==
    /\ listed' = listed \ W
    /\ age' = [w \in Worker |-> IF w \in W THEN 0 ELSE age[w]]

\* Scheduler::deregister_worker.
Deregister(w) ==
    /\ w \in listed
    /\ Remove({w})
    /\ UNCHANGED <<workerVars, wireVars, restarts, quiet>>

Dead == {w \in listed : age[w] > Timeout}

\* Scheduler::check_health.
CheckHealth ==
    /\ Dead # {}
    /\ Remove(Dead)
    /\ UNCHANGED <<workerVars, wireVars, restarts, quiet>>

\* Scheduler::get_available_workers.
Available == {w \in listed : age[w] < Timeout}

\* The coordinator's process restarts: the pool is in its memory, and its
\* connections break.
RestartCoordinator ==
    /\ restarts < MaxRestarts
    /\ restarts' = restarts + 1
    /\ Remove(Worker)
    /\ flying' = {} /\ stamp' = [w \in Worker |-> 0]
    /\ request' = [w \in Worker |->
                     IF request[w] = "sent" THEN "lost" ELSE request[w]]
    /\ UNCHANGED <<workerVars, quiet>>

-----------------------------------------------------------------------------
(* Time.  Ages beyond the timeout are all alike. *)

Older(a) == IF a > Timeout THEN a ELSE a + 1

\* How long a worker whose clock runs ahead looks younger than it is.
Ahead(w) == IF Skew[w] < 0 THEN -Skew[w] ELSE 0

Quieter(w) == IF Running(w) THEN 0
              ELSE IF quiet[w] >= Timeout + Ahead(w) THEN quiet[w]
              ELSE quiet[w] + 1

\* The clock the pool compares with stands still.
Tick_Frozen ==
    /\ stamp' = [w \in Worker |-> IF w \in flying THEN Older(stamp[w])
                                                  ELSE stamp[w]]
    /\ quiet' = [w \in Worker |-> Quieter(w)]
    /\ UNCHANGED <<workerVars, request, flying, listed, age, restarts>>

Tick ==
    /\ stamp' = [w \in Worker |-> IF w \in flying THEN Older(stamp[w])
                                                  ELSE stamp[w]]
    /\ age' = [w \in Worker |-> IF w \in listed THEN Older(age[w]) ELSE age[w]]
    /\ quiet' = [w \in Worker |-> Quieter(w)]
    /\ UNCHANGED <<workerVars, request, flying, listed, restarts>>

WorkerStep(w) == BecomeReady(w) \/ Register(w) \/ Registered(w)
                 \/ SendBeat(w) \/ Stop(w)

CoordinatorStep(w) == DoAction(w) \/ LoseRequest(w) \/ Deregister(w)

MemberNext ==
    \/ \E w \in Worker : WorkerStep(w) \/ CoordinatorStep(w)
    \/ CheckHealth \/ Tick \/ RestartCoordinator

\* Time passes, and what is on the wire arrives or fails.  Nobody calls
\* deregister_worker or check_health outside the tests, so nothing is assumed
\* of them, nor of the workers.
MemberFairness ==
    /\ WF_memberVars(Tick)
    /\ \A w \in Worker :
         WF_memberVars(DoAction(w) \/ LoseRequest(w))

MemberSpec == MemberInit /\ [][MemberNext]_memberVars /\ MemberFairness

-----------------------------------------------------------------------------
(* Properties. *)

\* A worker is offered for queries only while it runs, or for less than the
\* heartbeat timeout after it stopped, plus what its clock runs ahead
\* (get_available_workers).  A registration that arrives after the worker
\* stopped counts from its arrival.
AvailableIsRecent ==
    \A w \in Available : quiet[w] < Timeout + Ahead(w)

\* With the coordinator a worker is new until its registration has come to
\* something, and a member while it is listed.
StandingOf(w) ==
    IF w \in listed THEN "member"
    ELSE IF request[w] \in {"none", "sent"} THEN "new" ELSE "out"

\* Queries are offered members only; a worker that was given a flag joins after
\* it is set; and no heartbeat, delay or restart brings back a worker the pool
\* has forgotten (start_with_ready_flag, Scheduler::heartbeat).
Abstract == INSTANCE Membership WITH
    fit      <- Ungated \cup {w \in Worker : ready[w]},
    alive    <- {w \in Worker : Running(w)},
    standing <- [w \in Worker |-> StandingOf(w)],
    offered  <- Available
ImplementsMembership == Abstract!MembershipSpec

\* A worker that stopped is, sooner or later, not offered any more, though
\* nobody calls check_health.
StoppedLeavesPool ==
    \A w \in Worker : proc[w] = "stopped" ~> [](w \notin Available)
=============================================================================
