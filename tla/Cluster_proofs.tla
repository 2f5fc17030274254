--------------------------- MODULE Cluster_proofs -----------------------------
(***************************************************************************)
(* Proofs about the processes of a cluster: the pool of workers            *)
(* (WorkerPool), for any workers, skews and timeouts; the start of a       *)
(* server (ServerStart), for any processes, files, environments and        *)
(* columns; and the controllers of the warehouses (Reconciler), for any    *)
(* warehouses, sizes, width of a count and number of faults.               *)
(***************************************************************************)
EXTENDS WorkerPool, ServerStart, Reconciler, SequenceTheorems,
        WellFoundedInduction, TLAPS

-------------------------------------------------------------------------------
\* The pool of workers: its entries never make a worker look younger than its
\* silence, less what its clock runs ahead; and it implements Membership.

\* What a worker has sent, or is about to send, it sends after its warm-up, if
\* it waits for one; and an entry is that of a registration that was accepted.
Gated ==
    \A w \in Worker :
        /\ \/ w \in listed \/ w \in flying
           \/ request[w] = "sent" \/ proc[w] \in {"registering", "beating"}
           => w \in Ungated \/ ready[w]
        /\ w \in listed => request[w] = "accepted"
        /\ proc[w] = "gating" => request[w] = "none"

\* The entry and the heartbeat on the wire are as old as the worker's
\* silence, which counts from its end.
Aged ==
    \A w \in Worker :
        /\ Running(w) => quiet[w] = 0
        /\ quiet[w] <= Timeout + Ahead(w)
        /\ w \in listed => age[w] >= quiet[w] - Ahead(w)
        /\ w \in flying => stamp[w] >= quiet[w] - Ahead(w)

IInv == TypeOK /\ Gated /\ Aged

\* How far a clock runs ahead is a number.
LEMMA AheadNat ==
    ASSUME NEW w \in Worker
    PROVE  /\ Skew[w] \in Int
           /\ Ahead(w) \in Nat
           /\ Skew[w] >= -Ahead(w)
BY PoolAssumption DEF Ahead

\* The invariant holds initially: no worker runs.
LEMMA InitIInv == MemberInit => IInv
<1> SUFFICES ASSUME MemberInit PROVE IInv
  OBVIOUS
<1>1. TypeOK
  BY DEF MemberInit, TypeOK
<1>2. Gated
  BY DEF MemberInit, Gated
<1>3. Aged
  <2> SUFFICES ASSUME NEW w \in Worker
               PROVE  /\ quiet[w] = 0
                      /\ 0 <= Timeout + Ahead(w)
                      /\ w \notin listed /\ w \notin flying
    BY DEF Aged
  <2> QED
    BY AheadNat, PoolAssumption DEF MemberInit
<1> QED
  BY <1>1, <1>2, <1>3 DEF IInv

\* Every step preserves the types.
LEMMA TypeStep == TypeOK /\ [MemberNext]_memberVars => TypeOK'
<1> SUFFICES ASSUME TypeOK, [MemberNext]_memberVars PROVE TypeOK'
  OBVIOUS
<1> USE PoolAssumption DEF TypeOK, workerVars, wireVars, poolVars
<1>1. CASE UNCHANGED memberVars
  BY <1>1 DEF memberVars
<1>2. ASSUME NEW w \in Worker, WorkerStep(w) PROVE TypeOK'
  BY <1>2 DEF WorkerStep, BecomeReady, Register, Registered, SendBeat, Stop
<1>3. ASSUME NEW w \in Worker, CoordinatorStep(w) PROVE TypeOK'
  <2>1. CASE AcceptRegister(w)
    BY <2>1 DEF AcceptRegister
  <2>2. CASE DeliverBeat(w)
    BY <2>2 DEF DeliverBeat
  <2>3. CASE LoseRequest(w)
    BY <2>3 DEF LoseRequest
  <2>4. CASE Deregister(w)
    BY <2>4 DEF Deregister, Remove
  <2> QED
    BY <1>3, <2>1, <2>2, <2>3, <2>4 DEF CoordinatorStep, DoAction
<1>4. CASE CheckHealth
  BY <1>4 DEF CheckHealth, Remove
<1>5. CASE RestartCoordinator
  BY <1>5 DEF RestartCoordinator, Remove
<1>6. CASE Tick
  <2>1. stamp' \in [Worker -> Int] /\ age' \in [Worker -> Int]
    BY <1>6 DEF Tick, Older
  <2>2. \A w \in Worker : Quieter(w) \in Nat
    BY AheadNat DEF Quieter
  <2> QED
    BY <1>6, <2>1, <2>2 DEF Tick
<1> QED
  BY <1>1, <1>2, <1>3, <1>4, <1>5, <1>6 DEF MemberNext

\* Every step preserves that only a worker that may has sent anything, and that
\* an entry belongs to an accepted registration.
LEMMA GatedStep == IInv /\ [MemberNext]_memberVars => Gated'
<1> SUFFICES ASSUME IInv, [MemberNext]_memberVars PROVE Gated'
  OBVIOUS
<1> USE DEF IInv, TypeOK, Gated, workerVars, wireVars, poolVars
<1>1. CASE UNCHANGED memberVars
  BY <1>1 DEF memberVars
<1>2. ASSUME NEW w \in Worker, WorkerStep(w) PROVE Gated'
  BY <1>2 DEF WorkerStep, BecomeReady, Register, Registered, SendBeat, Stop
<1>3. ASSUME NEW w \in Worker, CoordinatorStep(w) PROVE Gated'
  BY <1>3 DEF CoordinatorStep, DoAction, AcceptRegister, DeliverBeat, LoseRequest,
              Deregister, Remove
<1>4. CASE CheckHealth
  BY <1>4 DEF CheckHealth, Remove
<1>5. CASE RestartCoordinator
  BY <1>5 DEF RestartCoordinator, Remove
<1>6. CASE Tick
  BY <1>6 DEF Tick
<1> QED
  BY <1>1, <1>2, <1>3, <1>4, <1>5, <1>6 DEF MemberNext

\* Every step preserves the ages: what is sent is as fresh as the sender.
LEMMA AgedStep == IInv /\ [MemberNext]_memberVars => Aged'
<1> SUFFICES ASSUME IInv, [MemberNext]_memberVars, NEW v \in Worker
             PROVE  /\ Running(v)' => quiet'[v] = 0
                    /\ quiet'[v] <= Timeout + Ahead(v)
                    /\ v \in listed' => age'[v] >= quiet'[v] - Ahead(v)
                    /\ v \in flying' => stamp'[v] >= quiet'[v] - Ahead(v)
  BY DEF Aged, Ahead
<1> USE PoolAssumption, AheadNat DEF IInv, TypeOK, workerVars, wireVars, poolVars
<1>0. /\ Running(v) => quiet[v] = 0
      /\ quiet[v] <= Timeout + Ahead(v)
      /\ v \in listed => age[v] >= quiet[v] - Ahead(v)
      /\ v \in flying => stamp[v] >= quiet[v] - Ahead(v)
  BY DEF Aged
<1>1. CASE UNCHANGED memberVars
  BY <1>0, <1>1 DEF memberVars, Running
<1>2. ASSUME NEW w \in Worker, WorkerStep(w)
      PROVE  /\ Running(v)' => quiet'[v] = 0
             /\ quiet'[v] <= Timeout + Ahead(v)
             /\ v \in listed' => age'[v] >= quiet'[v] - Ahead(v)
             /\ v \in flying' => stamp'[v] >= quiet'[v] - Ahead(v)
  BY <1>0, <1>2 DEF WorkerStep, BecomeReady, Register, Registered, SendBeat,
                    Stop, Running
<1>3. ASSUME NEW w \in Worker, CoordinatorStep(w)
      PROVE  /\ Running(v)' => quiet'[v] = 0
             /\ quiet'[v] <= Timeout + Ahead(v)
             /\ v \in listed' => age'[v] >= quiet'[v] - Ahead(v)
             /\ v \in flying' => stamp'[v] >= quiet'[v] - Ahead(v)
  BY <1>0, <1>3 DEF CoordinatorStep, DoAction, AcceptRegister, DeliverBeat, LoseRequest,
                    Deregister, Remove, Running
<1>4. CASE CheckHealth
  BY <1>0, <1>4 DEF CheckHealth, Remove, Running
<1>5. CASE RestartCoordinator
  BY <1>0, <1>5 DEF RestartCoordinator, Remove, Running
<1>6. CASE Tick
  <2>1. quiet'[v] = Quieter(v) /\ Running(v)' = Running(v)
    BY <1>6 DEF Tick, Running
  <2>2. /\ Running(v) => Quieter(v) = 0
        /\ Quieter(v) <= Timeout + Ahead(v)
        /\ Quieter(v) <= quiet[v] + 1
    BY <1>0 DEF Quieter
  <2>3. \A a, q \in Int : /\ a >= quiet[v] - Ahead(v)
                          /\ q <= quiet[v] + 1 /\ q <= Timeout + Ahead(v)
                          => Older(a) >= q - Ahead(v)
    BY DEF Older
  <2>4. Quieter(v) \in Int
    BY DEF Quieter
  <2>5. v \in listed' => age'[v] >= quiet'[v] - Ahead(v)
    <3> SUFFICES ASSUME v \in listed PROVE age'[v] >= quiet'[v] - Ahead(v)
      BY <1>6 DEF Tick
    <3>1. age'[v] = Older(age[v])
      BY <1>6 DEF Tick
    <3>2. age[v] \in Int /\ age[v] >= quiet[v] - Ahead(v)
      BY <1>0
    <3> QED
      BY <2>1, <2>2, <2>3, <2>4, <3>1, <3>2
  <2>6. v \in flying' => stamp'[v] >= quiet'[v] - Ahead(v)
    <3> SUFFICES ASSUME v \in flying PROVE stamp'[v] >= quiet'[v] - Ahead(v)
      BY <1>6 DEF Tick
    <3>1. stamp'[v] = Older(stamp[v])
      BY <1>6 DEF Tick
    <3>2. stamp[v] \in Int /\ stamp[v] >= quiet[v] - Ahead(v)
      BY <1>0
    <3> QED
      BY <2>1, <2>2, <2>3, <2>4, <3>1, <3>2
  <2> QED
    BY <2>1, <2>2, <2>5, <2>6
<1> QED
  BY <1>1, <1>2, <1>3, <1>4, <1>5, <1>6 DEF MemberNext

\* The invariant holds in every reachable state.
LEMMA Invariance == MemberSpec => []IInv
<1>1. IInv /\ [MemberNext]_memberVars => IInv'
  BY TypeStep, GatedStep, AgedStep DEF IInv
<1> QED
  BY InitIInv, <1>1, PTL DEF MemberSpec

\* Every reachable state of the pool is well typed.
THEOREM TypeCorrect == MemberSpec => []TypeOK
<1>1. IInv => TypeOK
  BY DEF IInv
<1> QED
  BY Invariance, <1>1, PTL

\* get_available_workers never offers a worker that has been silent for the
\* timeout plus what its clock runs ahead, for any timeout, any skew and any
\* delay or loss of messages.
THEOREM PoolIsRecent == MemberSpec => []AvailableIsRecent
<1>1. ASSUME IInv, NEW w \in Available PROVE quiet[w] < Timeout + Ahead(w)
  <2>1. w \in Worker /\ w \in listed /\ age[w] < Timeout
    BY <1>1 DEF Available, IInv, TypeOK
  <2>2. age[w] >= quiet[w] - Ahead(w)
    BY <1>1, <2>1 DEF IInv, Aged
  <2>3. age[w] \in Int /\ quiet[w] \in Nat /\ Timeout \in Nat /\ Ahead(w) \in Nat
    BY <1>1, <2>1, AheadNat, PoolAssumption DEF IInv, TypeOK
  <2> QED
    BY <2>1, <2>2, <2>3
<1>2. IInv => AvailableIsRecent
  BY <1>1 DEF AvailableIsRecent
<1> QED
  BY Invariance, <1>2, PTL

\* Every step of the pool is a step of Membership, or changes nothing of it.
LEMMA AbstractStep ==
    IInv /\ IInv' /\ [MemberNext]_memberVars
        => [Abstract!MembershipNext]_Abstract!membership
<1> SUFFICES ASSUME IInv, IInv', [MemberNext]_memberVars
             PROVE  [Abstract!MembershipNext]_Abstract!membership
  OBVIOUS
<1> DEFINE fit == Ungated \cup {w \in Worker : ready[w]}
           alive == {w \in Worker : Running(w)}
           standing == [w \in Worker |-> StandingOf(w)]
<1> USE DEF workerVars, wireVars, poolVars
<1>1. ASSUME UNCHANGED <<proc, ready>>,
             \A w \in Worker :
                \/ request'[w] = request[w] /\ (w \in listed' => w \in listed)
                \/ request[w] = "sent" /\ request'[w] \in {"accepted", "lost"}
                   /\ w \notin listed /\ (w \in listed' => request'[w] = "accepted")
                   /\ (request'[w] = "accepted" => w \in listed')
      PROVE  Abstract!MembershipNext
  <2>1. UNCHANGED <<fit, alive>>
    BY <1>1 DEF Running
  <2>2. standing' \in [Worker -> {"new", "member", "out"}]
    BY DEF StandingOf
  <2>3. ASSUME NEW w \in Worker
        PROVE  /\ standing[w] = "new" => w \in fit \/ standing'[w] \in {"new", "out"}
               /\ standing[w] = "member" => standing'[w] \in {"member", "out"}
               /\ standing[w] = "out" => standing'[w] = "out"
    <3>1. /\ w \in listed => request[w] = "accepted"
          /\ request[w] = "sent" => w \in Ungated \/ ready[w]
          /\ request[w] \in {"none", "sent", "accepted", "lost"}
      BY DEF IInv, TypeOK, Gated
    <3>2. standing[w] = StandingOf(w) /\ standing'[w] = StandingOf(w)'
      OBVIOUS
    <3>3. CASE request'[w] = request[w] /\ (w \in listed' => w \in listed)
      BY <3>1, <3>2, <3>3 DEF StandingOf
    <3>4. CASE /\ request[w] = "sent" /\ request'[w] \in {"accepted", "lost"}
               /\ w \notin listed
      BY <3>1, <3>2, <3>4 DEF StandingOf
    <3> QED
      BY <1>1, <3>3, <3>4
  <2>4. \A w \in Worker : standing[w] \in {"new", "member", "out"}
    BY DEF StandingOf
  <2>5. \A w \in Worker : standing'[w] \in
          (CASE standing[w] = "new" -> IF w \in fit THEN {"new", "member", "out"} ELSE {"new", "out"}
             [] standing[w] = "member" -> {"member", "out"}
             [] standing[w] = "out" -> {"out"})
    <3> HIDE DEF standing, fit
    <3>1. \A w \in Worker : standing'[w] \in {"new", "member", "out"}
      BY <2>2
    <3> QED
      BY <2>3, <2>4, <3>1
  <2>6. Available' \in SUBSET {w \in Worker : standing'[w] = "member"}
    BY DEF IInv, TypeOK, Available, StandingOf
  <2>7. Abstract!Offer
    BY <2>1, <2>2, <2>5, <2>6 DEF Abstract!Offer, Abstract!Standing, Abstract!Onward
  <2> QED
    BY <2>7 DEF Abstract!MembershipNext
<1>2. ASSUME NEW w \in Worker, BecomeReady(w)
      PROVE  Abstract!MembershipNext
  <2>1. Available' = Available /\ standing' = standing
    BY <1>2 DEF BecomeReady, Available, StandingOf
  <2>2. alive' = alive
    BY <1>2 DEF BecomeReady, Running
  <2>3. w \in alive \ fit
    BY <1>2 DEF BecomeReady, Running
  <2>4. fit' = fit \cup {w}
    BY <1>2 DEF BecomeReady, IInv, TypeOK
  <2>5. Abstract!Warm(w)
    BY <2>1, <2>2, <2>3, <2>4 DEF Abstract!Warm
  <2> QED
    BY <2>5 DEF Abstract!MembershipNext
<1>3. ASSUME NEW w \in Worker, Stop(w)
      PROVE  Abstract!MembershipNext
  <2>1. Available' = Available /\ fit' = fit /\ standing' = standing
    BY <1>3 DEF Stop, Available, StandingOf
  <2>2. w \in alive
    BY <1>3 DEF Stop
  <2>3. alive' = alive \ {w}
    BY <1>3 DEF Stop, Running, IInv, TypeOK
  <2>4. Abstract!Stop(w)
    BY <2>1, <2>2, <2>3 DEF Abstract!Stop
  <2> QED
    BY <2>4 DEF Abstract!MembershipNext
<1>4. ASSUME NEW w \in Worker, Register(w) \/ Registered(w)
      PROVE  UNCHANGED <<fit, alive, standing, Available>>
  <2>1. alive' = alive /\ fit' = fit /\ Available' = Available
    BY <1>4 DEF Register, Registered, Running, Available, IInv, TypeOK
  <2>2. \A v \in Worker : StandingOf(v)' = StandingOf(v)
    BY <1>4 DEF Register, Registered, StandingOf, IInv, TypeOK, Gated
  <2> QED
    BY <2>1, <2>2
<1>5. ASSUME NEW w \in Worker, SendBeat(w) \/ DeliverBeat(w) \/ Deregister(w)
      PROVE  Abstract!MembershipNext
  <2>1. UNCHANGED <<proc, ready, request>> /\ listed' \subseteq listed
    BY <1>5 DEF SendBeat, DeliverBeat, Deregister, Remove
  <2> QED
    BY <1>1, <2>1
<1>6. ASSUME NEW w \in Worker, AcceptRegister(w)
      PROVE  Abstract!MembershipNext
  <2>1. /\ UNCHANGED <<proc, ready>> /\ request[w] = "sent" /\ w \notin listed
        /\ request' = [request EXCEPT ![w] = "accepted"] /\ listed' = listed \cup {w}
    BY <1>6 DEF AcceptRegister, IInv, Gated
  <2>2. \A v \in Worker : \/ v # w /\ request'[v] = request[v] /\ (v \in listed' => v \in listed)
                          \/ v = w /\ request'[v] = "accepted" /\ v \in listed'
    BY <2>1 DEF IInv, TypeOK
  <2> QED
    BY <1>1, <2>1, <2>2
<1>7. ASSUME NEW w \in Worker, LoseRequest(w)
      PROVE  Abstract!MembershipNext
  <2>1. /\ UNCHANGED <<proc, ready, listed>>
        /\ \/ UNCHANGED request
           \/ request[w] = "sent" /\ request' = [request EXCEPT ![w] = "lost"]
    BY <1>7 DEF LoseRequest
  <2>2. \A v \in Worker : \/ request'[v] = request[v]
                          \/ request[v] = "sent" /\ request'[v] = "lost" /\ v \notin listed'
    BY <2>1 DEF IInv, TypeOK, Gated
  <2> QED
    BY <1>1, <2>1, <2>2
<1>8. CASE CheckHealth \/ Tick
  <2>1. UNCHANGED <<proc, ready, request>> /\ listed' \subseteq listed
    BY <1>8 DEF CheckHealth, Tick, Remove
  <2> QED
    BY <1>1, <2>1
<1>9. CASE RestartCoordinator
  <2>1. /\ UNCHANGED <<proc, ready>> /\ listed' = {}
        /\ request' = [w \in Worker |-> IF request[w] = "sent" THEN "lost" ELSE request[w]]
    BY <1>9 DEF RestartCoordinator, Remove, IInv, TypeOK
  <2>2. \A w \in Worker : /\ w \notin listed'
                          /\ \/ request'[w] = request[w]
                             \/ request[w] = "sent" /\ request'[w] = "lost" /\ w \notin listed
    BY <2>1 DEF IInv, Gated
  <2> QED
    BY <1>1, <2>1, <2>2
<1>10. CASE UNCHANGED memberVars
  BY <1>10 DEF memberVars, Running, StandingOf, Available, Abstract!membership
<1>11. UNCHANGED <<fit, alive, standing, Available>>
        => [Abstract!MembershipNext]_Abstract!membership
  BY DEF Abstract!membership
<1> QED
  BY <1>2, <1>3, <1>4, <1>5, <1>6, <1>7, <1>8, <1>9, <1>10, <1>11
  DEF MemberNext, WorkerStep, CoordinatorStep, DoAction

\* The pool implements Membership: whatever messages, clocks and restarts do, a
\* query is offered workers that have registered, those with a flag after it was
\* set, and a worker the coordinator forgot stays forgotten.
THEOREM Implements == MemberSpec => ImplementsMembership
<1>1. MemberInit => Abstract!MembershipInit
  BY PoolAssumption
  DEF MemberInit, Abstract!MembershipInit, Available, Running, StandingOf
<1>2. IInv /\ IInv' /\ [MemberNext]_memberVars
        => [Abstract!MembershipNext]_Abstract!membership
  BY AbstractStep
<1> QED
  BY <1>1, <1>2, Invariance, PTL
     DEF MemberSpec, ImplementsMembership, Abstract!MembershipSpec

-------------------------------------------------------------------------------
\* The start of a server: only a process that is ready serves.

USE StartAssumption

Stages == {"down", "engine", "open", "look", "alter", "version", "worker", "run", "spawned", "join"}
Listener == {"none", "starting", "plain", "tls", "dead"}
Node == [stage : Stages, starts : Nat, config : Config, engines : Nat, column : Nat,
         seen : BOOLEAN, http : Listener, pg : Listener]

StartTypeOK ==
    /\ files \in FileSets /\ env \in Envs
    /\ {tables, version} \subseteq BOOLEAN /\ schema \subseteq AllColumns
    /\ node \in [Procs -> Node]

(* How far a process r is on a catalog with the tables t, the columns s    *)
(* and the version v, in the environment e.  A migration that has looked at*)
(* a column leaves it in the schema for good.                              *)
Migrating(r, t, s) ==
    /\ r.stage = "open" => r.column = 1
    /\ r.stage \in {"look", "alter"} => /\ t /\ r.column \in DOMAIN Columns
                                        /\ \A i \in 1 .. r.column - 1 : Columns[i] \in s
    /\ r.stage = "alter" /\ r.seen => Columns[r.column] \in s
    /\ r.stage = "version" => t /\ AllColumns \subseteq s

(* The second engine of a process starts on a catalog that is up to date.  *)
Migrated(r, t, s, v) ==
    /\ r.stage \in {"engine", "open", "look", "alter", "version"} => r.engines \in {1, 2}
    /\ r.stage \in {"worker", "run", "spawned", "join"} => r.engines = 0
    /\ r.stage # "down" /\ r.engines <= 1 => t /\ AllColumns \subseteq s /\ v

(* Only a process that has come so far has listeners, and they speak what  *)
(* its configuration asks for.                                             *)
Listening(r, e) ==
    /\ r.stage # "down" => Deployable(r.config)
    /\ r.stage \in {"spawned", "join"} =>
         r.config.host \in {"loopback", "named"} \/ e.jwt \/ e.allow
    /\ r.http # "none" => r.stage \in {"spawned", "join"}
    /\ r.pg # "none" => r.stage = "join"
    /\ {r.http, r.pg} \cap {"plain", "tls"} \subseteq {Bound(r.config)}

Fit(r, t, s, v, e) == Migrating(r, t, s) /\ Migrated(r, t, s, v) /\ Listening(r, e)

StartInv == StartTypeOK /\ \A p \in Procs : Fit(node[p], tables, schema, version, env)

\* The invariant is strong enough.
LEMMA StartInvHolds == ASSUME StartInv PROVE ServesOnlyReady
<1> SUFFICES ASSUME NEW p \in Procs, Serves(p)
             PROVE  LET c == node[p].config IN
                    /\ tables /\ AllColumns \subseteq schema /\ version
                    /\ {node[p].http, node[p].pg} \cap {"plain", "tls"} = {Bound(c)}
                    /\ c.host # "public" \/ env.jwt \/ env.allow
                    /\ c.mode = "enterprise" => ~c.inline
  BY DEF ServesOnlyReady
<1>1. PICK r \in Node : r = node[p] /\ Fit(r, tables, schema, version, env)
  BY DEF StartInv, StartTypeOK
<1>2. {r.http, r.pg} \cap {"plain", "tls"} # {}
  BY <1>1 DEF Serves
<1>3. r.stage \in {"spawned", "join"}
  BY <1>1, <1>2 DEF Fit, Listening
<1>4. tables /\ AllColumns \subseteq schema /\ version
  BY <1>1, <1>3 DEF Fit, Migrated
<1>5. {r.http, r.pg} \cap {"plain", "tls"} = {Bound(r.config)}
  BY <1>1, <1>2 DEF Fit, Listening
<1>6. r.config.host # "public" \/ env.jwt \/ env.allow
  BY <1>1, <1>3 DEF Fit, Listening
<1>7. r.config.mode = "enterprise" => ~r.config.inline
  BY <1>1, <1>3 DEF Fit, Listening, Deployable
<1> QED
  BY <1>1, <1>4, <1>5, <1>6, <1>7

(* A process that is down promises nothing.                                *)
LEMMA DownFits == ASSUME NEW n \in Nat PROVE Down(n) \in Node /\ \A t, s, v, e : Fit(Down(n), t, s, v, e)
<1>1. Down(n) \in Node
  BY DEF Down, Node, Stages, Listener, DefaultConfig, Config
<1>2. /\ Down(n).stage = "down" /\ Down(n).http = "none" /\ Down(n).pg = "none"
  BY DEF Down
<1> QED
  BY <1>1, <1>2 DEF Fit, Migrating, Migrated, Listening

\* Initially every process is down, and so fits any catalog.
LEMMA StartInitInv == StartInit => StartInv
<1> SUFFICES ASSUME StartInit PROVE StartInv
  OBVIOUS
<1>1. /\ files \in FileSets /\ env \in Envs /\ {tables, version} \subseteq BOOLEAN
      /\ schema \subseteq AllColumns
  <2>1. PICK n \in 0 .. Len(Columns) : /\ schema = {Columns[i] : i \in 1 .. n}
                                       /\ version = (n = Len(Columns))
                                       /\ tables \in {TRUE, n > 0}
    BY DEF StartInit
  <2>2. Len(Columns) \in Nat /\ DOMAIN Columns = 1 .. Len(Columns)
    BY LenProperties
  <2>3. 1 .. n \subseteq DOMAIN Columns
    <3>1. PICK k \in Nat : k = Len(Columns) /\ DOMAIN Columns = 1 .. k
      BY <2>2
    <3>2. n \in 0 .. k
      BY <3>1
    <3>3. 1 .. n \subseteq 1 .. k
      BY <3>2
    <3> QED
      BY <3>1, <3>3
  <2>4. schema \subseteq AllColumns
    BY <2>1, <2>3 DEF AllColumns
  <2>5. version \in BOOLEAN /\ tables \in BOOLEAN
    <3>1. (n = Len(Columns)) \in BOOLEAN /\ (n > 0) \in BOOLEAN
      OBVIOUS
    <3>2. version \in BOOLEAN
      BY <2>1, <3>1, Zenon
    <3>3. tables \in BOOLEAN
      BY <2>1, <3>1, Zenon
    <3> QED
      BY <3>2, <3>3
  <2> QED
    BY <2>4, <2>5 DEF StartInit
<1>2. node = [p \in Procs |-> Down(0)]
  BY DEF StartInit
<1> QED
  BY <1>1, <1>2, DownFits DEF StartInv, StartTypeOK

(* One process moves; the catalog only gains columns, tables, a version.   *)
LEMMA OneMoves ==
    ASSUME StartInv, NEW p \in Procs, NEW r \in Node, Step(p, r),
           UNCHANGED <<files, env>>, {tables', version'} \subseteq BOOLEAN,
           tables => tables', version => version',
           schema \subseteq schema', schema' \subseteq AllColumns,
           Fit(r, tables', schema', version', env)
    PROVE  StartInv'
<1>1. StartTypeOK'
  BY DEF StartInv, StartTypeOK, Step
<1>2. ASSUME NEW g \in Procs PROVE Fit(node'[g], tables', schema', version', env')
  <2>1. CASE g = p
    BY <2>1 DEF Step, StartInv, StartTypeOK
  <2>2. CASE g # p
    <3>1. node'[g] = node[g]
      BY <2>2 DEF Step, StartInv, StartTypeOK
    <3>2. Fit(node[g], tables, schema, version, env)
      BY DEF StartInv
    <3> QED
      BY <3>1, <3>2 DEF Fit, Migrating, Migrated, Listening
  <2> QED
    BY <2>1, <2>2
<1> QED
  BY <1>1, <1>2 DEF StartInv

\* A process that gives up is down.
LEMMA ExitStep ==
    ASSUME StartInv, NEW p \in Procs, Exit(p), UNCHANGED <<files, env, tables, schema, version>>
    PROVE  StartInv'
<1>1. node[p].starts \in Nat
  BY DEF StartInv, StartTypeOK, Node
<1>2. Down(node[p].starts) \in Node /\ Fit(Down(node[p].starts), tables', schema', version', env)
  BY <1>1, DownFits
<1>3. Step(p, Down(node[p].starts))
  BY DEF Exit
<1> QED
  BY <1>2, <1>3, OneMoves DEF StartInv, StartTypeOK

(* A set of positions that is not empty has a first one.                   *)
LEMMA FirstOf == ASSUME NEW S, S \subseteq Nat, S # {} PROVE \E m \in S : \A n \in S : m <= n
<1>1. PICK m \in S : \A n \in S : <<n, m>> \notin OpToRel(<, Nat)
  BY NatLessThanWellFounded, WFMin
<1>2. \A n \in S : ~(n < m)
  BY <1>1, Zenon DEF OpToRel
<1>3. \A n \in S : m <= n
  BY <1>2
<1> QED
  BY <1>3

\* The variables of the environment change a configuration into another one.
LEMMA EnvApplied == ASSUME NEW c \in Config, env \in Environment PROVE ApplyEnv(c) \in Config
<1>1. PICK h : h = IF env.host \in {"unset", "empty"} THEN c.host ELSE env.host
  OBVIOUS
<1>2. PICK b : b = IF env.keys = "unset" THEN c.inline ELSE env.keys = "set"
  OBVIOUS
<1>3. ApplyEnv(c) = [c EXCEPT !.host = h, !.inline = b]
  BY <1>1, <1>2 DEF ApplyEnv
<1>4. h \in {"loopback", "named", "public"}
  BY <1>1 DEF Config, Environment
<1>5. b \in BOOLEAN
  <2>1. c.inline \in BOOLEAN
    BY DEF Config
  <2> QED
    BY <1>2, <2>1, Zenon
<1> QED
  BY <1>3, <1>4, <1>5 DEF Config

(* What is loaded is a configuration, and one that may be deployed.        *)
LEMMA Loaded ==
    ASSUME StartInv, NEW p \in Procs, NEW l,
           l = IF Flags[p].config = 0 THEN LoadDefault ELSE LoadFrom(Flags[p].config)
    PROVE  l.config \in Config /\ (l.ok => Deployable(l.config))
<1>1. /\ files \in FileSets /\ env \in Environment
      /\ DOMAIN files \subseteq Nat /\ Flags[p].config \in DOMAIN files \cup {0}
      /\ \A i \in DOMAIN files : Readable(i) => files[i].config \in Config
  BY DEF StartInv, StartTypeOK, Readable
<1>2. DefaultConfig \in Config /\ Deployable(DefaultConfig)
  BY DEF DefaultConfig, Config, Deployable
<1>3. CASE Flags[p].config = 0
  <2> DEFINE parsed == {i \in DOMAIN files : Readable(i)}
  <2>1. CASE parsed = {}
    <3>1. LoadDefault = [ok |-> TRUE, config |-> DefaultConfig]
      BY <2>1 DEF LoadDefault
    <3> QED
      BY <1>2, <1>3, <3>1
  <2>2. CASE parsed # {}
    <3>1. \E m \in parsed : \A j \in parsed : m <= j
      BY <1>1, <2>2, FirstOf
    <3>2. PICK m \in parsed : m = CHOOSE i \in parsed : \A j \in parsed : i <= j
      BY <3>1
    <3>3. LoadDefault = [ok |-> Deployable(ApplyEnv(files[m].config)),
                         config |-> ApplyEnv(files[m].config)]
      BY <2>2, <3>2 DEF LoadDefault
    <3>4. ApplyEnv(files[m].config) \in Config
      BY <1>1, <3>2, EnvApplied
    <3> QED
      BY <1>3, <3>3, <3>4
  <2> QED
    BY <2>1, <2>2
<1>4. CASE Flags[p].config # 0
  <2>1. PICK i \in DOMAIN files : i = Flags[p].config
    BY <1>1, <1>4
  <2>2. CASE ~Readable(i)
    <3>1. l = [ok |-> FALSE, config |-> DefaultConfig]
      BY <1>4, <2>1, <2>2 DEF LoadFrom
    <3> QED
      BY <1>2, <3>1
  <2>3. CASE Readable(i)
    <3>1. l = [ok |-> Deployable(ApplyEnv(files[i].config)), config |-> ApplyEnv(files[i].config)]
      BY <1>4, <2>1, <2>3 DEF LoadFrom
    <3>2. ApplyEnv(files[i].config) \in Config
      BY <1>1, <2>1, <2>3, EnvApplied
    <3> QED
      BY <3>1, <3>2
  <2> QED
    BY <2>2, <2>3
<1> QED
  BY <1>3, <1>4

(* Fields of a process that is on its way.                                 *)
LEMMA NodeFacts ==
    ASSUME StartInv, NEW p \in Procs
    PROVE  node[p] \in Node /\ Fit(node[p], tables, schema, version, env)
  BY DEF StartInv, StartTypeOK

\* Reading the configuration: what is refused ends the process.
LEMMA LoadConfigStep ==
    ASSUME StartInv, NEW p \in Procs, LoadConfig(p) PROVE StartInv'
<1>1. PICK l : l = IF Flags[p].config = 0 THEN LoadDefault ELSE LoadFrom(Flags[p].config)
  OBVIOUS
<1>2. l.config \in Config /\ (l.ok => Deployable(l.config))
  BY <1>1, Loaded
<1>3. PICK n \in Nat : n = node[p].starts + 1
  BY NodeFacts DEF Node
<1>4. UNCHANGED <<files, env, tables, schema, version>>
  BY DEF LoadConfig
<1>5. CASE l.ok /\ TlsResolves(l.config)
  <2>1. PICK r : r = [Down(n) EXCEPT !.stage = "engine", !.config = l.config, !.engines = 2]
    OBVIOUS
  <2>2. /\ r.stage = "engine" /\ r.config = l.config /\ r.engines = 2 /\ r.http = "none" /\ r.pg = "none"
        /\ r \in Node
    BY <1>2, <2>1 DEF Down, Node, Stages, Listener
  <2>3. Step(p, r)
    BY <1>1, <1>3, <1>5, <2>1 DEF LoadConfig
  <2>4. Fit(r, tables, schema, version, env)
    BY <1>2, <1>5, <2>2 DEF Fit, Migrating, Migrated, Listening
  <2> QED
    BY <1>4, <2>2, <2>3, <2>4, OneMoves DEF StartInv, StartTypeOK
<1>6. CASE ~(l.ok /\ TlsResolves(l.config))
  <2>1. Step(p, Down(n))
    BY <1>1, <1>3, <1>6 DEF LoadConfig
  <2> QED
    BY <1>4, <2>1, DownFits, OneMoves DEF StartInv, StartTypeOK
<1> QED
  BY <1>5, <1>6

\* Building the engine, and opening the catalog.
LEMMA EngineStep ==
    ASSUME StartInv, NEW p \in Procs, BuildEngine(p) \/ OpenCatalog(p) PROVE StartInv'
<1>1. PICK o \in Node : o = node[p] /\ Fit(o, tables, schema, version, env)
  BY NodeFacts
<1>2. CASE BuildEngine(p)
  <2>1. o.stage = "engine" /\ UNCHANGED <<files, env, tables, schema, version>>
    BY <1>1, <1>2 DEF BuildEngine
  <2>2. CASE Exit(p)
    BY <2>1, <2>2, ExitStep
  <2>3. CASE Step(p, [o EXCEPT !.stage = "open", !.column = 1])
    <3>1. PICK r : r = [o EXCEPT !.stage = "open", !.column = 1]
      OBVIOUS
    <3>2. r \in Node /\ r.stage = "open" /\ r.column = 1 /\ r.engines = o.engines /\ r.config = o.config
          /\ r.http = o.http /\ r.pg = o.pg
      BY <1>1, <3>1 DEF Node, Stages
    <3>3. Fit(r, tables, schema, version, env)
      BY <1>1, <2>1, <3>2 DEF Fit, Migrating, Migrated, Listening
    <3> QED
      BY <2>1, <2>3, <3>1, <3>2, <3>3, OneMoves DEF StartInv, StartTypeOK
  <2> QED
    BY <1>1, <1>2, <2>2, <2>3 DEF BuildEngine
<1>3. CASE OpenCatalog(p)
  <2>1. /\ o.stage = "open" /\ tables' = TRUE /\ UNCHANGED <<files, env, version>>
        /\ schema' = IF tables THEN schema ELSE AllColumns
        /\ Step(p, [o EXCEPT !.stage = "look"])
    BY <1>1, <1>3 DEF OpenCatalog
  <2>2. PICK r : r = [o EXCEPT !.stage = "look"]
    OBVIOUS
  <2>3. r \in Node /\ r.stage = "look" /\ r.engines = o.engines /\ r.config = o.config
        /\ r.http = o.http /\ r.pg = o.pg /\ r.column = o.column
    BY <1>1, <2>2 DEF Node, Stages
  <2>4. schema \subseteq AllColumns /\ schema \subseteq schema' /\ schema' \subseteq AllColumns
    BY <2>1 DEF StartInv, StartTypeOK
  <2>5. o.column = 1
    BY <1>1, <2>1 DEF Fit, Migrating
  <2>6. 1 \in DOMAIN Columns /\ 1 .. 1 - 1 = {}
    BY EmptySeq, LenProperties
  <2>7. Fit(r, tables', schema', version', env)
    BY <1>1, <2>1, <2>3, <2>4, <2>5, <2>6 DEF Fit, Migrating, Migrated, Listening
  <2> QED
    BY <2>1, <2>2, <2>3, <2>4, <2>7, OneMoves DEF StartInv, StartTypeOK
<1> QED
  BY <1>2, <1>3

\* One column of the migration: looked for, then added.
LEMMA ColumnStep ==
    ASSUME StartInv, NEW p \in Procs, LookForColumn(p) \/ AddColumn(p) PROVE StartInv'
<1>1. PICK o \in Node : o = node[p] /\ Fit(o, tables, schema, version, env)
  BY NodeFacts
<1>2. CASE LookForColumn(p)
  <2>1. o.stage = "look" /\ UNCHANGED <<files, env, tables, schema, version>>
    BY <1>1, <1>2 DEF LookForColumn
  <2>2. PICK seen \in BOOLEAN : seen = (Columns[o.column] \in schema)
    <3>1. (Columns[o.column] \in schema) \in BOOLEAN
      OBVIOUS
    <3> QED
      BY <3>1, Zenon
  <2>3. PICK r : r = [o EXCEPT !.stage = "alter", !.seen = seen]
    OBVIOUS
  <2>4. Step(p, r)
    BY <1>1, <1>2, <2>2, <2>3 DEF LookForColumn
  <2>5. r \in Node /\ r.stage = "alter" /\ r.seen = seen /\ r.engines = o.engines
        /\ r.config = o.config /\ r.http = o.http /\ r.pg = o.pg /\ r.column = o.column
    BY <1>1, <2>3 DEF Node, Stages
  <2>6. Fit(r, tables, schema, version, env)
    BY <1>1, <2>1, <2>2, <2>5 DEF Fit, Migrating, Migrated, Listening
  <2> QED
    BY <2>1, <2>4, <2>5, <2>6, OneMoves DEF StartInv, StartTypeOK
<1>3. CASE AddColumn(p)
  <2>1. o.stage = "alter" /\ UNCHANGED <<files, env, tables, version>>
    BY <1>1, <1>3 DEF AddColumn
  <2>2. PICK k \in Nat : k = Len(Columns) /\ DOMAIN Columns = 1 .. k
    BY LenProperties
  <2>3. /\ tables /\ o.column \in 1 .. k /\ \A i \in 1 .. o.column - 1 : Columns[i] \in schema
        /\ o.seen => Columns[o.column] \in schema
    BY <1>1, <2>1, <2>2 DEF Fit, Migrating
  <2>4. PICK st \in Stages, next \in Nat :
            st = (IF o.column = Len(Columns) THEN "version" ELSE "look") /\ next = o.column + 1
    BY <2>3 DEF Stages
  <2>5. PICK r : r = [o EXCEPT !.column = next, !.stage = st]
    OBVIOUS
  <2>6. r \in Node /\ r.stage = (IF o.column = k THEN "version" ELSE "look")
        /\ r.column = o.column + 1 /\ r.engines = o.engines /\ r.seen = o.seen
        /\ r.config = o.config /\ r.http = o.http /\ r.pg = o.pg
    BY <1>1, <2>2, <2>4, <2>5 DEF Node
  <2>7. CASE Exit(p) /\ UNCHANGED schema
    BY <2>1, <2>7, ExitStep
  <2>8. ASSUME Step(p, r), schema \subseteq schema', schema' \subseteq AllColumns,
               Columns[o.column] \in schema'
        PROVE  StartInv'
    <3>1. \A i \in 1 .. o.column : Columns[i] \in schema'
      <4>1. \A i \in 1 .. o.column : i \in 1 .. o.column - 1 \/ i = o.column
        BY <2>3
      <4> QED
        BY <2>3, <2>8, <4>1
    <3>2. o.column = k => AllColumns \subseteq schema'
      BY <2>2, <3>1 DEF AllColumns
    <3>3. o.column # k => r.column \in DOMAIN Columns
      BY <2>2, <2>3, <2>6
    <3>4. r.column - 1 = o.column
      BY <2>3, <2>6
    <3>5. Migrating(r, tables', schema')
      BY <2>1, <2>3, <2>6, <3>1, <3>2, <3>3, <3>4 DEF Migrating
    <3>6. Migrated(r, tables', schema', version') /\ Listening(r, env)
      BY <1>1, <2>1, <2>6, <2>8 DEF Fit, Migrated, Listening
    <3> QED
      BY <2>1, <2>6, <2>8, <3>5, <3>6, OneMoves DEF StartInv, StartTypeOK, Fit
  <2>9. Columns[o.column] \in AllColumns
    BY <2>2, <2>3 DEF AllColumns
  <2>10. \/ o.seen /\ Step(p, r) /\ UNCHANGED schema
         \/ Exit(p) /\ UNCHANGED schema
         \/ Step(p, r) /\ schema' = schema \cup {Columns[o.column]}
    <3>1. r = [o EXCEPT !.column = @ + 1,
                        !.stage = IF o.column = Len(Columns) THEN "version" ELSE "look"]
      BY <2>4, <2>5
    <3>2. \/ o.seen /\ Step(p, r) /\ UNCHANGED <<schema, holder>>
          \/ Exit(p) /\ UNCHANGED schema
          \/ Step(p, r) /\ schema' = schema \cup {Columns[o.column]} /\ UNCHANGED holder
      <4>1. o = node[p]
        BY <1>1
      <4>2. IF o.seen THEN Step(p, r) /\ UNCHANGED <<schema, holder>>
            ELSE IF Columns[o.column] \in schema THEN Exit(p) /\ UNCHANGED schema
            ELSE Step(p, r) /\ schema' = schema \cup {Columns[o.column]} /\ UNCHANGED holder
        BY <4>1, <1>3, <3>1 DEF AddColumn
      <4> QED
        BY <4>2
    <3> QED
      BY <3>2
  <2> QED
    BY <2>3, <2>7, <2>8, <2>9, <2>10 DEF StartInv, StartTypeOK
<1> QED
  BY <1>2, <1>3

\* Recording the version, the end of a migration.
LEMMA VersionStep ==
    ASSUME StartInv, NEW p \in Procs, RecordVersion(p) PROVE StartInv'
<1>1. PICK o \in Node : o = node[p] /\ Fit(o, tables, schema, version, env)
  BY NodeFacts
<1>2. PICK st \in Stages :
         st = IF o.engines > 1 THEN "engine"
              ELSE IF Flags[p].role = "worker" THEN "worker" ELSE "run"
  BY DEF Stages
<1>3. /\ o.stage = "version" /\ version' = TRUE /\ UNCHANGED <<files, env, tables, schema>>
      /\ Step(p, [o EXCEPT !.stage = st, !.engines = o.engines - 1])
  BY <1>1, <1>2 DEF RecordVersion
<1>4. tables /\ AllColumns \subseteq schema /\ o.engines \in {1, 2}
  BY <1>1, <1>3 DEF Fit, Migrating, Migrated
<1>5. PICK r : r = [o EXCEPT !.stage = st, !.engines = o.engines - 1]
  OBVIOUS
<1>6. o.engines - 1 \in Nat
  BY <1>4
<1>7. /\ r \in Node /\ r.stage = st /\ r.engines = o.engines - 1
      /\ r.config = o.config /\ r.http = o.http /\ r.pg = o.pg
  BY <1>5, <1>6 DEF Node
<1>8. \/ r.stage = "engine" /\ r.engines = 1
      \/ r.stage \in {"worker", "run"} /\ r.engines = 0
  <2>1. CASE o.engines = 1
    <3>1. r.engines = 0 /\ st \in {"worker", "run"}
      BY <1>2, <1>7, <2>1
    <3> QED
      BY <1>7, <3>1
  <2>2. CASE o.engines = 2
    <3>0. 2 > 1 /\ 2 - 1 = 1
      OBVIOUS
    <3>1. r.engines = 1 /\ st = "engine"
      BY <1>2, <1>7, <2>2, <3>0
    <3> QED
      BY <1>7, <3>1
  <2> QED
    BY <1>4, <2>1, <2>2
<1>9. Fit(r, tables', schema', version', env)
  BY <1>1, <1>3, <1>4, <1>7, <1>8 DEF Fit, Migrating, Migrated, Listening
<1> QED
  BY <1>3, <1>5, <1>7, <1>9, OneMoves DEF StartInv, StartTypeOK

(* A listener is spawned, binds or dies; the rest of its process stays.    *)
LEMMA ListenerStep ==
    ASSUME StartInv, NEW p \in Procs, NEW o \in Node, o = node[p],
           o.stage \in {"run", "spawned", "join"},
           NEW st \in {"spawned", "join"}, NEW h \in Listener, NEW g \in Listener,
           Step(p, [o EXCEPT !.stage = st, !.http = h, !.pg = g]),
           UNCHANGED <<files, env, tables, schema, version>>,
           MayBind(o.config), g # "none" => st = "join",
           {h, g} \cap {"plain", "tls"} \subseteq {Bound(o.config)}
    PROVE  StartInv'
<1>1. Fit(o, tables, schema, version, env)
  BY NodeFacts
<1>2. PICK r : r = [o EXCEPT !.stage = st, !.http = h, !.pg = g]
  OBVIOUS
<1>3. /\ r \in Node /\ r.stage = st /\ r.http = h /\ r.pg = g /\ r.engines = o.engines
      /\ r.config = o.config
  BY <1>2 DEF Node, Stages
<1>4. Fit(r, tables, schema, version, env)
  BY <1>1, <1>3 DEF Fit, Migrating, Migrated, Listening, MayBind
<1> QED
  BY <1>2, <1>3, <1>4, OneMoves DEF StartInv, StartTypeOK

\* Spawning the two listeners of a server.
LEMMA SpawnStep ==
    ASSUME StartInv, NEW p \in Procs, SpawnHttp(p) \/ SpawnPg(p) PROVE StartInv'
<1>1. PICK o \in Node : o = node[p] /\ Fit(o, tables, schema, version, env)
  BY NodeFacts
<1>2. CASE SpawnHttp(p)
  <2>1. o.stage = "run" /\ UNCHANGED <<files, env, tables, schema, version>>
    BY <1>1, <1>2 DEF SpawnHttp
  <2>2. CASE Exit(p)
    BY <2>1, <2>2, ExitStep
  <2>3. CASE MayBind(o.config) /\ Step(p, [o EXCEPT !.stage = "spawned", !.http = "starting"])
    <3>1. o.pg = "none"
      BY <1>1, <2>1 DEF Fit, Listening
    <3>2. [o EXCEPT !.stage = "spawned", !.http = "starting"]
             = [o EXCEPT !.stage = "spawned", !.http = "starting", !.pg = "none"]
      BY <1>1, <3>1 DEF Node
    <3>3. Step(p, [o EXCEPT !.stage = "spawned", !.http = "starting", !.pg = "none"])
      BY <2>3, <3>2
    <3>4. {"starting", "none"} \subseteq Listener /\ {"starting", "none"} \cap {"plain", "tls"} = {}
      BY DEF Listener
    <3> QED
      BY <1>1, <2>1, <2>3, <3>3, <3>4, ListenerStep
  <2> QED
    BY <1>1, <1>2, <2>2, <2>3 DEF SpawnHttp
<1>3. CASE SpawnPg(p)
  <2>1. o.stage = "spawned" /\ UNCHANGED <<files, env, tables, schema, version>>
    BY <1>1, <1>3 DEF SpawnPg
  <2>2. CASE Exit(p)
    BY <2>1, <2>2, ExitStep
  <2>3. PICK g \in {"starting", "none"} : g = IF Pgwire(p) THEN "starting" ELSE "none"
    OBVIOUS
  <2>4. CASE Step(p, [o EXCEPT !.stage = "join", !.pg = g])
    <3>1. [o EXCEPT !.stage = "join", !.pg = g]
             = [o EXCEPT !.stage = "join", !.http = o.http, !.pg = g]
      BY <1>1 DEF Node
    <3>2. Step(p, [o EXCEPT !.stage = "join", !.http = o.http, !.pg = g])
      BY <2>4, <3>1
    <3>3. g \in Listener /\ o.http \in Listener /\ MayBind(o.config)
      BY <1>1, <2>1, <2>3 DEF Listener, Node, Fit, Listening, MayBind
    <3>4. {o.http, g} \cap {"plain", "tls"} \subseteq {Bound(o.config)}
      BY <1>1, <2>3 DEF Fit, Listening
    <3> QED
      BY <1>1, <2>1, <3>2, <3>3, <3>4, ListenerStep
  <2> QED
    BY <1>1, <1>3, <2>2, <2>3, <2>4 DEF SpawnPg
<1> QED
  BY <1>2, <1>3

\* Binding an address, which may fail.
LEMMA BindStep ==
    ASSUME StartInv, NEW p \in Procs, BindHttp(p) \/ BindPg(p) PROVE StartInv'
<1>1. PICK o \in Node : o = node[p] /\ Fit(o, tables, schema, version, env)
  BY NodeFacts
<1>2. CASE BindHttp(p)
  <2>1. PICK h \in {"dead", Bound(o.config)} :
           /\ o.http = "starting" /\ UNCHANGED <<files, env, tables, schema, version>>
           /\ Step(p, [o EXCEPT !.http = h])
    BY <1>1, <1>2 DEF BindHttp
  <2>2. o.stage \in {"spawned", "join"} /\ MayBind(o.config)
    BY <1>1, <2>1 DEF Fit, Listening, MayBind
  <2>3. [o EXCEPT !.http = h] = [o EXCEPT !.stage = o.stage, !.http = h, !.pg = o.pg]
    BY <1>1 DEF Node
  <2>4. Step(p, [o EXCEPT !.stage = o.stage, !.http = h, !.pg = o.pg])
    BY <2>1, <2>3
  <2>5. /\ h \in Listener /\ o.pg \in Listener /\ (o.pg # "none" => o.stage = "join")
        /\ {h, o.pg} \cap {"plain", "tls"} \subseteq {Bound(o.config)}
    <3>1. h \in Listener /\ h \in {"dead", Bound(o.config)}
      BY DEF Listener, Bound
    <3>2. o.pg \in Listener
      BY <1>1 DEF Node
    <3>3. /\ o.pg # "none" => o.stage = "join"
          /\ {o.http, o.pg} \cap {"plain", "tls"} \subseteq {Bound(o.config)}
      BY <1>1 DEF Fit, Listening
    <3> QED
      BY <3>1, <3>2, <3>3
  <2>6. PICK st \in {"spawned", "join"}, g \in Listener : st = o.stage /\ g = o.pg
    BY <2>2, <2>5
  <2>7. /\ Step(p, [o EXCEPT !.stage = st, !.http = h, !.pg = g])
        /\ g # "none" => st = "join"
        /\ {h, g} \cap {"plain", "tls"} \subseteq {Bound(o.config)}
    BY <2>4, <2>5, <2>6
  <2>8. o.stage \in {"run", "spawned", "join"} /\ h \in Listener
    BY <2>2, <2>5
  <2> QED
    BY <1>1, <2>1, <2>2, <2>6, <2>7, <2>8, ListenerStep
<1>3. CASE BindPg(p)
  <2>1. PICK g \in {"dead", Bound(o.config)} :
           /\ o.pg = "starting" /\ UNCHANGED <<files, env, tables, schema, version>>
           /\ Step(p, [o EXCEPT !.pg = g])
    BY <1>1, <1>3 DEF BindPg
  <2>2. o.stage = "join" /\ MayBind(o.config)
    BY <1>1, <2>1 DEF Fit, Listening, MayBind
  <2>3. [o EXCEPT !.pg = g] = [o EXCEPT !.stage = o.stage, !.http = o.http, !.pg = g]
    BY <1>1 DEF Node
  <2>4. Step(p, [o EXCEPT !.stage = o.stage, !.http = o.http, !.pg = g])
    BY <2>1, <2>3
  <2>5. /\ g \in Listener /\ o.http \in Listener
        /\ {o.http, g} \cap {"plain", "tls"} \subseteq {Bound(o.config)}
    BY <1>1 DEF Listener, Node, Bound, Fit, Listening
  <2> QED
    BY <1>1, <2>1, <2>2, <2>4, <2>5, ListenerStep
<1> QED
  BY <1>2, <1>3

\* Every step preserves the invariant.
LEMMA StartNextStep == StartInv /\ [StartNext]_startVars => StartInv'
<1> SUFFICES ASSUME StartInv, [StartNext]_startVars PROVE StartInv'
  OBVIOUS
<1>1. CASE UNCHANGED startVars
  BY <1>1 DEF startVars, StartInv, StartTypeOK, Fit, Migrating, Migrated, Listening
<1>2. ASSUME NEW p \in Procs, LoadConfig(p) PROVE StartInv'
  BY <1>2, LoadConfigStep
<1>3. ASSUME NEW p \in Procs, StartStep(p) PROVE StartInv'
  <2>1. CASE Join(p)
    BY <2>1, ExitStep DEF Join
  <2> QED
    BY <1>3, <2>1, EngineStep, ColumnStep, VersionStep, SpawnStep, BindStep DEF StartStep
<1>4. ASSUME NEW p \in Procs, Kill(p) PROVE StartInv'
  BY <1>4, ExitStep DEF Kill
<1> QED
  BY <1>1, <1>2, <1>3, <1>4 DEF StartNext

(* Whatever files, environments, flags and rivals the processes start with,*)
(* in any number: a server that accepts connections has all its columns,   *)
(* speaks the transport that was asked for, has authentication or consent  *)
(* where others can reach it, and holds no credentials of its own when it  *)
(* is an enterprise deployment (OpenSnowServer::run, Catalog::migrate).    *)
THEOREM ServersReady == StartSpec => []ServesOnlyReady
BY StartInitInv, StartNextStep, StartInvHolds, PTL DEF StartSpec

-------------------------------------------------------------------------------
\* The controllers of the warehouses: what they ask kubectl for is a count, and
\* what has settled stays.

Rowed == [state : {"RUNNING", "SUSPENDED"}, min : Int, max : Int]
Counts == NoSet .. (Half - 1)

\* What a controller has read: a row of some warehouses and a count for each.
Read(V) == UNION {[S -> V] : S \in SUBSET Houses}
Working == [at : {"asleep", "observe", "scale"}, specs : Read(Rowed), seen : Read(Int),
            todo : SUBSET Houses]
AtWork(r) == r \in Working /\ r.todo \subseteq DOMAIN r.specs

ReconcilerInv ==
    /\ house \in [Houses -> Rowed \cup {NoHouse}]
    /\ replicas \in [Houses -> Counts]
    /\ DOMAIN ctl = Controllers /\ ctl = [c \in Controllers |-> ctl[c]]
    /\ \A c \in Controllers : AtWork(ctl[c])

\* Statements, failures and runs of the command are counted.
Counted == commands \in Nat /\ misses \in Nat /\ applies \in Nat

\* The replicas a row asks for are a count, by either conversion.
LEMMA DesiredFits ==
    ASSUME NEW c, NEW row \in Rowed
    PROVE  Desired(AsReplicas(c, row.min), AsReplicas(c, row.max), row.state) \in 0 .. (Half - 1)
<1> USE ReconcilerAssumption
<1>1. ASSUME NEW n \in Int PROVE AsReplicas(c, n) \in Int /\ AsReplicas(c, n) <= Half - 1
  <2>1. 2 * Half \in Nat /\ 2 * Half > 0 /\ n + Half \in Int
    OBVIOUS
  <2>2. ((n + Half) % (2 * Half)) \in 0 .. (2 * Half - 1)
    <3>1. \A x \in Int, m \in Nat : m > 0 => (x % m) \in 0 .. (m - 1)
      OBVIOUS
    <3> QED
      BY <2>1, <3>1
  <2> QED
    BY <2>2 DEF AsReplicas
<1>2. row.min \in Int /\ row.max \in Int
  BY DEF Rowed
<1>3. PICK a \in Int, b \in Int : /\ a = AsReplicas(c, row.min) /\ a <= Half - 1
                                  /\ b = AsReplicas(c, row.max) /\ b <= Half - 1
  BY <1>1, <1>2
<1> QED
  BY <1>3 DEF Desired, Greater

\* What a controller wants is what the row it read asks for.
LEMMA WantedFits ==
    ASSUME ReconcilerInv, NEW c \in Controllers, NEW h \in ctl[c].todo
    PROVE  Wanted(c, h) \in 0 .. (Half - 1)
<1>1. AtWork(ctl[c]) /\ h \in DOMAIN ctl[c].specs
  BY DEF ReconcilerInv, AtWork
<1>2. PICK S \in SUBSET Houses : ctl[c].specs \in [S -> Rowed]
  BY <1>1 DEF AtWork, Working, Read
<1>3. ctl[c].specs[h] \in Rowed
  BY <1>1, <1>2
<1> QED
  BY <1>3, DesiredFits DEF Wanted

\* A controller that sleeps has nothing to do.
LEMMA AsleepAtWork == AtWork(Asleep)
<1>1. <<>> \in [{} -> Rowed] /\ <<>> \in [{} -> Int] /\ {} \in SUBSET Houses
  OBVIOUS
<1>2. <<>> \in Read(Rowed) /\ <<>> \in Read(Int)
  BY <1>1 DEF Read
<1> QED
  BY <1>2 DEF AtWork, Working, Asleep

\* Every controller sleeps at first.
LEMMA ReconcilerStart ==
    ASSUME ReconcilerInit PROVE ReconcilerInv
<1>1. AtWork(Asleep)
  BY AsleepAtWork
<1> QED
  BY <1>1, ReconcilerAssumption DEF ReconcilerInit, ReconcilerInv, NoSet, Counts

\* A step of one controller, which leaves rows and the other controller alone.
LEMMA OneController ==
    ASSUME ReconcilerInv, UNCHANGED house, replicas' \in [Houses -> Counts],
           NEW c \in Controllers, NEW r, ctl' = [ctl EXCEPT ![c] = r], AtWork(r)
    PROVE  ReconcilerInv'
<1>1. ctl' = [d \in Controllers |-> IF d = c THEN r ELSE ctl[d]]
  BY DEF ReconcilerInv
<1>2. \A d \in Controllers : AtWork(ctl'[d])
  BY <1>1 DEF ReconcilerInv
<1>3. ctl' = [d \in Controllers |-> ctl'[d]]
  BY <1>1
<1>4. \A d \in Controllers : AtWork(ctl[d])'
  BY <1>2 DEF AtWork
<1> QED
  BY <1>3, <1>4 DEF ReconcilerInv

\* A controller may have read nothing.
LEMMA NothingRead == [x \in {} |-> 0] \in Read(Int)
<1>1. {} \in SUBSET Houses /\ [x \in {} |-> 0] \in [{} -> Int]
  OBVIOUS
<1> QED
  BY ONLY <1>1 DEF Read

\* A controller that has begun goes on with the rows it has.
LEMMA Updated ==
    ASSUME NEW r, AtWork(r), NEW todo \in SUBSET DOMAIN r.specs, NEW seen \in Read(Int)
    PROVE  /\ AtWork([r EXCEPT !.todo = todo])
           /\ AtWork([r EXCEPT !.at = "scale", !.todo = todo])
           /\ AtWork([r EXCEPT !.todo = todo, !.seen = seen])
<1> DEFINE At == {"asleep", "observe", "scale"}
           Specs == Read(Rowed)
           Seen == Read(Int)
           Todo == SUBSET Houses
<1>1. r \in [at : At, specs : Specs, seen : Seen, todo : Todo]
  BY DEF AtWork, Working
<1>2. todo \in Todo /\ seen \in Seen /\ "scale" \in At
  BY DEF AtWork, Working, Read
<1> HIDE DEF At, Specs, Seen, Todo
<1>3. /\ [r EXCEPT !.todo = todo] \in [at : At, specs : Specs, seen : Seen, todo : Todo]
      /\ [r EXCEPT !.todo = todo].specs = r.specs /\ [r EXCEPT !.todo = todo].todo = todo
  BY ONLY <1>1, <1>2
<1>4. /\ [r EXCEPT !.at = "scale", !.todo = todo]
            \in [at : At, specs : Specs, seen : Seen, todo : Todo]
      /\ [r EXCEPT !.at = "scale", !.todo = todo].specs = r.specs
      /\ [r EXCEPT !.at = "scale", !.todo = todo].todo = todo
  BY ONLY <1>1, <1>2
<1>5. /\ [r EXCEPT !.todo = todo, !.seen = seen]
            \in [at : At, specs : Specs, seen : Seen, todo : Todo]
      /\ [r EXCEPT !.todo = todo, !.seen = seen].specs = r.specs
      /\ [r EXCEPT !.todo = todo, !.seen = seen].todo = todo
  BY ONLY <1>1, <1>2
<1>6. Working = [at : At, specs : Specs, seen : Seen, todo : Todo]
  BY DEF Working, At, Specs, Seen, Todo
<1> QED
  BY <1>3, <1>4, <1>5, <1>6 DEF AtWork

\* What looking at a warehouse makes of a controller's record.
LEMMA Observed ==
    ASSUME ReconcilerInv, NEW c \in Controllers, NEW h \in Houses, Observe(c, h)
    PROVE  /\ UNCHANGED replicas
           /\ LET todo == ctl[c].todo \ {h}
                  seen == [ctl[c].seen EXCEPT ![h] = Greater(replicas[h], 0)]
              IN  \/ ctl' = [ctl EXCEPT ![c] = [ctl[c] EXCEPT !.todo = todo, !.seen = seen]]
                  \/ ctl' = [ctl EXCEPT ![c] = [ctl[c] EXCEPT !.todo = todo]]
<1>1. AtWork(ctl[c]) /\ replicas \in [Houses -> Counts] /\ ctl = [d \in Controllers |-> ctl[d]]
  BY DEF ReconcilerInv
<1> QED
  BY <1>1 DEF Observe

\* Each step of a cycle keeps it.
LEMMA CycleStep ==
    ASSUME ReconcilerInv, NEW c \in Controllers, Cycle(c)
    PROVE  ReconcilerInv'
<1> DEFINE r == ctl[c]
<1>1. /\ AtWork(r) /\ replicas \in [Houses -> Counts] /\ UNCHANGED house
      /\ ctl = [d \in Controllers |-> ctl[d]]
  BY DEF ReconcilerInv, Cycle, List, Plan, Sleep, Observe, Scale
<1>2. CASE List(c)
  <2> DEFINE n == [at |-> "observe", specs |-> [h \in Listed |-> house[h]],
                   seen |-> [h \in Listed |-> 0], todo |-> Listed]
  <2>1. AtWork(n)
    <3>1. Listed \subseteq Houses /\ \A h \in Listed : house[h] \in Rowed
      BY DEF Listed, ReconcilerInv
    <3>2. [h \in Listed |-> house[h]] \in Read(Rowed) /\ [h \in Listed |-> 0] \in Read(Int)
      BY <3>1 DEF Read
    <3> QED
      BY <3>1, <3>2 DEF AtWork, Working
  <2>2. UNCHANGED replicas /\ ctl' = [ctl EXCEPT ![c] = n]
    BY <1>2 DEF List
  <2> HIDE DEF n
  <2> QED
    BY <1>1, <2>1, <2>2, OneController
<1>3. CASE Plan(c)
  <2> DEFINE todo == {h \in DOMAIN r.specs : r.seen[h] # Wanted(c, h)}
             n == [r EXCEPT !.at = "scale", !.todo = todo]
  <2>1. ctl' = [ctl EXCEPT ![c] = n] /\ UNCHANGED replicas
    BY <1>1, <1>3 DEF Plan
  <2>2. todo \in SUBSET DOMAIN r.specs
    OBVIOUS
  <2> HIDE DEF todo
  <2>3. [x \in {} |-> 0] \in Read(Int)
    BY NothingRead
  <2>4. AtWork(n)
    BY <1>1, <2>2, <2>3, Updated
  <2> HIDE DEF n
  <2> QED
    BY <1>1, <2>1, <2>4, OneController
<1>4. CASE Sleep(c)
  <2>1. AtWork(Asleep)
    BY AsleepAtWork
  <2> QED
    BY <1>1, <1>4, <2>1, OneController DEF Sleep
<1>5. ASSUME NEW h \in Houses, Observe(c, h) PROVE ReconcilerInv'
  <2> DEFINE todo == r.todo \ {h}
             seen == [r.seen EXCEPT ![h] = Greater(replicas[h], 0)]
             n == [r EXCEPT !.todo = todo]
             m == [r EXCEPT !.todo = todo, !.seen = seen]
  <2>1. UNCHANGED replicas /\ (ctl' = [ctl EXCEPT ![c] = m] \/ ctl' = [ctl EXCEPT ![c] = n])
    BY <1>5, Observed
  <2>2. todo \in SUBSET DOMAIN r.specs
    BY <1>1 DEF AtWork
  <2>3. seen \in Read(Int)
    <3>1. PICK S \in SUBSET Houses : r.seen \in [S -> Int]
      BY <1>1 DEF AtWork, Working, Read
    <3>2. Greater(replicas[h], 0) \in Int
      BY <1>1, ReconcilerAssumption DEF Greater, Counts, NoSet
    <3>3. seen \in [S -> Int]
      BY <3>1, <3>2
    <3> QED
      BY <3>3 DEF Read
  <2> HIDE DEF todo, seen
  <2>4. AtWork(n) /\ AtWork(m)
    BY <1>1, <2>2, <2>3, Updated
  <2> HIDE DEF n, m
  <2> QED
    BY <1>1, <2>1, <2>4, OneController
<1>6. ASSUME NEW h \in Houses, Scale(c, h) PROVE ReconcilerInv'
  <2> DEFINE todo == r.todo \ {h}
             n == [r EXCEPT !.todo = todo]
  <2>1. h \in r.todo /\ ctl' = [ctl EXCEPT ![c] = n]
    BY <1>1, <1>6 DEF Scale
  <2>2. todo \in SUBSET DOMAIN r.specs
    BY <1>1 DEF AtWork
  <2> HIDE DEF todo
  <2>3. [x \in {} |-> 0] \in Read(Int)
    BY NothingRead
  <2>4. AtWork(n)
    BY <1>1, <2>2, <2>3, Updated
  <2>5. Wanted(c, h) \in Counts
    BY <2>1, WantedFits, ReconcilerAssumption DEF Counts, NoSet
  <2>6. replicas' \in [Houses -> Counts]
    BY <1>1, <1>6, <2>5 DEF Scale
  <2> HIDE DEF n
  <2> QED
    BY <1>1, <2>1, <2>4, <2>6, OneController
<1> QED
  BY <1>2, <1>3, <1>4, <1>5, <1>6 DEF Cycle

\* The statements change rows, and somebody may add a StatefulSet.
LEMMA ReconcilerStep ==
    ASSUME ReconcilerInv, [ReconcilerNext]_reconcilerVars
    PROVE  ReconcilerInv'
<1>1. ASSUME NEW h \in Houses, NEW size \in Sizes, CreateHouse(h, size) PROVE ReconcilerInv'
  <2>1. house' \in [Houses -> Rowed \cup {NoHouse}]
    BY <1>1, ReconcilerAssumption DEF CreateHouse, ReconcilerInv, Rowed
  <2> QED
    BY <1>1, <2>1 DEF CreateHouse, ReconcilerInv
<1>2. ASSUME NEW h \in Houses, NEW state \in {"RUNNING", "SUSPENDED"}, AlterHouse(h, state)
      PROVE  ReconcilerInv'
  <2>1. house[h] \in Rowed
    BY <1>2 DEF AlterHouse, ReconcilerInv
  <2>2. [house[h] EXCEPT !.state = state] \in Rowed
    BY <2>1 DEF Rowed
  <2>3. house' \in [Houses -> Rowed \cup {NoHouse}]
    BY <1>2, <2>2 DEF AlterHouse, ReconcilerInv
  <2> QED
    BY <1>2, <2>3 DEF AlterHouse, ReconcilerInv
<1>3. ASSUME NEW h \in Houses, CreateSet(h) PROVE ReconcilerInv'
  BY <1>3, ReconcilerAssumption DEF CreateSet, ReconcilerInv, Counts, NoSet
<1>4. ASSUME NEW c \in Controllers, ListFails(c) PROVE ReconcilerInv'
  BY <1>4 DEF ListFails, ReconcilerInv
<1>5. CASE UNCHANGED reconcilerVars
  BY <1>5 DEF reconcilerVars, ReconcilerInv
<1> QED
  BY <1>1, <1>2, <1>3, <1>4, <1>5, CycleStep DEF ReconcilerNext

\* Controllers, rows and counts are sound in every reachable state.
LEMMA ReconcilerAlways == ReconcilerSpec => []ReconcilerInv
  BY ReconcilerStart, ReconcilerStep, PTL DEF ReconcilerSpec

\* Nothing but its own step changes a count.
LEMMA CountedAlways == ReconcilerSpec => []Counted
<1>1. ReconcilerInit => Counted
  BY DEF ReconcilerInit, Counted
<1>2. Counted /\ [ReconcilerNext]_reconcilerVars => Counted'
  <2> SUFFICES ASSUME Counted, [ReconcilerNext]_reconcilerVars PROVE Counted'
    OBVIOUS
  <2>1. \A h \in Houses, size \in Sizes : CreateHouse(h, size) => Counted'
    BY DEF CreateHouse, Counted
  <2>2. \A h \in Houses, state \in {"RUNNING", "SUSPENDED"} : AlterHouse(h, state) => Counted'
    BY DEF AlterHouse, Counted
  <2>3. \A h \in Houses : CreateSet(h) => Counted'
    BY DEF CreateSet, Counted
  <2>4. \A c \in Controllers : ListFails(c) => Counted'
    BY DEF ListFails, Miss, Counted
  <2>5. \A c \in Controllers : List(c) => Counted'
    BY DEF List, Counted
  <2>6. \A c \in Controllers, h \in Houses : Observe(c, h) => Counted'
    BY DEF Observe, Miss, Counted
  <2>7. \A c \in Controllers, h \in Houses : Scale(c, h) => Counted'
    BY DEF Scale, Miss, Counted
  <2>8. \A c \in Controllers : Plan(c) \/ Sleep(c) => Counted'
    BY DEF Plan, Sleep, Counted
  <2>9. UNCHANGED reconcilerVars => Counted'
    BY DEF reconcilerVars, Counted
  <2> QED
    BY <2>1, <2>2, <2>3, <2>4, <2>5, <2>6, <2>7, <2>8, <2>9 DEF ReconcilerNext, Cycle
<1> QED
  BY <1>1, <1>2, PTL DEF ReconcilerSpec

\* Going on with a cycle leaves the rows it has read, and the other controller.
LEMMA SpecsKept ==
    ASSUME ReconcilerInv, NEW c \in Controllers,
           Plan(c) \/ \E h \in Houses : Observe(c, h) \/ Scale(c, h)
    PROVE  /\ ctl'[c].specs = ctl[c].specs /\ ctl[c] # Asleep
           /\ \A d \in Controllers \ {c} : ctl'[d] = ctl[d]
<1> DEFINE r == ctl[c]
<1>1. /\ AtWork(r) /\ replicas \in [Houses -> Counts]
      /\ ctl = [d \in Controllers |-> ctl[d]]
  BY DEF ReconcilerInv
<1>2. PICK n : ctl' = [ctl EXCEPT ![c] = n] /\ n.specs = r.specs
  <2> DEFINE At == {"asleep", "observe", "scale"}
             Specs == Read(Rowed)
             Seen == Read(Int)
             Todo == SUBSET Houses
  <2>1. r \in [at : At, specs : Specs, seen : Seen, todo : Todo]
    BY <1>1 DEF AtWork, Working
  <2> HIDE DEF At, Specs, Seen, Todo
  <2>2. \A x, y : /\ [r EXCEPT !.todo = x].specs = r.specs
                  /\ [r EXCEPT !.at = "scale", !.todo = x].specs = r.specs
                  /\ [r EXCEPT !.todo = x, !.seen = y].specs = r.specs
    BY ONLY <2>1
  <2>3. CASE Plan(c)
    <3> DEFINE todo == {h \in DOMAIN r.specs : r.seen[h] # Wanted(c, h)}
               n == [r EXCEPT !.at = "scale", !.todo = todo]
    <3>1. ctl' = [ctl EXCEPT ![c] = n]
      BY <1>1, <2>3 DEF Plan
    <3> HIDE DEF todo
    <3>2. n.specs = r.specs
      BY <2>2
    <3> HIDE DEF n
    <3> QED
      BY <3>1, <3>2
  <2>4. ASSUME NEW h \in Houses, Observe(c, h) \/ Scale(c, h)
        PROVE  \E n : ctl' = [ctl EXCEPT ![c] = n] /\ n.specs = r.specs
    <3> DEFINE todo == r.todo \ {h}
               seen == [r.seen EXCEPT ![h] = Greater(replicas[h], 0)]
               n == [r EXCEPT !.todo = todo]
               m == [r EXCEPT !.todo = todo, !.seen = seen]
    <3>1. ctl' = [ctl EXCEPT ![c] = m] \/ ctl' = [ctl EXCEPT ![c] = n]
      <4>1. CASE Observe(c, h)
        BY <4>1, Observed
      <4>2. CASE Scale(c, h)
        BY <1>1, <4>2 DEF Scale
      <4> QED
        BY <2>4, <4>1, <4>2
    <3> HIDE DEF todo, seen
    <3>2. n.specs = r.specs /\ m.specs = r.specs
      BY <2>2
    <3> HIDE DEF n, m
    <3> QED
      BY <3>1, <3>2
  <2> QED
    BY <2>3, <2>4
<1>3. ctl[c].at # "asleep" /\ Asleep.at = "asleep"
  BY DEF Plan, Observe, Scale, Asleep
<1> QED
  BY <1>1, <1>2, <1>3

\* A warehouse whose StatefulSet has what its row asks for, for a loop that has
\* read that row, is given what it has.
LEMMA ScalesNothing ==
    ASSUME ReconcilerInv, Settled, ~Disturbed, Cycle("loop")
    PROVE  replicas' = replicas
<1>1. ASSUME NEW h \in Houses, Scale("loop", h) PROVE replicas' = replicas
  <2>1. AtWork(ctl["loop"]) /\ h \in ctl["loop"].todo /\ ctl["loop"] # Asleep
    BY <1>1 DEF ReconcilerInv, Scale, Asleep, Controllers
  <2>2. h \in DOMAIN ctl["loop"].specs /\ ctl["loop"].specs[h] = house[h]
    BY <2>1 DEF Settled, AtWork
  <2>3. PICK S \in SUBSET Houses : ctl["loop"].specs \in [S -> Rowed]
    BY <2>1 DEF AtWork, Working, Read
  <2>4. house[h] \in Rowed /\ NoHouse \notin Rowed
    BY <2>2, <2>3 DEF Rowed, NoHouse
  <2>5. h \in Listed /\ Wanted("loop", h) = Target(h)
    BY <2>2, <2>4 DEF Listed, Wanted, Target
  <2>6. replicas[h] \in {NoSet, Target(h)}
    BY <2>5 DEF Settled
  <2>7. replicas \in [Houses -> Counts]
    BY DEF ReconcilerInv
  <2>8. CASE replicas[h] # NoSet /\ replicas' = [replicas EXCEPT ![h] = Wanted("loop", h)]
    BY <2>5, <2>6, <2>7, <2>8
  <2> QED
    BY <1>1, <2>8 DEF Scale
<1> QED
  BY <1>1 DEF Cycle, List, Plan, Sleep, Observe

\* And what it has read it keeps, or reads again.
LEMMA CycleSettled ==
    ASSUME ReconcilerInv, Settled, ~Disturbed, Cycle("loop")
    PROVE  Settled' /\ replicas' = replicas
<1>1. UNCHANGED <<replicas, house>> /\ "loop" \in Controllers /\ "apply" \in Controllers \ {"loop"}
  BY ScalesNothing DEF Cycle, List, Plan, Sleep, Observe, Scale, Controllers
<1>2. ctl = [d \in Controllers |-> ctl[d]]
  BY DEF ReconcilerInv
<1>3. /\ ctl'["apply"] = Asleep
      /\ ctl'["loop"] # Asleep =>
           \A h \in DOMAIN ctl'["loop"].specs : ctl'["loop"].specs[h] = house[h]
  <2>1. CASE Plan("loop") \/ \E h \in Houses : Observe("loop", h) \/ Scale("loop", h)
    BY <1>1, <2>1, SpecsKept DEF Settled
  <2>2. CASE Sleep("loop")
    BY <1>1, <1>2, <2>2 DEF Settled, Sleep
  <2>3. CASE List("loop")
    <3> DEFINE rows == [h \in Listed |-> house[h]]
               zeros == [h \in Listed |-> 0]
               n == [at |-> "observe", specs |-> rows, seen |-> zeros, todo |-> Listed]
    <3>2. ctl' = [ctl EXCEPT !["loop"] = n]
      BY <2>3 DEF List
    <3>3. \A h \in DOMAIN rows : rows[h] = house[h]
      OBVIOUS
    <3> HIDE DEF rows, zeros
    <3>4. n.specs = rows
      OBVIOUS
    <3> HIDE DEF n
    <3>5. ctl'["apply"] = ctl["apply"] /\ ctl'["loop"] = n
      BY <1>1, <1>2, <3>2
    <3> QED
      BY <3>3, <3>4, <3>5 DEF Settled
  <2> QED
    BY <2>1, <2>2, <2>3 DEF Cycle
<1>4. Listed' = Listed /\ \A h \in Listed : Target(h)' = Target(h) /\ replicas'[h] = replicas[h]
  BY <1>1 DEF Listed, Target
<1> QED
  BY <1>1, <1>3, <1>4 DEF Settled

\* Every other step is a statement, a failure, a new StatefulSet or a run of the
\* command, or it changes nothing.
LEMMA SettledStep ==
    ASSUME ReconcilerInv, Counted, Settled, ~Disturbed, [ReconcilerNext]_reconcilerVars
    PROVE  Settled' /\ replicas' = replicas
<1> USE DEF Counted
<1>1. ASSUME NEW h \in Houses, NEW size \in Sizes, CreateHouse(h, size) PROVE FALSE
  BY <1>1 DEF CreateHouse, Disturbed
<1>2. ASSUME NEW h \in Houses, NEW state, AlterHouse(h, state) PROVE FALSE
  BY <1>2 DEF AlterHouse, Disturbed
<1>3. ASSUME NEW h \in Houses, CreateSet(h) PROVE FALSE
  <2>1. replicas'[h] = 1 /\ replicas[h] = NoSet
    BY <1>3 DEF CreateSet, ReconcilerInv
  <2>2. NoSet # 1
    BY DEF NoSet
  <2> QED
    BY <2>1, <2>2 DEF Disturbed
<1>4. ASSUME NEW c \in Controllers, ListFails(c) PROVE FALSE
  BY <1>4 DEF ListFails, Miss, Disturbed
<1>5. ASSUME Cycle("apply") PROVE FALSE
  <2>1. ctl["apply"] = Asleep /\ Asleep.at = "asleep"
    BY DEF Settled, Asleep
  <2>2. ~ \E h \in Houses : Observe("apply", h) \/ Scale("apply", h)
    BY <2>1 DEF Observe, Scale
  <2>3. ~ Plan("apply") /\ ~ Sleep("apply")
    BY <2>1 DEF Plan, Sleep
  <2>4. ~ List("apply")
    BY DEF List, Disturbed
  <2> QED
    BY <1>5, <2>2, <2>3, <2>4 DEF Cycle
<1>6. CASE UNCHANGED reconcilerVars
  BY <1>6 DEF reconcilerVars, Settled, Listed, Target
<1> QED
  BY <1>1, <1>2, <1>3, <1>4, <1>5, <1>6, CycleSettled DEF ReconcilerNext, Controllers

(* Whatever the rows of the warehouses hold, and however the two kinds of  *)
(* controller interleave with statements and failures, kubectl is asked    *)
(* for a count that an i32 holds and that is not below zero                *)
(* (desired_replicas, `as i32`).                                           *)
THEOREM CountsAreCounts == ReconcilerSpec => []CountsFit
<1>1. ReconcilerInv => CountsFit
  BY DEF ReconcilerInv, CountsFit, Counts
<1> QED
  BY <1>1, ReconcilerAlways, PTL

(* The safety half of Converges: once every StatefulSet has what its row   *)
(* asks for and the loop works from current rows, nothing is scaled and    *)
(* nothing becomes stale, whatever kubectl reported earlier in the cycle   *)
(* (build_reconcile_plan, apply_plan).                                     *)
THEOREM SettledStays == ReconcilerSpec => StaysSettled
<1>1. ReconcilerInv /\ Counted /\ [ReconcilerNext]_reconcilerVars
        => [Settled /\ ~Disturbed => Settled' /\ replicas' = replicas]_reconcilerVars
  BY SettledStep
<1> QED
  BY <1>1, ReconcilerAlways, CountedAlways, PTL DEF ReconcilerSpec, StaysSettled
===============================================================================
