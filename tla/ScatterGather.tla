---------------------------- MODULE ScatterGather ----------------------------
(***************************************************************************)
(* Distributed queries (Coordinator::execute_query, DistributedExecutor)   *)
(* over the workers Membership offers.  A query takes those offered when   *)
(* it starts, sends one fragment to each, runs them concurrently and       *)
(* merges the results in fragment order; the first error ends it.          *)
(*                                                                         *)
(* An executor runs its fragment on an engine: a LocalWorkerExecutor on    *)
(* the coordinator's, a RemoteWorkerExecutor on the worker's.  An engine   *)
(* is an EngineHandle: commands wait in a channel and run one at a time,   *)
(* whether or not somebody still waits for the answer.                     *)
(***************************************************************************)
EXTENDS Membership, Integers, Sequences, FiniteSets

CONSTANTS
    Coord,         \* the coordinator's engine
    Query,
    Remote,        \* [Query -> the workers a RemoteWorkerExecutor reaches]
    Strategy,      \* [Query -> PartitionStrategy]
    RowsAt,        \* [Query -> [engine -> the rows its SQL yields there]]
    HashOf,        \* HASH of the row's partition column (external)
    Capacity,      \* of an engine's channel (64)
    MaxErrors,     \* bound: fragments that end with an error of their own
    MaxRestarts    \* bound: restarts of the coordinator

Engine == Worker \cup {Coord}
Rows == UNION {RowsAt[q][e] : q \in Query, e \in Engine}

ASSUME ScatterAssumption ==
    /\ IsFiniteSet(Worker) /\ Ungated \subseteq Worker /\ Coord \notin Worker
    /\ Remote \in [Query -> SUBSET Worker]
    /\ Strategy \in [Query -> {"replicate", "hash"}]
    /\ \A q \in Query : DOMAIN RowsAt[q] = Engine
    /\ \A r \in Rows : HashOf[r] \in Int
    /\ Capacity \in Nat \ {0} /\ {MaxErrors, MaxRestarts} \subseteq Nat

VARIABLES
    query,     \* where the future of execute_query is
    plan,      \* its executors in fragment order: workers, or Coord alone
    frag,      \* what each fragment's future has come to
    channel,   \* EngineHandle: fragments an engine has yet to run
    answer,    \* [Query -> how often each row is in the merged result]
    errors, restarts,
    ran       \* history: how often each fragment was run

fragVars  == <<plan, frag, channel, ran>>
queryVars == <<query, fragVars, answer, errors>>
vars == <<membership, queryVars, restarts>>

FragState == {"unsent", "queued", "ok", "err"}

TypeOK ==
    /\ fit \subseteq Worker /\ alive \subseteq Worker /\ offered \subseteq Worker
    /\ standing \in [Worker -> Standing]
    /\ query \in [Query -> {"idle", "waiting", "ok", "err", "gone"}]
    /\ plan \in [Query -> Seq(Engine)]
    /\ frag \in [Query -> Seq(FragState)]
    /\ channel \in [Engine -> Seq([query : Query, part : Nat])]
    /\ answer \in [Query -> [Rows -> Nat]]
    /\ {errors, restarts} \subseteq Nat
    /\ ran \in [Query -> Seq(Nat)]

Init ==
    /\ MembershipInit
    /\ query = [q \in Query |-> "idle"]
    /\ plan = [q \in Query |-> <<>>]
    /\ frag = [q \in Query |-> <<>>]
    /\ channel = [e \in Engine |-> <<>>]
    /\ answer = [q \in Query |-> [r \in Rows |-> 0]]
    /\ errors = 0 /\ restarts = 0
    /\ ran = [q \in Query |-> <<>>]


\* The engine on which fragment i runs.
EngineOf(q, i) == IF plan[q][i] \in Remote[q] THEN plan[q][i] ELSE Coord
Reachable(e) == e = Coord \/ e \in alive
Parts(q) == 1..Len(plan[q])

-----------------------------------------------------------------------------
(* The query. *)

\* Any order: the pool is a hash map and every heartbeat reports 0 tasks.
Orders(W) == {s \in [1..Cardinality(W) -> W] :
                 \A i, j \in DOMAIN s : s[i] = s[j] => i = j}

Start(q) ==
    /\ query[q] = "idle"
    /\ \E s \in IF offered = {} THEN {<<Coord>>} ELSE Orders(offered) :
         /\ plan' = [plan EXCEPT ![q] = s]
         /\ frag' = [frag EXCEPT ![q] = [i \in DOMAIN s |-> "unsent"]]
         /\ ran' = [ran EXCEPT ![q] = [i \in DOMAIN s |-> 0]]
    /\ query' = [query EXCEPT ![q] = "waiting"]
    /\ UNCHANGED <<membership, restarts, channel, answer, errors>>

Set(q, i, s) == frag' = [frag EXCEPT ![q] = [frag[q] EXCEPT ![i] = s]]

\* The command is sent when the channel has room.
Send(q, i) ==
    LET e == EngineOf(q, i) IN
    /\ query[q] = "waiting" /\ frag[q][i] = "unsent"
    /\ Reachable(e) /\ Len(channel[e]) < Capacity
    /\ channel' = [channel EXCEPT ![e] = Append(@, [query |-> q, part |-> i])]
    /\ Set(q, i, "queued")
    /\ UNCHANGED <<membership, restarts, query, plan, ran, answer, errors>>

\* Only connect fails.
Unreachable_Connect(q, i) ==
    /\ query[q] = "waiting" /\ frag[q][i] = "unsent"
    /\ ~Reachable(EngineOf(q, i))
    /\ Set(q, i, "err")
    /\ UNCHANGED <<membership, restarts, query, plan, channel, ran, answer, errors>>

\* connect fails, or the connection breaks, when the worker is gone.
Unreachable(q, i) ==
    /\ query[q] = "waiting" /\ frag[q][i] \in {"unsent", "queued"}
    /\ ~Reachable(EngineOf(q, i))
    /\ Set(q, i, "err")
    /\ UNCHANGED <<membership, restarts, query, plan, channel, ran, answer, errors>>

\* One more error that no worker's end explains.
Error == errors < MaxErrors /\ errors' = errors + 1

\* The answer, in which the SQL, the encoding or the connection may have
\* failed.  Nobody receives it when the query has ended.
Reply(q, i) ==
    IF query[q] # "waiting" THEN UNCHANGED <<frag, errors>>
    ELSE \/ Set(q, i, "ok") /\ UNCHANGED errors
         \/ Set(q, i, "err") /\ Error

RunFragment(c) ==
    /\ ran' = [ran EXCEPT ![c.query] =
                  [ran[c.query] EXCEPT ![c.part] = ran[c.query][c.part] + 1]]
    /\ Reply(c.query, c.part)

\* An engine runs the next fragment and replies.
Run(e) ==
    /\ channel[e] # <<>> /\ Reachable(e)
    /\ RunFragment(Head(channel[e]))
    /\ channel' = [channel EXCEPT ![e] = Tail(@)]
    /\ UNCHANGED <<membership, restarts, query, plan, answer>>

\* try_join_all returns the first error and drops the other futures.
Fail(q) ==
    /\ query[q] = "waiting" /\ \E i \in Parts(q) : frag[q][i] = "err"
    /\ query' = [query EXCEPT ![q] = "err"]
    /\ UNCHANGED <<membership, restarts, fragVars, answer, errors>>

-----------------------------------------------------------------------------
(* The fragments' SQL and the merge. *)

Abs(n) == IF n < 0 THEN -n ELSE n

\* SQL's MOD takes the sign of its first argument.
Mod(a, n) == IF a < 0 THEN -((-a) % n) ELSE a % n

\* The partition without ABS.
PartitionOf_Signed(r, n) == Mod(HashOf[r], n)

PartitionOf(r, n) == Abs(Mod(HashOf[r], n))

\* The rows fragment i yields: a single fragment is the query unchanged.
FragmentRows(q, i) ==
    LET n == Len(plan[q]) IN
    {r \in RowsAt[q][EngineOf(q, i)] :
        Strategy[q] = "hash" /\ n > 1 => PartitionOf(r, n) = i - 1}

\* merge_results skips empty results; the others may disagree on the schema.
MayMismatch(q) == Cardinality({i \in Parts(q) : FragmentRows(q, i) # {}}) > 1

\* All fragments have answered: merge.
Finish(q) ==
    /\ query[q] = "waiting"
    /\ \A i \in Parts(q) : frag[q][i] = "ok"
    /\ \/ /\ query' = [query EXCEPT ![q] = "ok"]
          /\ answer' = [answer EXCEPT ![q] =
               [r \in Rows |-> Cardinality({i \in Parts(q) :
                                              r \in FragmentRows(q, i)})]]
          /\ UNCHANGED errors
       \/ /\ MayMismatch(q) /\ Error
          /\ query' = [query EXCEPT ![q] = "err"]
          /\ UNCHANGED answer
    /\ UNCHANGED <<membership, restarts, fragVars>>

-----------------------------------------------------------------------------
\* A worker's process ends and takes its engine with it.
StopWorker(w) ==
    /\ Stop(w)
    /\ channel' = [channel EXCEPT ![w] = <<>>]
    /\ UNCHANGED <<query, plan, frag, ran, answer, errors, restarts>>

\* The coordinator's process restarts: its pool, its queries and its engine
\* are gone.
RestartAll ==
    /\ restarts < MaxRestarts /\ restarts' = restarts + 1
    /\ Offer /\ \A w \in Worker : standing'[w] # "member"
    /\ query' = [q \in Query |-> IF query[q] = "waiting" THEN "gone"
                                                         ELSE query[q]]
    /\ channel' = [channel EXCEPT ![Coord] = <<>>]
    /\ UNCHANGED <<plan, frag, ran, answer, errors>>

\* The steps of the pool that leave the queries alone.
PoolStep ==
    /\ Offer \/ \E w \in Worker : Warm(w)
    /\ UNCHANGED <<queryVars, restarts>>

QueryStep(q) ==
    \/ Start(q) \/ Fail(q) \/ Finish(q)
    \/ \E i \in Parts(q) : Send(q, i) \/ Unreachable(q, i)

Next ==
    \/ PoolStep \/ RestartAll
    \/ \E w \in Worker : StopWorker(w)
    \/ \E q \in Query : QueryStep(q)
    \/ \E e \in Engine : Run(e)

\* The client's request is served, and engines run what was sent to them.
Fairness ==
    /\ \A q \in Query : WF_vars(QueryStep(q))
    /\ \A e \in Engine : WF_vars(Run(e))

Spec == Init /\ [][Next]_vars /\ Fairness

-----------------------------------------------------------------------------
(* Properties. *)

\* What the strategies ask of the data: Replicate that every executor has a
\* shard of its own, HashColumn that all see the same rows.
Contract(q) ==
    LET E == [i \in Parts(q) |-> RowsAt[q][EngineOf(q, i)]] IN
    \A i, j \in Parts(q) : i # j =>
        IF Strategy[q] = "hash" THEN E[i] = E[j] ELSE E[i] \cap E[j] = {}

\* A query that succeeds returns every row of its workers exactly once,
\* whichever workers it got, in whatever order they answered, and whoever
\* stopped meanwhile, and each of its fragments has run; no fragment ever runs
\* twice (execute_with_strategy, split_query, merge_results, execute_fragment).
AnswerExact ==
    /\ \A q \in Query : query[q] = "ok" /\ Contract(q) =>
         \A r \in Rows : answer[q][r] =
             IF \E i \in Parts(q) : r \in RowsAt[q][EngineOf(q, i)]
             THEN 1 ELSE 0
    /\ \A q \in Query : \A i \in Parts(q) :
         ran[q][i] \in (IF query[q] = "ok" THEN {1} ELSE {0, 1})

\* The caller of execute_query gets an answer, whatever happens to the
\* workers, as long as the connections of a stopped worker break.
Answered ==
    \A q \in Query : query[q] = "waiting" ~> query[q] # "waiting"
=============================================================================
