------------------------- MODULE ScatterGather_proofs -------------------------
(***************************************************************************)
(* Proofs about distributed queries: their types, and that an answer holds *)
(* every row once and no fragment runs twice, for any workers, queries,    *)
(* rows, hashes, and number of errors and restarts.                        *)
(***************************************************************************)
EXTENDS ScatterGather, FiniteSetTheorems, SequenceTheorems, TLAPS

USE ScatterAssumption

(* Each fragment of a plan has a state; a query that has not begun has     *)
(* none.                                                                   *)
PlansSound ==
    \A q \in Query :
        /\ DOMAIN frag[q] = Parts(q) /\ DOMAIN ran[q] = Parts(q)
        /\ query[q] = "idle" => plan[q] = <<>>

(* A fragment in a channel is one of a plan, in the channel of its engine, *)
(* once, and has not run; a worker that stopped has an empty channel.      *)
SentOnce ==
    /\ \A e \in Engine : \A k \in DOMAIN channel[e] :
         LET c == channel[e][k] IN
         /\ c.part \in Parts(c.query) /\ EngineOf(c.query, c.part) = e
         /\ frag[c.query][c.part] = "queued" /\ ran[c.query][c.part] = 0
    /\ \A e \in Engine : \A k, l \in DOMAIN channel[e] : channel[e][k] = channel[e][l] => k = l
    /\ \A w \in Worker \ alive : channel[w] = <<>>

RanSound ==
    \A q \in Query : \A i \in Parts(q) :
        /\ ran[q][i] \in {0, 1}
        /\ frag[q][i] = "unsent" => ran[q][i] = 0
        /\ frag[q][i] = "ok" => ran[q][i] = 1

(* The fragments that yield a row.                                         *)
Yields(q, r) == {i \in Parts(q) : r \in FragmentRows(q, i)}

AnswersSound ==
    \A q \in Query : query[q] = "ok" =>
        /\ \A i \in Parts(q) : frag[q][i] = "ok"
        /\ \A r \in Rows : answer[q][r] = Cardinality(Yields(q, r))

ScatterInv == TypeOK /\ PlansSound /\ SentOnce /\ RanSound /\ AnswersSound
-------------------------------------------------------------------------------
\* Operators.

(* ABS(MOD(h, n)) is a partition, whatever the sign of the hash.           *)
LEMMA PartitionRange ==
    ASSUME NEW r \in Rows, NEW n \in Nat, n > 0
    PROVE  PartitionOf(r, n) \in 0 .. n - 1
<1>1. HashOf[r] \in Int
  OBVIOUS
<1>2. PICK h \in Int : h = HashOf[r]
  BY <1>1
<1>3. CASE h < 0
  <2>1. (-h) % n \in 0 .. n - 1
    BY <1>3
  <2>2. PICK m \in 0 .. n - 1 : m = (-h) % n
    BY <2>1
  <2>3. PartitionOf(r, n) = m
    BY <1>2, <1>3, <2>2 DEF PartitionOf, Mod, Abs
  <2> QED
    BY <2>3
<1>4. CASE ~(h < 0)
  <2>1. h % n \in 0 .. n - 1
    BY <1>4
  <2>2. PICK m \in 0 .. n - 1 : m = h % n
    BY <2>1
  <2>3. PartitionOf(r, n) = m
    BY <1>2, <1>4, <2>2 DEF PartitionOf, Mod, Abs
  <2> QED
    BY <2>3
<1> QED
  BY <1>3, <1>4

\* A function on an interval from one is a sequence.
LEMMA SeqOfFunction == ASSUME NEW S, NEW n \in Nat, NEW f \in [1 .. n -> S] PROVE f \in Seq(S)
  OBVIOUS

\* The plan of a query, its length and the engines it names.
LEMMA PlanTyped ==
    ASSUME TypeOK, NEW q \in Query
    PROVE  /\ Len(plan[q]) \in Nat /\ DOMAIN plan[q] = Parts(q) /\ Parts(q) \subseteq Nat \ {0}
           /\ \A i \in Parts(q) : plan[q][i] \in Engine /\ EngineOf(q, i) \in Engine
<1>1. plan[q] \in Seq(Engine)
  BY DEF TypeOK
<1>2. /\ Len(plan[q]) \in Nat /\ DOMAIN plan[q] = 1 .. Len(plan[q])
      /\ \A i \in 1 .. Len(plan[q]) : plan[q][i] \in Engine
  BY <1>1, LenProperties, ElementOfSeq
<1> QED
  BY <1>2 DEF Parts, EngineOf, Engine

\* The messages on the way to an engine.
LEMMA ChannelTyped ==
    ASSUME TypeOK, NEW e \in Engine
    PROVE  /\ channel[e] \in Seq([query : Query, part : Nat])
           /\ Len(channel[e]) \in Nat /\ DOMAIN channel[e] = 1 .. Len(channel[e])
           /\ \A k \in DOMAIN channel[e] : channel[e][k].query \in Query /\ channel[e][k].part \in Nat
<1>1. channel[e] \in Seq([query : Query, part : Nat])
  BY DEF TypeOK
<1>2. \A k \in 1 .. Len(channel[e]) : channel[e][k] \in [query : Query, part : Nat]
  BY <1>1, ElementOfSeq
<1> QED
  BY <1>1, <1>2, LenProperties

(* Under the contract of its strategy a row comes from one fragment, if it *)
(* is there at all: split_query and merge_results lose and double nothing. *)
LEMMA YieldedOnce ==
    ASSUME TypeOK, NEW q \in Query, Contract(q), NEW r \in Rows
    PROVE  Cardinality(Yields(q, r)) =
             IF \E i \in Parts(q) : r \in RowsAt[q][EngineOf(q, i)] THEN 1 ELSE 0
<1>1. PICK n \in Nat : n = Len(plan[q]) /\ Parts(q) = 1 .. n
  BY PlanTyped DEF Parts
<1>2. \A i \in Parts(q) : r \in FragmentRows(q, i) <=>
         /\ r \in RowsAt[q][EngineOf(q, i)]
         /\ Strategy[q] = "hash" /\ n > 1 => PartitionOf(r, n) = i - 1
  BY <1>1 DEF FragmentRows
<1>3. \A i, j \in Parts(q) : i # j =>
         IF Strategy[q] = "hash" THEN RowsAt[q][EngineOf(q, i)] = RowsAt[q][EngineOf(q, j)]
         ELSE RowsAt[q][EngineOf(q, i)] \cap RowsAt[q][EngineOf(q, j)] = {}
  BY DEF Contract
<1>4. CASE \A i \in Parts(q) : r \notin RowsAt[q][EngineOf(q, i)]
  <2>1. Yields(q, r) = {}
    BY <1>2, <1>4 DEF Yields
  <2> QED
    BY <1>4, <2>1, FS_EmptySet
<1>5. ASSUME NEW i \in Parts(q), r \in RowsAt[q][EngineOf(q, i)]
      PROVE  \E m : Yields(q, r) = {m}
  <2>1. CASE Strategy[q] = "hash" /\ n > 1
    <3>1. PICK m \in 1 .. n : PartitionOf(r, n) = m - 1
      <4>1. PICK p \in 0 .. n - 1 : p = PartitionOf(r, n)
        BY <2>1, PartitionRange
      <4>2. p + 1 \in 1 .. n /\ p = (p + 1) - 1
        BY <4>1
      <4> QED
        BY <4>1, <4>2
    <3>2. r \in RowsAt[q][EngineOf(q, m)]
      BY <1>1, <1>3, <1>5, <2>1
    <3>3. \A k \in Parts(q) : PartitionOf(r, n) = k - 1 => k = m
      BY <1>1, <3>1
    <3>4. Yields(q, r) = {m}
      BY <1>1, <1>2, <2>1, <3>1, <3>2, <3>3 DEF Yields
    <3> QED
      BY <3>4
  <2>2. CASE ~(Strategy[q] = "hash" /\ n > 1)
    <3>1. \A k \in Parts(q) : r \in RowsAt[q][EngineOf(q, k)] => k = i
      <4>1. CASE Strategy[q] = "hash"
        BY <1>1, <2>2, <4>1
      <4>2. CASE Strategy[q] # "hash"
        BY <1>3, <1>5, <4>2
      <4> QED
        BY <4>1, <4>2
    <3>2. Yields(q, r) = {i}
      BY <1>2, <1>5, <2>2, <3>1 DEF Yields
    <3> QED
      BY <3>2
  <2> QED
    BY <2>1, <2>2
<1>6. (\E i \in Parts(q) : r \in RowsAt[q][EngineOf(q, i)]) => Cardinality(Yields(q, r)) = 1
  BY <1>5, FS_Singleton
<1> QED
  BY <1>4, <1>6

\* The invariant is strong enough.
LEMMA AnswersExact == ASSUME ScatterInv PROVE AnswerExact
<1>1. ASSUME NEW q \in Query, query[q] = "ok", Contract(q), NEW r \in Rows
      PROVE  answer[q][r] = IF \E i \in Parts(q) : r \in RowsAt[q][EngineOf(q, i)] THEN 1 ELSE 0
  BY <1>1, YieldedOnce DEF ScatterInv, AnswersSound
<1>2. ASSUME NEW q \in Query, NEW i \in Parts(q)
      PROVE  ran[q][i] \in (IF query[q] = "ok" THEN {1} ELSE {0, 1})
  BY DEF ScatterInv, AnswersSound, RanSound
<1> QED
  BY <1>1, <1>2 DEF AnswerExact

\* The invariant holds initially: no query has been planned.
LEMMA ScatterInitInv == Init => ScatterInv
<1> SUFFICES ASSUME Init PROVE ScatterInv
  OBVIOUS
<1>1. TypeOK
  <2>1. /\ plan \in [Query -> Seq(Engine)] /\ frag \in [Query -> Seq(FragState)]
        /\ channel \in [Engine -> Seq([query : Query, part : Nat])] /\ ran \in [Query -> Seq(Nat)]
    BY EmptySeq DEF Init
  <2>2. /\ fit \subseteq Worker /\ standing \in [Worker -> Standing]
        /\ alive \subseteq Worker /\ offered \subseteq Worker
        /\ query \in [Query -> {"idle", "waiting", "ok", "err", "gone"}]
        /\ answer \in [Query -> [Rows -> Nat]] /\ {errors, restarts} \subseteq Nat
    BY ScatterAssumption DEF Init, MembershipInit, Standing
  <2> QED
    BY <2>1, <2>2 DEF TypeOK
<1>2. /\ \A q \in Query : query[q] = "idle" /\ plan[q] = <<>> /\ frag[q] = <<>> /\ ran[q] = <<>>
      /\ \A e \in Engine : channel[e] = <<>>
      /\ Worker \subseteq Engine
  BY DEF Init, Engine
<1>3. \A q \in Query : Parts(q) = {}
  BY <1>2 DEF Parts
<1>4. DOMAIN <<>> = {}
  OBVIOUS
<1>5. PlansSound
  BY <1>2, <1>3, <1>4 DEF PlansSound
<1>6. SentOnce
  BY <1>2, <1>4 DEF SentOnce
<1>7. RanSound /\ AnswersSound
  BY <1>2, <1>3 DEF RanSound, AnswersSound
<1> QED
  BY <1>1, <1>5, <1>6, <1>7 DEF ScatterInv

-------------------------------------------------------------------------------
\* Steps.

(* A step that leaves plans and fragments alone, and queries but for one   *)
(* that does not succeed by it.                                            *)
LEMMA FragmentsStay ==
    ASSUME ScatterInv, UNCHANGED <<plan, frag, ran, answer>>,
           \A q \in Query : query'[q] = query[q] \/ query'[q] \notin {"idle", "ok"},
           \A e \in Engine : channel'[e] = channel[e] \/ channel'[e] = <<>>,
           \A w \in Worker \ alive' : w \in alive => channel'[w] = <<>>
    PROVE  PlansSound' /\ SentOnce' /\ RanSound' /\ AnswersSound'
<1>1. \A q : /\ Parts(q)' = Parts(q)
             /\ \A i : EngineOf(q, i)' = EngineOf(q, i) /\ FragmentRows(q, i)' = FragmentRows(q, i)
             /\ \A r : Yields(q, r)' = Yields(q, r)
  BY DEF Parts, EngineOf, FragmentRows, Yields
<1>2. PlansSound'
  BY <1>1 DEF ScatterInv, PlansSound, Parts
<1>3. SentOnce'
  <2>1. \A e \in Engine : \A k \in DOMAIN channel'[e] :
          /\ channel'[e] = channel[e] /\ k \in DOMAIN channel[e]
    OBVIOUS
  <2>2. \A w \in Worker \ alive' : channel'[w] = <<>>
    BY DEF ScatterInv, SentOnce, Engine
  <2>3. SentOnce
    BY DEF ScatterInv
  <2> QED
    BY <2>1, <2>2, <2>3 DEF SentOnce, Parts, EngineOf
<1>4. RanSound'
  BY <1>1 DEF ScatterInv, RanSound, Parts
<1>5. AnswersSound'
  <2>1. AnswersSound
    BY DEF ScatterInv
  <2> QED
    BY <2>1 DEF AnswersSound, Yields, FragmentRows, EngineOf, Parts
<1> QED
  BY <1>2, <1>3, <1>4, <1>5

(* The pool, a worker that ends, a restart, and a query that fails.        *)
LEMMA OutsideStep ==
    ASSUME ScatterInv,
           \/ PoolStep \/ RestartAll \/ \E w \in Worker : StopWorker(w)
           \/ \E q \in Query : Fail(q)
    PROVE  ScatterInv'
<1>1. CASE PoolStep
  <2>1. TypeOK'
    BY <1>1 DEF ScatterInv, TypeOK, PoolStep, Offer, Warm, queryVars, fragVars
  <2>2. UNCHANGED <<alive, plan, frag, ran, answer, query, channel>>
    BY <1>1 DEF PoolStep, Offer, Warm, queryVars, fragVars
  <2> QED
    BY <2>1, <2>2, FragmentsStay DEF ScatterInv
<1>2. CASE RestartAll
  <2>1. <<>> \in Seq([query : Query, part : Nat]) /\ Coord \in Engine
    BY EmptySeq DEF Engine
  <2>2. /\ UNCHANGED <<alive, fit, plan, frag, ran, answer, errors>>
        /\ restarts' = restarts + 1 /\ offered' \subseteq Worker
        /\ standing' \in [Worker -> Standing]
        /\ query' = [q \in Query |-> IF query[q] = "waiting" THEN "gone" ELSE query[q]]
        /\ channel' = [channel EXCEPT ![Coord] = <<>>]
    BY <1>2 DEF RestartAll, Offer
  <2>3. TypeOK'
    <3>1. query' \in [Query -> {"idle", "waiting", "ok", "err", "gone"}]
      BY <2>2 DEF ScatterInv, TypeOK
    <3>2. channel' \in [Engine -> Seq([query : Query, part : Nat])]
      BY <2>1, <2>2 DEF ScatterInv, TypeOK
    <3>3. offered' \subseteq Worker /\ restarts' \in Nat
      BY <2>2 DEF ScatterInv, TypeOK
    <3> QED
      BY <2>2, <3>1, <3>2, <3>3 DEF ScatterInv, TypeOK
  <2>4. \A q \in Query : query'[q] = query[q] \/ query'[q] \notin {"idle", "ok"}
    BY <2>2
  <2>5. \A e \in Engine : channel'[e] = channel[e] \/ channel'[e] = <<>>
    BY <2>2 DEF ScatterInv, TypeOK
  <2> QED
    BY <2>2, <2>3, <2>4, <2>5, FragmentsStay DEF ScatterInv
<1>3. ASSUME NEW w \in Worker, StopWorker(w) PROVE ScatterInv'
  <2>1. <<>> \in Seq([query : Query, part : Nat]) /\ w \in Engine
    BY EmptySeq DEF Engine
  <2>2. /\ UNCHANGED <<offered, fit, standing, plan, frag, ran, answer, errors, restarts, query>>
        /\ alive' = alive \ {w}
        /\ channel' = [channel EXCEPT ![w] = <<>>]
    BY <1>3 DEF StopWorker, Stop
  <2>3. TypeOK'
    BY <2>1, <2>2 DEF ScatterInv, TypeOK
  <2>5. \A e \in Engine : channel'[e] = (IF e = w THEN <<>> ELSE channel[e])
    BY <2>2 DEF ScatterInv, TypeOK
  <2> QED
    BY <2>1, <2>2, <2>3, <2>5, FragmentsStay DEF ScatterInv
<1>4. ASSUME NEW q \in Query, Fail(q) PROVE ScatterInv'
  <2>1. /\ UNCHANGED <<alive, fit, standing, offered, plan, frag, ran, answer, errors, restarts>>
        /\ UNCHANGED channel
        /\ query' = [query EXCEPT ![q] = "err"]
    BY <1>4 DEF Fail, membership, fragVars
  <2>2. TypeOK'
    BY <2>1 DEF ScatterInv, TypeOK
  <2>3. \A p \in Query : query'[p] = query[p] \/ query'[p] = "err"
    BY <2>1 DEF ScatterInv, TypeOK
  <2> QED
    BY <2>1, <2>2, <2>3, FragmentsStay DEF ScatterInv
<1> QED
  BY <1>1, <1>2, <1>3, <1>4

(* Finish: the merge takes what the plan's fragments yield.                *)
LEMMA FinishStep ==
    ASSUME ScatterInv, NEW q \in Query, Finish(q)
    PROVE  ScatterInv'
<1>1. UNCHANGED <<membership, restarts, plan, frag, ran, channel>>
      /\ \A i \in Parts(q) : frag[q][i] = "ok"
  BY DEF Finish, fragVars
<1>2. CASE /\ query' = [query EXCEPT ![q] = "ok"]
           /\ answer' = [answer EXCEPT ![q] =
                [r \in Rows |-> Cardinality({i \in Parts(q) : r \in FragmentRows(q, i)})]]
           /\ UNCHANGED errors
  <2>1. \A r \in Rows : Cardinality(Yields(q, r)) \in Nat
    <3>1. IsFiniteSet(Parts(q))
      <4>1. Len(plan[q]) \in Int /\ 1 \in Int
        BY PlanTyped DEF ScatterInv
      <4> QED
        BY <4>1, FS_Interval DEF Parts
    <3>2. \A r \in Rows : IsFiniteSet(Yields(q, r))
      BY <3>1, FS_Subset DEF Yields
    <3> QED
      BY <3>2, FS_CardinalityType
  <2>2. PICK a \in [Rows -> Nat] :
           a = [r \in Rows |-> Cardinality({i \in Parts(q) : r \in FragmentRows(q, i)})]
    BY <2>1 DEF Yields
  <2>3. answer' = [answer EXCEPT ![q] = a] /\ \A r \in Rows : a[r] = Cardinality(Yields(q, r))
    BY <1>2, <2>2 DEF Yields
  <2>4. TypeOK'
    <3>1. UNCHANGED <<fit, alive, standing, offered, plan, frag, channel, ran, errors, restarts>>
      BY <1>1, <1>2 DEF membership
    <3>2. query' \in [Query -> {"idle", "waiting", "ok", "err", "gone"}]
      BY <1>2 DEF ScatterInv, TypeOK
    <3>3. answer' \in [Query -> [Rows -> Nat]]
      BY <2>2, <2>3 DEF ScatterInv, TypeOK
    <3> QED
      BY <3>1, <3>2, <3>3 DEF ScatterInv, TypeOK
  <2>5. PlansSound' /\ SentOnce' /\ RanSound'
    <3>1. PlansSound'
      BY <1>1, <1>2 DEF ScatterInv, PlansSound, TypeOK, Parts
    <3>2. SentOnce'
      BY <1>1 DEF ScatterInv, SentOnce, Parts, EngineOf, membership
    <3>3. RanSound'
      BY <1>1 DEF ScatterInv, RanSound, Parts
    <3> QED
      BY <3>1, <3>2, <3>3
  <2>6. AnswersSound'
    <3>1. \A p \in Query, r \in Rows : query'[p] = "ok" => answer'[p][r] = Cardinality(Yields(p, r))
      BY <1>2, <2>3 DEF ScatterInv, TypeOK, AnswersSound
    <3>2. \A p \in Query : query'[p] = "ok" => \A i \in Parts(p) : frag[p][i] = "ok"
      BY <1>1, <1>2 DEF ScatterInv, TypeOK, AnswersSound
    <3> QED
      BY <1>1, <3>1, <3>2 DEF AnswersSound, Yields, FragmentRows, EngineOf, Parts
  <2> QED
    BY <2>4, <2>5, <2>6 DEF ScatterInv
<1>3. CASE Error /\ query' = [query EXCEPT ![q] = "err"] /\ UNCHANGED answer
  <2>1. TypeOK'
    BY <1>1, <1>3 DEF ScatterInv, TypeOK, membership, Error
  <2>2. \A p \in Query : query'[p] = query[p] \/ query'[p] = "err"
    BY <1>3 DEF ScatterInv, TypeOK
  <2> QED
    BY <1>1, <1>3, <2>1, <2>2, FragmentsStay DEF ScatterInv, membership
<1> QED
  BY <1>2, <1>3 DEF Finish

(* Start: nothing of the query is in a channel yet.                        *)
LEMMA StartStep ==
    ASSUME ScatterInv, NEW q \in Query, Start(q)
    PROVE  ScatterInv'
<1>1. TypeOK /\ PlansSound /\ SentOnce /\ RanSound /\ AnswersSound
  BY DEF ScatterInv
<1>2. PICK s \in Seq(Engine) :
         /\ DOMAIN s = 1 .. Len(s) /\ Len(s) \in Nat
         /\ plan' = [plan EXCEPT ![q] = s]
         /\ frag' = [frag EXCEPT ![q] = [i \in DOMAIN s |-> "unsent"]]
         /\ ran' = [ran EXCEPT ![q] = [i \in DOMAIN s |-> 0]]
  <2>1. PICK s \in IF offered = {} THEN {<<Coord>>} ELSE Orders(offered) :
           /\ plan' = [plan EXCEPT ![q] = s]
           /\ frag' = [frag EXCEPT ![q] = [i \in DOMAIN s |-> "unsent"]]
           /\ ran' = [ran EXCEPT ![q] = [i \in DOMAIN s |-> 0]]
    BY DEF Start
  <2>2. s \in Seq(Engine)
    <3>1. CASE offered = {}
      <4>1. s = <<Coord>>
        BY <2>1, <3>1
      <4>2. Coord \in Engine
        BY DEF Engine
      <4> QED
        BY <4>1, <4>2
    <3>2. CASE offered # {}
      <4>1. Cardinality(offered) \in Nat /\ offered \subseteq Engine
        BY <1>1, FS_Subset, FS_CardinalityType DEF TypeOK, Engine
      <4>2. s \in [1 .. Cardinality(offered) -> Engine]
        BY <2>1, <3>2, <4>1 DEF Orders
      <4> QED
        BY <4>1, <4>2, SeqOfFunction
    <3> QED
      BY <3>1, <3>2
  <2> QED
    BY <2>1, <2>2, LenProperties
<1>3. PICK f \in Seq(FragState), o \in Seq(Nat) :
         /\ f = [i \in DOMAIN s |-> "unsent"] /\ o = [i \in DOMAIN s |-> 0]
         /\ DOMAIN f = DOMAIN s /\ DOMAIN o = DOMAIN s
         /\ \A i \in DOMAIN s : f[i] = "unsent" /\ o[i] = 0
  <2>1. [i \in DOMAIN s |-> "unsent"] \in [1 .. Len(s) -> FragState]
    BY <1>2 DEF FragState
  <2>2. [i \in DOMAIN s |-> 0] \in [1 .. Len(s) -> Nat]
    BY <1>2
  <2>3. [i \in DOMAIN s |-> "unsent"] \in Seq(FragState) /\ [i \in DOMAIN s |-> 0] \in Seq(Nat)
    BY <1>2, <2>1, <2>2, SeqOfFunction
  <2> QED
    BY <2>3
<1>4. /\ query[q] = "idle" /\ query' = [query EXCEPT ![q] = "waiting"]
      /\ UNCHANGED <<fit, standing, alive, offered, restarts, channel, answer, errors>>
  BY DEF Start, membership
<1>5. TypeOK'
  BY <1>1, <1>2, <1>3, <1>4 DEF TypeOK
<1>6. /\ plan'[q] = s /\ frag'[q] = f /\ ran'[q] = o /\ query'[q] = "waiting"
      /\ \A p \in Query \ {q} : /\ plan'[p] = plan[p] /\ frag'[p] = frag[p] /\ ran'[p] = ran[p]
                                /\ query'[p] = query[p]
  BY <1>1, <1>2, <1>3, <1>4 DEF TypeOK
<1>7. Parts(q) = {}
  BY <1>1, <1>4 DEF PlansSound, Parts
<1>8. PlansSound'
  <2>1. \A p \in Query : DOMAIN frag'[p] = 1 .. Len(plan'[p]) /\ DOMAIN ran'[p] = 1 .. Len(plan'[p])
    BY <1>1, <1>2, <1>3, <1>6 DEF PlansSound, Parts
  <2>2. \A p \in Query : query'[p] = "idle" => plan'[p] = <<>>
    BY <1>1, <1>6 DEF PlansSound
  <2> QED
    BY <2>1, <2>2 DEF PlansSound, Parts
<1>9. SentOnce'
  <2>1. \A e \in Engine : \A k \in DOMAIN channel[e] : channel[e][k].query \in Query \ {q}
    BY <1>1, <1>7, ChannelTyped DEF SentOnce
  <2>2. ASSUME NEW e \in Engine, NEW k \in DOMAIN channel[e]
        PROVE  LET c == channel[e][k] IN
               /\ c.part \in 1 .. Len(plan'[c.query])
               /\ (IF plan'[c.query][c.part] \in Remote[c.query] THEN plan'[c.query][c.part] ELSE Coord) = e
               /\ frag'[c.query][c.part] = "queued" /\ ran'[c.query][c.part] = 0
    <3>1. PICK c : c = channel[e][k] /\ c.query \in Query \ {q}
      BY <2>1
    <3>2. /\ plan'[c.query] = plan[c.query] /\ frag'[c.query] = frag[c.query]
          /\ ran'[c.query] = ran[c.query]
      BY <1>6, <3>1
    <3> QED
      BY <1>1, <3>1, <3>2 DEF SentOnce, Parts, EngineOf
  <2> QED
    BY <1>1, <1>4, <2>2 DEF SentOnce, Parts, EngineOf
<1>10. RanSound'
  <2>1. PICK n \in Nat : n = Len(s) /\ DOMAIN s = 1 .. n
    BY <1>2
  <2>2. ASSUME NEW p \in Query, NEW i \in 1 .. Len(plan'[p])
        PROVE  /\ ran'[p][i] \in {0, 1}
               /\ frag'[p][i] = "unsent" => ran'[p][i] = 0
               /\ frag'[p][i] = "ok" => ran'[p][i] = 1
    <3>1. CASE p = q
      <4>1. i \in DOMAIN s
        BY <1>6, <2>1, <3>1
      <4>2. frag'[p][i] = "unsent" /\ ran'[p][i] = 0
        BY <1>3, <1>6, <3>1, <4>1
      <4> QED
        BY <4>2
    <3>2. CASE p # q
      <4>1. /\ i \in Parts(p) /\ ran'[p] = ran[p] /\ frag'[p] = frag[p]
        BY <1>6, <3>2 DEF Parts
      <4> QED
        BY <1>1, <4>1 DEF RanSound
    <3> QED
      BY <3>1, <3>2
  <2> QED
    BY <2>2 DEF RanSound, Parts
<1>11. AnswersSound'
  <2>1. ASSUME NEW p \in Query, query'[p] = "ok"
        PROVE  /\ p # q /\ query[p] = "ok" /\ frag'[p] = frag[p] /\ plan'[p] = plan[p]
    BY <1>6, <2>1
  <2>2. \A p \in Query : query'[p] = "ok" =>
          /\ \A i \in Parts(p) : frag'[p][i] = "ok"
          /\ \A r \in Rows : answer'[p][r] = Cardinality(Yields(p, r))
    BY <1>1, <1>4, <2>1 DEF AnswersSound
  <2>3. ASSUME NEW p \in Query, query'[p] = "ok"
        PROVE  /\ Parts(p)' = Parts(p)
               /\ \A r : Yields(p, r)' = Yields(p, r)
    BY <2>1, <2>3 DEF Yields, FragmentRows, EngineOf, Parts
  <2> QED
    BY <2>2, <2>3 DEF AnswersSound
<1> QED
  BY <1>5, <1>8, <1>9, <1>10, <1>11 DEF ScatterInv

(* One fragment's future comes to a new state; the rest stays.             *)
LEMMA SetTyped ==
    ASSUME TypeOK, PlansSound, NEW q \in Query, NEW i \in Parts(q), NEW s \in FragState, Set(q, i, s)
    PROVE  /\ frag' \in [Query -> Seq(FragState)]
           /\ \A p \in Query : DOMAIN frag'[p] = DOMAIN frag[p]
           /\ frag'[q][i] = s
           /\ \A p \in Query : \A k \in Parts(p) : p # q \/ k # i => frag'[p][k] = frag[p][k]
<1>1. frag[q] \in Seq(FragState) /\ DOMAIN frag[q] = Parts(q) /\ frag \in [Query -> Seq(FragState)]
  BY DEF TypeOK, PlansSound
<1>2. i \in 1 .. Len(frag[q])
  BY <1>1, LenProperties
<1>3. PICK t \in Seq(FragState) :
         /\ t = [frag[q] EXCEPT ![i] = s] /\ DOMAIN t = Parts(q) /\ t[i] = s
         /\ \A k \in Parts(q) : k # i => t[k] = frag[q][k]
  <2>1. [frag[q] EXCEPT ![i] = s] \in Seq(FragState)
    BY <1>1, <1>2, ExceptSeq
  <2> QED
    BY <1>1, <2>1
<1>4. frag' = [frag EXCEPT ![q] = t]
  BY <1>3 DEF Set
<1> QED
  BY <1>1, <1>3, <1>4

(* A step that moves one fragment of one query.                            *)
LEMMA FragmentMoves ==
    ASSUME ScatterInv, NEW q \in Query, NEW i \in Parts(q),
           UNCHANGED <<plan, query, answer>>,
           \A p \in Query : DOMAIN frag'[p] = Parts(p) /\ DOMAIN ran'[p] = Parts(p),
           \A p \in Query : \A k \in Parts(p) : p # q \/ k # i =>
               frag'[p][k] = frag[p][k] /\ ran'[p][k] = ran[p][k],
           query[q] = "ok" => frag'[q][i] = frag[q][i],
           ran'[q][i] \in {0, 1},
           frag'[q][i] = "unsent" => ran'[q][i] = 0, frag'[q][i] = "ok" => ran'[q][i] = 1
    PROVE  PlansSound' /\ RanSound' /\ AnswersSound'
<1>1. \A p : /\ Parts(p)' = Parts(p)
             /\ \A r : Yields(p, r)' = Yields(p, r)
  BY DEF Parts, Yields, FragmentRows, EngineOf
<1>2. PlansSound'
  <2>1. \A p \in Query : query'[p] = "idle" => plan'[p] = <<>>
    BY DEF ScatterInv, PlansSound
  <2> QED
    BY <1>1, <2>1 DEF PlansSound
<1>3. RanSound'
  <2>1. \A p \in Query : \A k \in Parts(p) :
          /\ ran'[p][k] \in {0, 1}
          /\ frag'[p][k] = "unsent" => ran'[p][k] = 0
          /\ frag'[p][k] = "ok" => ran'[p][k] = 1
    BY DEF ScatterInv, RanSound
  <2> QED
    BY <1>1, <2>1 DEF RanSound
<1>4. AnswersSound'
  <2>1. \A p \in Query : query[p] = "ok" =>
          /\ \A k \in Parts(p) : frag'[p][k] = "ok"
          /\ \A r \in Rows : answer'[p][r] = Cardinality(Yields(p, r))
    BY DEF ScatterInv, AnswersSound
  <2> QED
    BY <1>1, <2>1 DEF AnswersSound
<1> QED
  BY <1>2, <1>3, <1>4

(* A command in a channel, by query and fragment.                          *)
LEMMA SentFacts ==
    ASSUME ScatterInv, NEW e \in Engine, NEW k \in DOMAIN channel[e]
    PROVE  \E p \in Query : \E j \in Parts(p) :
             /\ channel[e][k] = [query |-> p, part |-> j]
             /\ EngineOf(p, j) = e /\ frag[p][j] = "queued" /\ ran[p][j] = 0
<1>1. PICK c \in [query : Query, part : Nat] : c = channel[e][k]
  <2>1. k \in 1 .. Len(channel[e]) /\ channel[e] \in Seq([query : Query, part : Nat])
    BY ChannelTyped DEF ScatterInv
  <2> QED
    BY <2>1, ElementOfSeq
<1>2. /\ c.part \in Parts(c.query) /\ EngineOf(c.query, c.part) = e
      /\ frag[c.query][c.part] = "queued" /\ ran[c.query][c.part] = 0
  BY <1>1 DEF ScatterInv, SentOnce
<1> QED
  BY <1>1, <1>2

\* What is on the way is sent once when each message is of a queued fragment
\* that has not run, at the engine of its part, and none is there twice.
LEMMA SentMoves ==
    ASSUME UNCHANGED plan,
           \A e \in Engine : \A k \in DOMAIN channel'[e] :
             \E p \in Query : \E j \in Parts(p) :
               /\ channel'[e][k] = [query |-> p, part |-> j]
               /\ EngineOf(p, j) = e /\ frag'[p][j] = "queued" /\ ran'[p][j] = 0,
           \A e \in Engine : \A k, l \in DOMAIN channel'[e] :
             channel'[e][k] = channel'[e][l] => k = l,
           \A w \in Worker \ alive' : channel'[w] = <<>>
    PROVE  SentOnce'
<1>1. ASSUME NEW e \in Engine, NEW k \in DOMAIN channel'[e], NEW c, c = channel'[e][k]
      PROVE  /\ c.part \in Parts(c.query) /\ EngineOf(c.query, c.part) = e
             /\ frag'[c.query][c.part] = "queued" /\ ran'[c.query][c.part] = 0
  <2>1. PICK p \in Query : \E j \in Parts(p) :
               /\ channel'[e][k] = [query |-> p, part |-> j]
               /\ EngineOf(p, j) = e /\ frag'[p][j] = "queued" /\ ran'[p][j] = 0
    OBVIOUS
  <2>2. PICK j \in Parts(p) :
               /\ channel'[e][k] = [query |-> p, part |-> j]
               /\ EngineOf(p, j) = e /\ frag'[p][j] = "queued" /\ ran'[p][j] = 0
    BY <2>1
  <2>3. c.query = p /\ c.part = j
    BY <1>1, <2>2
  <2> QED
    BY <2>2, <2>3
<1> QED
  BY <1>1 DEF SentOnce, Parts, EngineOf

(* Send: the fragment was in no channel.                                   *)
LEMMA SendStep ==
    ASSUME ScatterInv, NEW q \in Query, NEW i \in Parts(q), Send(q, i)
    PROVE  ScatterInv'
<1>1. TypeOK /\ PlansSound /\ SentOnce /\ RanSound
  BY DEF ScatterInv
<1>2. PICK e \in Engine, m \in [query : Query, part : Nat] :
         /\ e = EngineOf(q, i) /\ m = [query |-> q, part |-> i]
  <2>1. i \in Nat /\ EngineOf(q, i) \in Engine
    BY <1>1, PlanTyped
  <2> QED
    BY <2>1
<1>3. /\ query[q] = "waiting" /\ frag[q][i] = "unsent" /\ Reachable(e)
      /\ channel' = [channel EXCEPT ![e] = Append(channel[e], m)]
      /\ Set(q, i, "queued")
      /\ UNCHANGED <<fit, standing, alive, offered, restarts, query, plan, ran, answer, errors>>
  BY <1>2 DEF Send, membership
<1>4. /\ frag' \in [Query -> Seq(FragState)]
      /\ \A p \in Query : DOMAIN frag'[p] = Parts(p)
      /\ frag'[q][i] = "queued"
      /\ \A p \in Query : \A k \in Parts(p) : p # q \/ k # i => frag'[p][k] = frag[p][k]
  <2>1. "queued" \in FragState
    BY DEF FragState
  <2>2. /\ frag' \in [Query -> Seq(FragState)]
        /\ \A p \in Query : DOMAIN frag'[p] = DOMAIN frag[p]
        /\ frag'[q][i] = "queued"
        /\ \A p \in Query : \A k \in Parts(p) : p # q \/ k # i => frag'[p][k] = frag[p][k]
    BY <1>1, <1>3, <2>1, SetTyped
  <2>3. \A p \in Query : DOMAIN frag'[p] = Parts(p)
    BY <1>1, <2>2 DEF PlansSound
  <2> QED
    BY <2>2, <2>3
<1>5. PICK n \in Nat :
         /\ channel' \in [Engine -> Seq([query : Query, part : Nat])]
         /\ \A d \in Engine \ {e} : channel'[d] = channel[d]
         /\ DOMAIN channel[e] = 1 .. n /\ DOMAIN channel'[e] = 1 .. n + 1
         /\ channel'[e][n + 1] = m
         /\ \A k \in 1 .. n : channel'[e][k] = channel[e][k]
  <2>1. PICK s \in Seq([query : Query, part : Nat]) : s = channel[e]
    BY ChannelTyped, <1>1
  <2>2. /\ Append(s, m) \in Seq([query : Query, part : Nat]) /\ Len(Append(s, m)) = Len(s) + 1
        /\ \A k \in 1 .. Len(s) : Append(s, m)[k] = s[k]
        /\ Append(s, m)[Len(s) + 1] = m
    BY AppendProperties
  <2>3. /\ Len(s) \in Nat /\ DOMAIN s = 1 .. Len(s)
        /\ DOMAIN Append(s, m) = 1 .. Len(s) + 1
    BY <2>2, LenProperties
  <2>4. PICK t \in Seq([query : Query, part : Nat]) : t = Append(s, m)
    BY <2>2
  <2>5. /\ channel' = [channel EXCEPT ![e] = t]
        /\ channel \in [Engine -> Seq([query : Query, part : Nat])]
    BY <1>1, <1>3, <2>1, <2>4 DEF TypeOK
  <2>6. /\ channel' \in [Engine -> Seq([query : Query, part : Nat])] /\ channel'[e] = t
        /\ \A d \in Engine \ {e} : channel'[d] = channel[d]
    BY <2>5
  <2> QED
    BY <2>1, <2>2, <2>3, <2>4, <2>6
<1>6. TypeOK'
  BY <1>1, <1>3, <1>4, <1>5 DEF TypeOK
<1>7. ran[q][i] = 0
  BY <1>1, <1>3 DEF RanSound
<1>8. \A d \in Engine : \A k \in DOMAIN channel[d] : channel[d][k] # m
  <2>1. ASSUME NEW d \in Engine, NEW k \in DOMAIN channel[d], channel[d][k] = m
        PROVE  FALSE
    <3>1. PICK p \in Query : \E j \in Parts(p) :
             channel[d][k] = [query |-> p, part |-> j] /\ frag[p][j] = "queued"
      BY SentFacts
    <3>2. PICK j \in Parts(p) :
             channel[d][k] = [query |-> p, part |-> j] /\ frag[p][j] = "queued"
      BY <3>1
    <3>3. p = q /\ j = i
      BY <1>2, <2>1, <3>2
    <3> QED
      BY <1>3, <3>2, <3>3
  <2> QED
    BY <2>1
<1>9. ASSUME NEW d \in Engine, NEW k \in DOMAIN channel'[d]
      PROVE  \E p \in Query : \E j \in Parts(p) :
               /\ channel'[d][k] = [query |-> p, part |-> j]
               /\ EngineOf(p, j) = d /\ frag'[p][j] = "queued" /\ ran'[p][j] = 0
  <2>1. CASE d = e /\ k = n + 1
    <3>1. channel'[d][k] = [query |-> q, part |-> i]
      BY <1>2, <1>5, <2>1
    <3>2. EngineOf(q, i) = d /\ frag'[q][i] = "queued" /\ ran'[q][i] = 0
      BY <1>2, <1>3, <1>4, <1>7, <2>1
    <3> QED
      BY <3>1, <3>2
  <2>2. CASE ~(d = e /\ k = n + 1)
    <3>1. k \in DOMAIN channel[d] /\ channel'[d][k] = channel[d][k]
      <4>1. CASE d # e
        BY <1>5, <4>1
      <4>2. CASE d = e
        <5>1. k \in 1 .. n + 1 /\ k # n + 1
          BY <1>5, <2>2, <4>2
        <5>2. k \in 1 .. n
          BY <5>1
        <5> QED
          BY <1>5, <4>2, <5>2
      <4> QED
        BY <4>1, <4>2
    <3>2. PICK p \in Query : \E j \in Parts(p) :
             /\ channel[d][k] = [query |-> p, part |-> j]
             /\ EngineOf(p, j) = d /\ frag[p][j] = "queued" /\ ran[p][j] = 0
      BY <3>1, SentFacts
    <3>3. PICK j \in Parts(p) :
             /\ channel[d][k] = [query |-> p, part |-> j]
             /\ EngineOf(p, j) = d /\ frag[p][j] = "queued" /\ ran[p][j] = 0
      BY <3>2
    <3>4. p # q \/ j # i
      BY <1>3, <3>3
    <3>5. frag'[p][j] = "queued" /\ ran'[p][j] = 0
      BY <1>3, <1>4, <3>3, <3>4
    <3> QED
      BY <3>1, <3>3, <3>5
  <2> QED
    BY <2>1, <2>2
<1>10. ASSUME NEW d \in Engine, NEW k \in DOMAIN channel'[d], NEW l \in DOMAIN channel'[d],
              channel'[d][k] = channel'[d][l]
       PROVE  k = l
  <2>1. CASE d # e
    <3>1. channel'[d] = channel[d]
      BY <1>5, <2>1
    <3> QED
      BY <1>1, <1>10, <3>1 DEF SentOnce
  <2>2. CASE d = e
    <3>1. k \in 1 .. n + 1 /\ l \in 1 .. n + 1
      BY <1>5, <2>2
    <3>2. \A j \in 1 .. n : channel'[e][j] # m
      BY <1>5, <1>8
    <3>3. CASE k = n + 1 \/ l = n + 1
      BY <1>5, <1>10, <2>2, <3>1, <3>2, <3>3
    <3>4. CASE k \in 1 .. n /\ l \in 1 .. n
      <4>1. channel[e][k] = channel[e][l] /\ k \in DOMAIN channel[e] /\ l \in DOMAIN channel[e]
        BY <1>5, <1>10, <2>2, <3>4
      <4> QED
        BY <1>1, <4>1 DEF SentOnce
    <3> QED
      BY <3>1, <3>3, <3>4
  <2> QED
    BY <2>1, <2>2
<1>11. \A w \in Worker \ alive' : channel'[w] = <<>>
  <2>1. ASSUME NEW w \in Worker \ alive PROVE w \in Engine \ {e}
    BY <1>3, <2>1 DEF Reachable, Engine
  <2> QED
    BY <1>1, <1>3, <1>5, <2>1 DEF SentOnce
<1>12. SentOnce'
  BY <1>3, <1>9, <1>10, <1>11, SentMoves
<1>13. PlansSound' /\ RanSound' /\ AnswersSound'
  <2>1. /\ \A p \in Query : DOMAIN frag'[p] = Parts(p) /\ DOMAIN ran'[p] = Parts(p)
        /\ \A p \in Query : \A k \in Parts(p) : p # q \/ k # i =>
               frag'[p][k] = frag[p][k] /\ ran'[p][k] = ran[p][k]
    BY <1>1, <1>3, <1>4 DEF PlansSound
  <2>2. /\ query[q] = "ok" => frag'[q][i] = frag[q][i]
        /\ ran'[q][i] = 0 /\ ran'[q][i] \in {0, 1}
        /\ frag'[q][i] = "unsent" => ran'[q][i] = 0
        /\ frag'[q][i] = "ok" => ran'[q][i] = 1
    BY <1>3, <1>4, <1>7
  <2> QED
    BY <1>3, <2>1, <2>2, FragmentMoves
<1> QED
  BY <1>6, <1>12, <1>13 DEF ScatterInv

(* Unreachable: the engine's channel went with its process.                *)
LEMMA UnreachableStep ==
    ASSUME ScatterInv, NEW q \in Query, NEW i \in Parts(q), Unreachable(q, i)
    PROVE  ScatterInv'
<1>1. TypeOK /\ PlansSound /\ SentOnce /\ RanSound
  BY DEF ScatterInv
<1>2. /\ query[q] = "waiting" /\ frag[q][i] # "ok"
      /\ ~Reachable(EngineOf(q, i)) /\ Set(q, i, "err")
      /\ UNCHANGED <<fit, standing, alive, offered, restarts, query, plan, channel, ran, answer, errors>>
  BY DEF Unreachable, membership
<1>3. /\ frag' \in [Query -> Seq(FragState)]
      /\ \A p \in Query : DOMAIN frag'[p] = Parts(p)
      /\ frag'[q][i] = "err"
      /\ \A p \in Query : \A k \in Parts(p) : p # q \/ k # i => frag'[p][k] = frag[p][k]
  <2>1. "err" \in FragState
    BY DEF FragState
  <2> QED
    BY <1>1, <1>2, <2>1, SetTyped DEF PlansSound
<1>4. TypeOK'
  BY <1>1, <1>2, <1>3 DEF TypeOK
<1>5. ASSUME NEW d \in Engine, NEW k \in DOMAIN channel[d]
      PROVE  d # EngineOf(q, i)
  <2>1. channel[d] # <<>>
    BY <1>5
  <2>2. d = Coord \/ d \in alive
    BY <1>1, <2>1 DEF SentOnce, Engine
  <2> QED
    BY <1>2, <2>2 DEF Reachable
<1>6. ASSUME NEW d \in Engine, NEW k \in DOMAIN channel'[d]
      PROVE  \E p \in Query : \E j \in Parts(p) :
               /\ channel'[d][k] = [query |-> p, part |-> j]
               /\ EngineOf(p, j) = d /\ frag'[p][j] = "queued" /\ ran'[p][j] = 0
  <2>1. k \in DOMAIN channel[d] /\ channel'[d] = channel[d]
    BY <1>2
  <2>2. PICK p \in Query : \E j \in Parts(p) :
           /\ channel[d][k] = [query |-> p, part |-> j]
           /\ EngineOf(p, j) = d /\ frag[p][j] = "queued" /\ ran[p][j] = 0
    BY <2>1, SentFacts
  <2>3. PICK j \in Parts(p) :
           /\ channel[d][k] = [query |-> p, part |-> j]
           /\ EngineOf(p, j) = d /\ frag[p][j] = "queued" /\ ran[p][j] = 0
    BY <2>2
  <2>4. p # q \/ j # i
    BY <1>5, <2>1, <2>3
  <2>5. frag'[p][j] = "queued" /\ ran'[p][j] = 0
    BY <1>2, <1>3, <2>3, <2>4
  <2> QED
    BY <2>1, <2>3, <2>5
<1>7. SentOnce'
  <2>1. /\ \A e \in Engine : \A k, l \in DOMAIN channel'[e] :
             channel'[e][k] = channel'[e][l] => k = l
        /\ \A w \in Worker \ alive' : channel'[w] = <<>>
    BY <1>1, <1>2 DEF SentOnce
  <2> QED
    BY <1>2, <1>6, <2>1, SentMoves
<1>8. PlansSound' /\ RanSound' /\ AnswersSound'
  <2>1. /\ \A p \in Query : DOMAIN frag'[p] = Parts(p) /\ DOMAIN ran'[p] = Parts(p)
        /\ \A p \in Query : \A k \in Parts(p) : p # q \/ k # i =>
               frag'[p][k] = frag[p][k] /\ ran'[p][k] = ran[p][k]
    BY <1>1, <1>2, <1>3 DEF PlansSound
  <2>2. /\ query[q] = "ok" => frag'[q][i] = frag[q][i]
        /\ ran'[q][i] \in {0, 1}
        /\ frag'[q][i] = "unsent" => ran'[q][i] = 0
        /\ frag'[q][i] = "ok" => ran'[q][i] = 1
    BY <1>1, <1>2, <1>3 DEF RanSound
  <2> QED
    BY <1>2, <2>1, <2>2, FragmentMoves
<1> QED
  BY <1>4, <1>7, <1>8 DEF ScatterInv

(* Run: an engine takes the fragment at the head of its channel, which it  *)
(* has not run; whoever waits for it learns of it, an ended query nothing. *)
LEMMA RunStep ==
    ASSUME ScatterInv, NEW e \in Engine, Run(e)
    PROVE  ScatterInv'
<1>1. TypeOK /\ PlansSound /\ SentOnce /\ RanSound
  BY DEF ScatterInv
<1>2. PICK s \in Seq([query : Query, part : Nat]) :
         /\ s = channel[e] /\ s # <<>> /\ Len(s) \in Nat /\ DOMAIN s = 1 .. Len(s)
  BY <1>1, ChannelTyped, LenProperties DEF Run
<1>3. /\ 1 \in DOMAIN s /\ Head(s) = s[1]
      /\ Tail(s) \in Seq([query : Query, part : Nat])
      /\ DOMAIN Tail(s) = 1 .. Len(s) - 1
      /\ \A k \in 1 .. Len(s) - 1 : k + 1 \in DOMAIN s /\ Tail(s)[k] = s[k + 1]
  <2>1. /\ Tail(s) \in Seq([query : Query, part : Nat]) /\ Len(Tail(s)) = Len(s) - 1
        /\ \A k \in 1 .. Len(Tail(s)) : Tail(s)[k] = s[k + 1]
        /\ Head(s) = s[1]
    BY <1>2, HeadTailProperties
  <2>2. Len(s) # 0
    BY <1>2, EmptySeq
  <2>3. 1 \in 1 .. Len(s) /\ \A k \in 1 .. Len(s) - 1 : k + 1 \in 1 .. Len(s)
    BY <1>2, <2>2
  <2>4. DOMAIN Tail(s) = 1 .. Len(s) - 1
    BY <2>1, LenProperties
  <2> QED
    BY <1>2, <2>1, <2>3, <2>4
<1>4. PICK q \in Query : \E j \in Parts(q) :
         /\ s[1] = [query |-> q, part |-> j]
         /\ EngineOf(q, j) = e /\ frag[q][j] = "queued" /\ ran[q][j] = 0
  <2>1. PICK k \in DOMAIN channel[e] : k = 1 /\ channel[e][k] = s[1]
    BY <1>2, <1>3
  <2>2. \E p \in Query : \E j \in Parts(p) :
          /\ channel[e][k] = [query |-> p, part |-> j]
          /\ EngineOf(p, j) = e /\ frag[p][j] = "queued" /\ ran[p][j] = 0
    BY SentFacts
  <2> QED
    BY <2>1, <2>2
<1>5. PICK i \in Parts(q) :
         /\ s[1] = [query |-> q, part |-> i]
         /\ EngineOf(q, i) = e /\ frag[q][i] = "queued" /\ ran[q][i] = 0
  BY <1>4
<1>6. /\ ran' = [ran EXCEPT ![q] = [ran[q] EXCEPT ![i] = ran[q][i] + 1]]
      /\ Reply(q, i)
      /\ channel' = [channel EXCEPT ![e] = Tail(s)]
      /\ UNCHANGED <<fit, standing, alive, offered, restarts, query, plan, answer>>
      /\ Reachable(e)
  <2>1. Head(channel[e]).query = q /\ Head(channel[e]).part = i
    BY <1>2, <1>3, <1>5
  <2> QED
    BY <1>2, <2>1 DEF Run, RunFragment, membership
<1>7. /\ ran' \in [Query -> Seq(Nat)]
      /\ \A p \in Query : DOMAIN ran'[p] = Parts(p)
      /\ ran'[q][i] = 1
      /\ \A p \in Query : \A k \in Parts(p) : p # q \/ k # i => ran'[p][k] = ran[p][k]
  <2>1. ran[q] \in Seq(Nat) /\ DOMAIN ran[q] = Parts(q) /\ ran \in [Query -> Seq(Nat)]
    BY <1>1 DEF TypeOK, PlansSound
  <2>2. i \in 1 .. Len(ran[q]) /\ ran[q][i] + 1 = 1
    BY <1>5, <2>1, LenProperties
  <2>3. PICK t \in Seq(Nat) :
           /\ t = [ran[q] EXCEPT ![i] = ran[q][i] + 1] /\ DOMAIN t = Parts(q) /\ t[i] = 1
           /\ \A k \in Parts(q) : k # i => t[k] = ran[q][k]
    <3>1. [ran[q] EXCEPT ![i] = ran[q][i] + 1] \in Seq(Nat)
      BY <2>1, <2>2, ExceptSeq
    <3> QED
      BY <2>1, <2>2, <3>1
  <2>4. ran' = [ran EXCEPT ![q] = t]
    BY <1>6, <2>3
  <2> QED
    BY <1>1, <2>1, <2>3, <2>4 DEF PlansSound
<1>8. /\ frag' \in [Query -> Seq(FragState)]
      /\ \A p \in Query : DOMAIN frag'[p] = Parts(p)
      /\ frag'[q][i] \in FragState \ {"unsent"}
      /\ query[q] # "waiting" => frag'[q][i] = frag[q][i]
      /\ \A p \in Query : \A k \in Parts(p) : p # q \/ k # i => frag'[p][k] = frag[p][k]
      /\ errors' \in Nat
  <2>1. CASE query[q] # "waiting" /\ UNCHANGED <<frag, errors>>
    BY <1>1, <1>5, <2>1 DEF TypeOK, PlansSound, FragState
  <2>2. CASE query[q] = "waiting" /\ Set(q, i, "ok") /\ UNCHANGED errors
    <3>1. "ok" \in FragState \ {"unsent"}
      BY DEF FragState
    <3>2. errors' \in Nat
      BY <1>1, <2>2 DEF TypeOK
    <3>3. /\ frag' \in [Query -> Seq(FragState)]
          /\ \A p \in Query : DOMAIN frag'[p] = DOMAIN frag[p]
          /\ frag'[q][i] = "ok"
          /\ \A p \in Query : \A k \in Parts(p) : p # q \/ k # i => frag'[p][k] = frag[p][k]
      BY <1>1, <2>2, <3>1, SetTyped
    <3>4. \A p \in Query : DOMAIN frag'[p] = Parts(p)
      BY <1>1, <3>3 DEF PlansSound
    <3> QED
      BY <2>2, <3>1, <3>2, <3>3, <3>4
  <2>3. CASE query[q] = "waiting" /\ Set(q, i, "err") /\ Error
    <3>1. "err" \in FragState \ {"unsent"}
      BY DEF FragState
    <3>2. errors' \in Nat
      BY <1>1, <2>3 DEF Error, TypeOK
    <3>3. /\ frag' \in [Query -> Seq(FragState)]
          /\ \A p \in Query : DOMAIN frag'[p] = DOMAIN frag[p]
          /\ frag'[q][i] = "err"
          /\ \A p \in Query : \A k \in Parts(p) : p # q \/ k # i => frag'[p][k] = frag[p][k]
      BY <1>1, <2>3, <3>1, SetTyped
    <3>4. \A p \in Query : DOMAIN frag'[p] = Parts(p)
      BY <1>1, <3>3 DEF PlansSound
    <3> QED
      BY <2>3, <3>1, <3>2, <3>3, <3>4
  <2> QED
    BY <1>6, <2>1, <2>2, <2>3 DEF Reply
<1>9. /\ channel' \in [Engine -> Seq([query : Query, part : Nat])] /\ channel'[e] = Tail(s)
      /\ \A d \in Engine \ {e} : channel'[d] = channel[d]
  <2>1. PICK t \in Seq([query : Query, part : Nat]) : t = Tail(s)
    BY <1>3
  <2> QED
    BY <1>1, <1>6, <2>1 DEF TypeOK
<1>10. TypeOK'
  BY <1>1, <1>6, <1>7, <1>8, <1>9 DEF TypeOK
<1>11. ASSUME NEW d \in Engine, NEW k \in DOMAIN channel'[d]
       PROVE  \E l \in DOMAIN channel[d] : channel'[d][k] = channel[d][l] /\ (d = e => l # 1)
  <2>1. CASE d # e
    BY <1>9, <1>11, <2>1
  <2>2. CASE d = e
    <3>1. k \in 1 .. Len(s) - 1 /\ channel'[d][k] = s[k + 1] /\ k + 1 \in DOMAIN s
      BY <1>3, <1>9, <2>2
    <3>2. k + 1 # 1
      BY <1>2, <3>1
    <3> QED
      BY <1>2, <2>2, <3>1, <3>2
  <2> QED
    BY <2>1, <2>2
<1>12. ASSUME NEW d \in Engine, NEW k \in DOMAIN channel'[d]
       PROVE  \E p \in Query : \E j \in Parts(p) :
                /\ channel'[d][k] = [query |-> p, part |-> j]
                /\ EngineOf(p, j) = d /\ frag'[p][j] = "queued" /\ ran'[p][j] = 0
  <2>1. PICK l \in DOMAIN channel[d] : channel'[d][k] = channel[d][l] /\ (d = e => l # 1)
    BY <1>11
  <2>2. PICK p \in Query : \E j \in Parts(p) :
           /\ channel[d][l] = [query |-> p, part |-> j]
           /\ EngineOf(p, j) = d /\ frag[p][j] = "queued" /\ ran[p][j] = 0
    BY SentFacts
  <2>3. PICK j \in Parts(p) :
           /\ channel[d][l] = [query |-> p, part |-> j]
           /\ EngineOf(p, j) = d /\ frag[p][j] = "queued" /\ ran[p][j] = 0
    BY <2>2
  <2>4. p # q \/ j # i
    <3>1. SUFFICES ASSUME p = q, j = i PROVE FALSE
      OBVIOUS
    <3>2. d = e /\ channel[e][l] = channel[e][1] /\ l \in DOMAIN channel[e] /\ 1 \in DOMAIN channel[e]
      BY <1>2, <1>3, <1>5, <2>3, <3>1
    <3>3. l = 1
      BY <1>1, <3>2 DEF SentOnce
    <3> QED
      BY <2>1, <3>2, <3>3
  <2>5. frag'[p][j] = "queued" /\ ran'[p][j] = 0
    BY <1>7, <1>8, <2>3, <2>4
  <2> QED
    BY <2>1, <2>3, <2>5
<1>13. ASSUME NEW d \in Engine, NEW k \in DOMAIN channel'[d], NEW l \in DOMAIN channel'[d],
              channel'[d][k] = channel'[d][l]
       PROVE  k = l
  <2>1. CASE d # e
    <3>1. channel'[d] = channel[d]
      BY <1>9, <2>1
    <3> QED
      BY <1>1, <1>13, <3>1 DEF SentOnce
  <2>2. CASE d = e
    <3>1. k \in 1 .. Len(s) - 1 /\ l \in 1 .. Len(s) - 1
      BY <1>3, <1>9, <2>2
    <3>2. s[k + 1] = s[l + 1] /\ k + 1 \in DOMAIN s /\ l + 1 \in DOMAIN s
      BY <1>3, <1>9, <1>13, <2>2, <3>1
    <3>3. k + 1 = l + 1
      BY <1>1, <1>2, <3>2 DEF SentOnce
    <3> QED
      BY <1>2, <3>1, <3>3
  <2> QED
    BY <2>1, <2>2
<1>14. \A w \in Worker \ alive' : channel'[w] = <<>>
  <2>1. ASSUME NEW w \in Worker \ alive PROVE w \in Engine \ {e}
    BY <1>6, <2>1 DEF Reachable, Engine
  <2> QED
    BY <1>1, <1>6, <1>9, <2>1 DEF SentOnce
<1>15. SentOnce'
  BY <1>6, <1>12, <1>13, <1>14, SentMoves
<1>16. PlansSound' /\ RanSound' /\ AnswersSound'
  <2>1. /\ \A p \in Query : DOMAIN frag'[p] = Parts(p) /\ DOMAIN ran'[p] = Parts(p)
        /\ \A p \in Query : \A k \in Parts(p) : p # q \/ k # i =>
               frag'[p][k] = frag[p][k] /\ ran'[p][k] = ran[p][k]
    BY <1>7, <1>8
  <2>2. /\ query[q] = "ok" => frag'[q][i] = frag[q][i]
        /\ ran'[q][i] \in {0, 1}
        /\ frag'[q][i] = "unsent" => ran'[q][i] = 0
        /\ frag'[q][i] = "ok" => ran'[q][i] = 1
    BY <1>7, <1>8
  <2> QED
    BY <1>6, <2>1, <2>2, FragmentMoves
<1> QED
  BY <1>10, <1>15, <1>16 DEF ScatterInv

\* A step that changes nothing preserves the invariant.
LEMMA ScatterStutter == ASSUME ScatterInv, UNCHANGED vars PROVE ScatterInv'
<1>1. UNCHANGED <<fit, standing, alive, offered, query, plan, frag, ran, channel, answer, errors, restarts>>
  BY DEF vars, queryVars, fragVars, membership
<1>2. TypeOK'
  BY <1>1 DEF ScatterInv, TypeOK
<1>3. SentOnce
  BY DEF ScatterInv
<1>4. \A w \in Worker \ alive' : w \in alive => channel'[w] = <<>>
  BY <1>1
<1>5. PlansSound' /\ SentOnce' /\ RanSound' /\ AnswersSound'
  BY <1>1, <1>4, FragmentsStay
<1> QED
  BY <1>2, <1>5 DEF ScatterInv

\* Every step preserves the invariant.
LEMMA ScatterStep == ScatterInv /\ [Next]_vars => ScatterInv'
<1> SUFFICES ASSUME ScatterInv, [Next]_vars PROVE ScatterInv'
  OBVIOUS
<1>1. CASE PoolStep \/ RestartAll \/ \E w \in Worker : StopWorker(w)
  BY <1>1, OutsideStep
<1>2. ASSUME NEW q \in Query, QueryStep(q) PROVE ScatterInv'
  <2>1. CASE Start(q)
    BY <2>1, StartStep
  <2>2. CASE Fail(q)
    BY <2>2, OutsideStep
  <2>3. CASE Finish(q)
    BY <2>3, FinishStep
  <2>4. ASSUME NEW i \in Parts(q), Send(q, i) \/ Unreachable(q, i) PROVE ScatterInv'
    BY <2>4, SendStep, UnreachableStep
  <2> QED
    BY <1>2, <2>1, <2>2, <2>3, <2>4 DEF QueryStep
<1>3. ASSUME NEW e \in Engine, Run(e) PROVE ScatterInv'
  BY <1>3, RunStep
<1>4. CASE UNCHANGED vars
  BY <1>4, ScatterStutter
<1> QED
  BY <1>1, <1>2, <1>3, <1>4 DEF Next

(* Queries, plans, fragments, channels and answers keep their types.       *)
THEOREM TypeCorrect == Spec => []TypeOK
<1>1. ScatterInv => TypeOK
  BY DEF ScatterInv
<1> QED
  BY <1>1, ScatterInitInv, ScatterStep, PTL DEF Spec

(* An answer that succeeds holds every row of its workers once, under the  *)
(* contract of the query's strategy, and no fragment runs twice, whichever *)
(* workers stop, come back or answer late (execute_with_strategy,          *)
(* split_query, merge_results, execute_fragment).                          *)
THEOREM EveryRowOnce == Spec => []AnswerExact
BY ScatterInitInv, ScatterStep, AnswersExact, PTL DEF Spec
================================================================================
