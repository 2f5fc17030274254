------------------------------- MODULE MCFeeds -------------------------------
(***************************************************************************)
(* The three ways rows come in without a statement: the HTTP buffer with   *)
(* its compactor, the pipes that watch directories, and the Kafka          *)
(* consumer.  They share no state, so each behaviour exercises one of them *)
(* and the run adds their state spaces instead of multiplying them.        *)
(***************************************************************************)
EXTENDS IngestBuffer, FilePipes, KafkaIngest, TLC

CONSTANTS r1, r2, r3, p1, p2, c1, c2, f1, f2

VARIABLE area  \* the component this behaviour exercises

Tenants == {"default", "acme"}
OneTable == {"events"}
Rows3 == {r1, r2, r3}
Rows2 == {r1, r2}
\* Two rows give the same field a scalar and an object.
MixedShape == (r1 :> "scalar") @@ (r2 :> "object")
MixedShape3 == MixedShape @@ (r3 :> "scalar")
PlainNames == {"events", "acme__events", "default__events"}
PlainPrefixed == [k \in [tenant : Tenants, table : OneTable] |->
    IF k.tenant = "acme" THEN "acme__events" ELSE "default__events"]

\* Two directories with a file of the same name in each, a pipe on either.
MCPlace == (f1 :> "d1") @@ (f2 :> "d2")
MCFileName == (f1 :> "n") @@ (f2 :> "n")
MCWatches == (p1 :> "d1") @@ (p2 :> "d2")

\* Messages without a record or a schema, and one of another shape, among the
\* others.
MCTopic == <<"junk", "tombstone", "a", "blank", "b", "a">>
NoTopic == <<>>

ASSUME PrefixedApart == NamesApart

FeedsInit ==
    /\ area \in {"buffer", "pipes", "kafka"}
    /\ Init /\ PipesInit /\ KafkaInit
    /\ area # "buffer" => current = [tenant |-> "acme", table |-> "events"]

InBuffer(A) == area = "buffer" /\ A /\ UNCHANGED <<area, pipeVars, kafkaVars>>
InPipes(A) == area = "pipes" /\ A /\ UNCHANGED <<area, vars, kafkaVars>>

FeedsNext ==
    \/ InBuffer(Next)
    \/ InPipes(PipesNext)
    \/ area = "kafka" /\ KafkaNext /\ UNCHANGED <<area, vars, pipeVars>>

feedsVars == <<area, vars, pipeVars, kafkaVars>>

\* The fairness of IngestBuffer and of FilePipes, each in its own behaviours.
FeedsFairness ==
    /\ WF_feedsVars(InBuffer(Compactor)) /\ WF_feedsVars(InBuffer(IntervalElapses))
    /\ \A w \in 1..MaxTasks : WF_feedsVars(InPipes(WatcherStep(w)))

FeedsSpec == FeedsInit /\ [][FeedsNext]_feedsVars /\ FeedsFairness
=============================================================================
