----------------------------- MODULE KafkaIngest -----------------------------
(***************************************************************************)
(* The Kafka consumer (opensnow-ingest/kafka.rs): messages are buffered    *)
(* until the batch is full or the interval is over, and a batch becomes    *)
(* one Parquet file.  The schema is that of the first message that has     *)
(* one.  The client commits the offsets of delivered messages by itself,   *)
(* whatever has been written; a new process starts at the committed one.   *)
(* A message may hold no record: a tombstone has no payload and is passed  *)
(* over, a blank payload is buffered and reads as nothing.                 *)
(* Kafka is external: it delivers the messages of one partition in order.  *)
(***************************************************************************)
EXTENDS Naturals, Sequences, FiniteSets

CONSTANTS Topic,         \* the messages of the partition, each a shape, "junk",
                         \* "blank" or "tombstone"
          BatchSize,     \* batch_size
          MaxKafkaFaults,\* bound: files that cannot be written
          MaxKafkaCrashes\* bound: ends of the process

ASSUME KafkaAssumption == /\ Topic \in Seq(STRING \ {"none"})
                          /\ {BatchSize, MaxKafkaFaults, MaxKafkaCrashes} \subseteq Nat

VARIABLES position,   \* messages delivered to this process
          committed,  \* offset the group has committed
          buf,        \* offsets buffered
          schema,     \* inferred schema, or "none"
          due,        \* the flush interval is over
          stored,     \* history: offsets in Parquet files
          discarded,  \* history: batches given up
          kafkaFaults, kafkaCrashes

kafkaVars == <<position, committed, buf, schema, due, stored, discarded,
               kafkaFaults, kafkaCrashes>>

KafkaInit ==
    /\ position = 0 /\ committed = 0 /\ buf = {} /\ schema = "none" /\ due = FALSE
    /\ stored = [m \in DOMAIN Topic |-> 0] /\ discarded = {}
    /\ kafkaFaults = 0 /\ kafkaCrashes = 0

IntervalEnds ==
    /\ ~due /\ due' = TRUE
    /\ UNCHANGED <<position, committed, buf, schema, stored, discarded,
                   kafkaFaults, kafkaCrashes>>

\* The client's timer.
AutoCommit ==
    /\ committed < position
    /\ committed' = position
    /\ UNCHANGED <<position, buf, schema, due, stored, discarded,
                   kafkaFaults, kafkaCrashes>>

Records == {m \in DOMAIN Topic : Topic[m] \notin {"tombstone", "blank"}}
Shaped == {m \in Records : Topic[m] # "junk"}

\* Mutant: only the first message is asked for a schema.
Infers_FirstOnly(m) == IF m = 1 /\ m \in Shaped THEN Topic[m] ELSE schema

Infers(m) == IF schema = "none" /\ m \in Shaped THEN Topic[m] ELSE schema

(* flush_batch reads the records of the batch with one schema, then writes *)
(* them; a batch without any is done with.  On an error, or without a      *)
(* schema, the batch is dropped.                                           *)
Flush(batch, with) ==
    LET held == batch \cap Records
        readable == with # "none" /\ \A m \in held : Topic[m] = with
        write == stored' = [m \in DOMAIN Topic |-> stored[m] + (IF m \in held THEN 1 ELSE 0)]
        drop(failed) == discarded' = discarded \cup {[batch |-> batch, failed |-> failed]}
    IN  \/ readable /\ write /\ UNCHANGED <<discarded, kafkaFaults>>
        \/ ~readable /\ drop(FALSE) /\ UNCHANGED <<stored, kafkaFaults>>
        \/ /\ readable /\ held # {} /\ kafkaFaults < MaxKafkaFaults
           /\ kafkaFaults' = kafkaFaults + 1
           /\ drop(TRUE) /\ UNCHANGED stored

Settle(batch, with) ==
    IF Cardinality(batch) >= BatchSize \/ (due /\ batch # {})
    THEN Flush(batch, with) /\ buf' = {} /\ due' = FALSE
    ELSE buf' = batch /\ UNCHANGED <<due, stored, discarded, kafkaFaults>>

\* One turn of the loop: a message, or the end of the interval without one.
Consume ==
    /\ position < Len(Topic) /\ position' = position + 1
    /\ schema' = Infers(position + 1)
    /\ Settle(IF Topic[position + 1] = "tombstone" THEN buf ELSE buf \cup {position + 1},
              Infers(position + 1))
    /\ UNCHANGED <<committed, kafkaCrashes>>

TimesOut ==
    /\ due /\ buf # {} /\ Settle(buf, schema)
    /\ UNCHANGED <<position, committed, schema, kafkaCrashes>>

KafkaCrash ==
    /\ kafkaCrashes < MaxKafkaCrashes /\ kafkaCrashes' = kafkaCrashes + 1
    /\ position' = committed /\ buf' = {} /\ schema' = "none" /\ due' = FALSE
    /\ UNCHANGED <<committed, stored, discarded, kafkaFaults>>

KafkaNext == Consume \/ TimesOut \/ IntervalEnds \/ AutoCommit \/ KafkaCrash
KafkaSpec == KafkaInit /\ [][KafkaNext]_kafkaVars

-------------------------------------------------------------------------------
FirstShape == IF Shaped = {} THEN "none"
              ELSE Topic[CHOOSE m \in Shaped : \A n \in Shaped : m <= n]

(* While the process lives, a message it was delivered that holds a record *)
(* is buffered, or in one file, or was given up with its batch; a batch    *)
(* with a record is given up only when its file cannot be written or one   *)
(* of its records does not fit the first shape, never for want of a schema *)
(* and never for the tombstones and blanks around it (KafkaIngester::run). *)
ConsumedOnce ==
    kafkaCrashes = 0 => \A m \in Records : m <= position =>
        LET givenUp == {d \in discarded : m \in d.batch}
        IN  /\ stored[m] + Cardinality(givenUp) = IF m \in buf THEN 0 ELSE 1
            /\ \A d \in givenUp :
                   d.failed \/ \E n \in d.batch \cap Records : Topic[n] # FirstShape
===============================================================================
