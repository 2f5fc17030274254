------------------------------ MODULE PgExport ------------------------------
(***************************************************************************)
(* The export of a query's result into a table of another PostgreSQL       *)
(* server (pg_sink.rs, POST /api/v1/export/postgres).  Nothing ties its    *)
(* statements together: each commits by itself, an error or the timeout    *)
(* leaves what was done, and a statement that was under way when the       *)
(* export gave up may still be executed by the other server.               *)
(***************************************************************************)
EXTENDS Integers, FiniteSets

CONSTANTS Exports,      \* the requests; each runs once
          MaxTrouble    \* how many errors and timeouts the network has

VARIABLES target,   \* the table over there: does it exist, and its rows
          export,   \* each request
          late,     \* statements that outlived their request
          trouble

exportVars == <<target, export, late, trouble>>

Old == "old"    \* who wrote the rows that are there at the start
RowsFrom(e, n) == {<<e, k>> : k \in 1..n}

NotStarted == [at |-> "waiting", mode |-> "append", chunks |-> 0, written |-> 0,
               alone |-> TRUE, before |-> {}, left |-> {}]

ExportInit == /\ target \in {[exists |-> TRUE, rows |-> RowsFrom(Old, 1)],
                             [exists |-> FALSE, rows |-> {}]}
              /\ export = [e \in Exports |-> NotStarted]
              /\ late = {} /\ trouble = 0

Running(e) == export[e].at \notin {"waiting", "done", "failed"}
Busy(e) == Running(e) \/ \E s \in late : s.of = e

\* The query has run; its rows come in `chunks' INSERT statements.
StartExport(e, mode, chunks) ==
    /\ export[e].at = "waiting"
    /\ export' = [f \in Exports |->
         IF f = e THEN [at |-> "connect", mode |-> mode, chunks |-> chunks, written |-> 0,
                        alone |-> \A g \in Exports \ {e} : ~Busy(g),
                        before |-> target.rows, left |-> {}]
         ELSE [export[f] EXCEPT !.alone = @ /\ ~Running(f)]]
    /\ UNCHANGED <<target, late, trouble>>

\* The statement that a running export executes now.
Statement(e) == [of |-> e, kind |-> export[e].at, chunk |-> export[e].written + 1]

\* What the other server makes of a statement.
Succeeds(s) == CASE s.kind = "create" -> ~target.exists
                 [] s.kind = "insert" -> target.exists
                 [] OTHER -> TRUE
Effect(s) == CASE s.kind = "drop" -> [exists |-> FALSE, rows |-> {}]
               [] s.kind = "create" -> [exists |-> TRUE, rows |-> {}]
               [] s.kind = "insert" -> [target EXCEPT !.rows = @ \cup {<<s.of, s.chunk>>}]
               [] OTHER -> target

\* A replace that forgets to start from an empty table.
FollowedBy_KeepsTable(at, mode, more) ==
    CASE at = "connect" -> "schema"
      [] OTHER -> IF more THEN "insert" ELSE "done"

FollowedBy(at, mode, more) ==
    CASE at = "connect" -> "schema"
      [] at = "schema" /\ mode = "replace" -> "drop"
      [] at = "drop" -> "create"
      [] OTHER -> IF more THEN "insert" ELSE "done"

\* One statement succeeds, or the server refuses it.
ExecuteStatement(e) ==
    LET s == Statement(e)
        x == export[e]
        written == x.written + IF x.at = "insert" THEN 1 ELSE 0
        at == IF Succeeds(s) THEN FollowedBy(x.at, x.mode, written < x.chunks) ELSE "failed"
    IN  /\ Running(e)
        /\ target' = IF Succeeds(s) THEN Effect(s) ELSE target
        /\ export' = [export EXCEPT ![e] = [x EXCEPT !.at = at,
                        !.written = IF Succeeds(s) THEN written ELSE x.written,
                        !.left = IF at = "done" THEN target'.rows ELSE x.left]]
        /\ UNCHANGED <<late, trouble>>

GivesUp(e) == /\ Running(e)
              /\ trouble < MaxTrouble /\ trouble' = trouble + 1
              /\ export' = [export EXCEPT ![e].at = "failed"]
              /\ UNCHANGED target

ConnectionFails(e) == GivesUp(e) /\ UNCHANGED late

\* The connection closes behind the last statement it sent.
TimesOutInLoad(e) == export[e].at # "connect" /\ GivesUp(e) /\ late' = late \cup {Statement(e)}

StatementLands(s) == /\ s \in late /\ late' = late \ {s}
                     /\ target' = IF Succeeds(s) THEN Effect(s) ELSE target
                     /\ UNCHANGED <<export, trouble>>

ExportNext ==
    \/ \E e \in Exports : \/ \E mode \in {"append", "replace"}, n \in 0..2 :
                              StartExport(e, mode, n)
                          \/ ExecuteStatement(e) \/ ConnectionFails(e) \/ TimesOutInLoad(e)
    \/ \E s \in late : StatementLands(s)

ExportSpec == ExportInit /\ [][ExportNext]_exportVars

-----------------------------------------------------------------------------
(* What an export reports it did is there: one that no other export, and no *)
(* late statement of one, ran beside leaves exactly its rows (replace), or  *)
(* the earlier ones and its own (append); and whoever ran beside it, the    *)
(* rows it reports are the ones it inserted.                                *)
ExportExact ==
    \A e \in Exports : export[e].at = "done" =>
        LET x == export[e] IN
        /\ x.written = x.chunks
        /\ x.alone => x.left = RowsFrom(e, x.chunks)
                                \cup IF x.mode = "append" THEN x.before ELSE {}
=============================================================================
