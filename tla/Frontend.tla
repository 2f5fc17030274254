-------------------------------- MODULE Frontend --------------------------------
(***************************************************************************)
(* The surfaces that bring statements to the one engine: POST /query and   *)
(* the replacing or plain POST /ingest (opensnow-server/rest.rs), and the  *)
(* PostgreSQL protocol (pg.rs).  The engine (opensnow-core/                *)
(* engine_handle.rs) lives on a thread of its own behind a bounded channel *)
(* and answers through one-shot channels.  A query over HTTP gives up      *)
(* after its timeout, the engine does not; an HTTP client that goes away   *)
(* takes its handler along; a panic takes the engine along.                *)
(***************************************************************************)
EXTENDS Naturals, Sequences, FiniteSets

CONSTANTS Handlers,     \* requests
          ChannelCap,   \* messages the engine's channel holds
          MaxPanics,    \* bound: statements that end the engine's thread
          MaxHangups,   \* bound: clients that go away
          MaxTimeouts,  \* bound: timeouts that elapse
          MaxBadRows,   \* bound: CREATEs that fail by themselves
          MaxLost       \* bound: history rows that cannot be inserted

ASSUME FrontAssumption == IsFiniteSet(Handlers) /\ "none" \notin Handlers

VARIABLES handler,      \* requests: kind, place in the code, result
          queue,        \* the channel to the engine
          busy,         \* the message the engine works on, or Free
          alive,        \* the engine's thread
          gauge,        \* active queries, as /metrics shows them
          history,      \* query_history rows
          lost,         \* history: requests whose row could not be inserted
          tableOf,      \* the request whose rows the table holds, or "none"
          panics, hangups, timeouts, badRows,
          executed,     \* history: outcome of each statement the engine finished
          leaked,       \* history: handlers that went away while counted
          mayLack       \* history: a replace stopped between its two commands

frontVars == <<handler, queue, busy, alive, gauge, history, lost, tableOf, panics, hangups,
               timeouts, badRows, executed, leaked, mayLack>>

Free == [what |-> "free"]
Waiting == {"send", "wait"}
New == [at |-> "new", kind |-> "none", result |-> "none"]

FrontInit ==
    /\ handler = [h \in Handlers |-> New]
    /\ queue = <<>> /\ busy = Free /\ alive = TRUE
    /\ gauge = 0 /\ history = <<>> /\ lost = {} /\ tableOf = "none"
    /\ panics = 0 /\ hangups = 0 /\ timeouts = 0 /\ badRows = 0
    /\ executed = [h \in Handlers |-> <<>>] /\ leaked = {} /\ mayLack = FALSE

Bounds == <<panics, hangups, timeouts, badRows>>
EngineSide == <<busy, history, lost, tableOf, executed>>
Counted(h) == handler[h].kind \in {"query", "pg"}
Step(h, at) == handler' = [handler EXCEPT ![h].at = at]

-------------------------------------------------------------------------------
\* Handlers.

\* validate_demo_sql and check_sql refuse before anything is counted.
Refuse(h) ==
    /\ handler[h] = New
    /\ handler' = [handler EXCEPT ![h] = [at |-> "done", kind |-> "refused", result |-> "error"]]
    /\ UNCHANGED <<queue, alive, gauge, leaked, mayLack, EngineSide, Bounds>>

\* execute_query and do_query.
StartQuery(h, kind) ==
    /\ handler[h] = New
    /\ handler' = [handler EXCEPT ![h] = [at |-> "send", kind |-> kind, result |-> "none"]]
    /\ gauge' = gauge + 1
    /\ UNCHANGED <<queue, alive, leaked, mayLack, EngineSide, Bounds>>

\* Mutant: the new rows are created before the old table is dropped.
FirstCommand_CreateFirst(kind) == "create"

\* A replacing ingest drops the table first, and ignores how that went.
FirstCommand(kind) == IF kind = "replace" THEN "drop" ELSE "create"

StartIngest(h, kind) ==
    /\ handler[h] = New
    /\ handler' = [handler EXCEPT ![h] =
           [at |-> "send", kind |-> kind, result |-> "none", next |-> FirstCommand(kind)]]
    /\ UNCHANGED <<queue, alive, gauge, leaked, mayLack, EngineSide, Bounds>>

Command(h) == IF Counted(h) THEN "sql" ELSE handler[h].next

\* EngineHandle::execute_sql waits for room in the channel.
Send(h) ==
    /\ handler[h].at = "send" /\ alive /\ Len(queue) < ChannelCap
    /\ queue' = Append(queue, [what |-> Command(h), of |-> h])
    /\ Step(h, "wait")
    /\ UNCHANGED <<alive, gauge, leaked, mayLack, EngineSide, Bounds>>

\* Mutant: an error returns without the gauges being lowered.
Lower_SuccessOnly(h, result) ==
    gauge' = IF Counted(h) /\ result = "success" THEN gauge - 1 ELSE gauge

Lower(h, result) == gauge' = IF Counted(h) THEN gauge - 1 ELSE gauge

OtherCommand(c) == IF c = "drop" THEN "create" ELSE "drop"
SecondCommand(h) == handler[h].kind = "replace" /\ handler[h].next = FirstCommand("replace")

\* What the handler does with a result: a query is recorded, then answered.
Returned(h, result) ==
    IF Counted(h) THEN [handler[h] EXCEPT !.at = "record", !.result = result]
    ELSE IF SecondCommand(h)
         THEN [handler[h] EXCEPT !.at = "send", !.next = OtherCommand(@)]
         ELSE [handler[h] EXCEPT !.at = "done", !.result = result]

\* Mutant: only the sender finds out that the engine is gone.
EngineGone_Unsent(h) ==
    /\ handler[h].at = "send" /\ ~alive
    /\ handler' = [handler EXCEPT ![h] = Returned(h, "error")]
    /\ Lower(h, "error")
    /\ UNCHANGED <<queue, alive, leaked, mayLack, EngineSide, Bounds>>

\* The sender or the reply channel is closed: "engine worker died".
EngineGone(h) ==
    /\ handler[h].at \in Waiting /\ ~alive
    /\ handler' = [handler EXCEPT ![h] = Returned(h, "error")]
    /\ Lower(h, "error")
    /\ UNCHANGED <<queue, alive, leaked, mayLack, EngineSide, Bounds>>

\* The timeout of execute_query; a message already sent stays in the channel.
TimesOut(h) ==
    /\ handler[h].at \in Waiting /\ handler[h].kind = "query" /\ timeouts < MaxTimeouts
    /\ timeouts' = timeouts + 1
    /\ handler' = [handler EXCEPT ![h] = Returned(h, "timeout")]
    /\ Lower(h, "timeout")
    /\ UNCHANGED <<queue, alive, leaked, mayLack, EngineSide, panics, hangups, badRows>>

\* record_query_history_for_tenant needs room too; without an engine it is skipped.
Record(h) ==
    /\ handler[h].at = "record"
    /\ IF alive THEN /\ Len(queue) < ChannelCap
                     /\ queue' = Append(queue, [what |-> "history", of |-> h,
                                                status |-> handler[h].result])
       ELSE UNCHANGED queue
    /\ Step(h, "done")
    /\ UNCHANGED <<alive, gauge, leaked, mayLack, EngineSide, Bounds>>

\* An HTTP client that goes away: the handler is dropped where it waits.
HangUp(h) ==
    /\ handler[h].at \in Waiting \cup {"record"} /\ handler[h].kind # "pg"
    /\ hangups < MaxHangups /\ hangups' = hangups + 1
    /\ Step(h, "gone")
    /\ leaked' = IF Counted(h) /\ handler[h].at \in Waiting THEN leaked \cup {h} ELSE leaked
    /\ mayLack' = (mayLack \/ handler[h].kind = "replace")
    /\ UNCHANGED <<queue, alive, gauge, EngineSide, panics, timeouts, badRows>>

HandlerStep(h) == Send(h) \/ EngineGone(h) \/ Record(h)

-------------------------------------------------------------------------------
\* The engine's thread.

Take ==
    /\ alive /\ busy = Free /\ queue # <<>>
    /\ busy' = Head(queue) /\ queue' = Tail(queue)
    /\ UNCHANGED <<handler, alive, gauge, history, lost, tableOf, executed, leaked, mayLack, Bounds>>

\* A reply nobody waits for is dropped.
Reply(result) ==
    LET h == busy.of IN
    IF handler[h].at = "wait"
    THEN handler' = [handler EXCEPT ![h] = Returned(h, result)] /\ Lower(h, result)
    ELSE UNCHANGED <<handler, gauge>>

Finish(result) ==
    /\ busy' = Free
    /\ executed' = [executed EXCEPT ![busy.of] = Append(@, result)]
    /\ Reply(result)
    /\ UNCHANGED <<queue, alive, history, lost, leaked, panics, hangups, timeouts>>

ExecuteSql == \E result \in {"success", "error"} :
    /\ alive /\ busy.what = "sql"
    /\ Finish(result)
    /\ UNCHANGED <<tableOf, mayLack, badRows>>

ExecuteDrop ==
    /\ alive /\ busy.what = "drop"
    /\ tableOf' = "none"
    /\ Finish("success")
    /\ UNCHANGED <<mayLack, badRows>>

\* CREATE TABLE of a name that exists is an error; others come from the rows.
ExecuteCreate ==
    /\ alive /\ busy.what = "create"
    /\ \/ /\ tableOf = "none"
          /\ tableOf' = busy.of
          /\ Finish("success")
          /\ UNCHANGED <<badRows, mayLack>>
       \/ /\ tableOf # "none"
          /\ Finish("error")
          /\ UNCHANGED <<tableOf, badRows, mayLack>>
       \/ /\ badRows < MaxBadRows /\ badRows' = badRows + 1
          /\ mayLack' = TRUE
          /\ Finish("error")
          /\ UNCHANGED tableOf

\* Mutant: only what did not time out is kept.
KeepsRow_NotTimeouts(status) == status # "timeout"

KeepsRow(status) == TRUE

\* insert_query_record_for_tenant
HistoryRow(m) == [of |-> m.of, status |-> m.status]

RecordHistory ==
    /\ alive /\ busy.what = "history"
    /\ history' = IF KeepsRow(busy.status)
                  THEN Append(history, HistoryRow(busy)) ELSE history
    /\ busy' = Free
    /\ UNCHANGED <<handler, queue, alive, gauge, lost, tableOf, executed, leaked, mayLack, Bounds>>

\* An INSERT that fails is only logged: the history is best effort.
LoseHistory ==
    /\ alive /\ busy.what = "history" /\ Cardinality(lost) < MaxLost
    /\ lost' = lost \cup {busy.of}
    /\ busy' = Free
    /\ UNCHANGED <<handler, queue, alive, gauge, history, tableOf, executed, leaked, mayLack, Bounds>>

\* The thread unwinds: what is queued is dropped, and so are the reply channels.
EnginePanics ==
    /\ alive /\ busy # Free /\ busy.what # "history" /\ panics < MaxPanics
    /\ panics' = panics + 1
    /\ alive' = FALSE /\ busy' = Free /\ queue' = <<>>
    /\ mayLack' = TRUE
    /\ UNCHANGED <<handler, gauge, history, lost, tableOf, executed, leaked, hangups, timeouts,
                   badRows>>

\* The messages of the engine end: every statement terminates.
EngineStep == Take \/ ExecuteSql \/ ExecuteDrop \/ ExecuteCreate \/ RecordHistory \/ LoseHistory

FrontNext ==
    \/ \E h \in Handlers :
        \/ Refuse(h)
        \/ \E kind \in {"query", "pg"} : StartQuery(h, kind)
        \/ \E kind \in {"load", "replace"} : StartIngest(h, kind)
        \/ HandlerStep(h) \/ TimesOut(h) \/ HangUp(h)
    \/ EngineStep \/ EnginePanics

FrontFairness == WF_frontVars(EngineStep) /\ \A h \in Handlers : SF_frontVars(HandlerStep(h))
FrontSpec == FrontInit /\ [][FrontNext]_frontVars /\ FrontFairness

-------------------------------------------------------------------------------
Pending == {h \in Handlers : handler[h].at \in Waiting \cup {"record"}}

(* Every request is answered, through full channels, timeouts and the end  *)
(* of the engine: nobody waits for ever (execute_query, ingest, do_query). *)
EveryRequestAnswered ==
    \A h \in Handlers : h \in Pending ~> h \notin Pending

RowsSaying(h) ==
    {i \in DOMAIN history : history[i].of = h} \cup
    {i \in {Len(history) + k : k \in DOMAIN queue} :
        LET m == queue[i - Len(history)] IN m.what = "history" /\ m.of = h}
    \cup (IF busy.what = "history" /\ busy.of = h THEN {0} ELSE {})

(* What the server reports of its queries is what happened: the gauge      *)
(* counts the queries in progress (and those whose client went away), and  *)
(* while the engine lives a query that was answered has one history row,   *)
(* there or on its way, or none if its INSERT failed.  What the row or the *)
(* answer says is what the engine did.                                     *)
QueryAccounting ==
    /\ gauge = Cardinality({h \in Handlers : Counted(h) /\ handler[h].at \in Waiting} \cup leaked)
    /\ \A h \in Handlers : Counted(h) /\ handler[h].at = "done" =>
        /\ alive => Cardinality(RowsSaying(h)) = IF h \in lost THEN 0 ELSE 1
        /\ handler[h].result # "timeout" /\ alive => executed[h] = <<handler[h].result>>
    /\ \A i \in DOMAIN history : history[i].status = "success" =>
        executed[history[i].of] = <<"success">>

(* Replacing ingests of one table that interleave leave a table behind,    *)
(* the rows of one of them, unless one was cut off between its two         *)
(* commands or its rows could not be created (ingest).                     *)
ReplaceKeepsTable ==
    /\ ~mayLack /\ (\E h \in Handlers : handler[h].kind \in {"load", "replace"} /\ handler[h].at = "done")
       /\ (\A h \in Handlers : handler[h].kind = "replace" => handler[h].at = "done")
          => tableOf # "none"
    /\ tableOf # "none" => "success" \in {executed[tableOf][i] : i \in DOMAIN executed[tableOf]}
=================================================================================
