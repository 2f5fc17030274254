------------------------------- MODULE AgentTools -------------------------------
(***************************************************************************)
(* What the tools of opensnow-agent change (platform_tools.rs,             *)
(* warehouse_tools.rs, agent_tools.rs, schema_refactor_task.rs; called     *)
(* from mcp.rs): dbt model files, the schedule file, Metabase dashboards,  *)
(* saved charts, and the engine's tables.  An MCP server handles one call  *)
(* at a time, and several of them work on one project: the calls of each   *)
(* agent are a sequence, those of two agents interleave at every file,     *)
(* HTTP call and statement.                                                *)
(***************************************************************************)
EXTENDS Naturals, FiniteSets

CONSTANTS Agents,        \* MCP servers and agent tasks on one project
          ModelNames,    \* dbt models
          Relations,     \* tables of the engine
          MaxCards,      \* bound: cards asked for a dashboard
          MaxToolCalls,  \* bound
          MaxToolFaults  \* bound: file operations and HTTP calls that fail

VARIABLES agent,       \* the tool call each agent is in
          files,       \* models/<layer>/<name>.sql: the call that wrote it, all or not
          schedule,    \* opensnow_schedule.json: what was set last
          cards,       \* Metabase cards made so far
          boards,      \* Metabase dashboards: cards asked for, placed, link, and
                       \* (history) the cards whose answer could not be read
          statements,  \* statements of the charts that were posted
          tables,      \* tables of the engine
          mentioned,   \* tables the query history names
          toolCalls, toolFaults,
          written,     \* history: the call that last wrote each model, or 0
          cutOff,      \* history: calls that failed within the write of a model
          contended    \* history: models two calls were at work on at once

toolVars == <<agent, files, schedule, cards, boards, statements, tables, mentioned,
              toolCalls, toolFaults, written, cutOff, contended>>

NoTool == [at |-> "idle"]
Layers == {"staging", "marts"}

ToolsInit ==
    /\ agent = [a \in Agents |-> NoTool]
    /\ files = {} /\ schedule = "none" /\ cards = 0 /\ boards = {} /\ statements = {}
    /\ tables = {} /\ mentioned = {} /\ toolCalls = 0 /\ toolFaults = 0
    /\ written = [n \in ModelNames |-> 0] /\ contended = {} /\ cutOff = {}

(* handle_tool_call: an agent that is free takes a call.                   *)
Takes(a) == agent[a] = NoTool /\ toolCalls < MaxToolCalls /\ toolCalls' = toolCalls + 1
Is(a, step) == agent[a].at = step
Done(a) == agent' = [agent EXCEPT ![a] = NoTool]

ToolFault == toolFaults < MaxToolFaults /\ toolFaults' = toolFaults + 1
FileVars == <<files, written, cutOff>>
BoardVars == <<cards, boards>>
EngineVars == <<tables, mentioned>>

-------------------------------------------------------------------------------
\* dbt models: find_model walks the directories, the rest acts on that path.

Found(n) == {f \in files : f.name = n}
AtModel(n) == {a \in Agents : agent[a].at \in {"write", "fill", "delete"} /\ agent[a].name = n}
Meets(n) == contended' = IF AtModel(n) = {} THEN contended ELSE contended \cup {n}

\* Mutant: a layer that is given wins over the file that is there.
WriteModel_LayerFirst(a, n, layer) ==
    /\ Takes(a) /\ Meets(n)
    /\ \E l \in IF layer = "none" THEN (IF Found(n) = {} THEN {"marts"}
                                        ELSE {f.layer : f \in Found(n)}) ELSE {layer} :
          agent' = [agent EXCEPT ![a] = [at |-> "write", name |-> n, layer |-> l,
                                         call |-> toolCalls']]
    /\ UNCHANGED <<FileVars, schedule, BoardVars, statements, EngineVars, toolFaults>>

(* dbt_write_model: over the file that is there, otherwise into the layer  *)
(* asked for, by default `marts`.                                          *)
WriteModel(a, n, layer) ==
    /\ Takes(a) /\ Meets(n)
    /\ \E l \in IF Found(n) # {} THEN {f.layer : f \in Found(n)}
                ELSE {IF layer = "none" THEN "marts" ELSE layer} :
          agent' = [agent EXCEPT ![a] = [at |-> "write", name |-> n, layer |-> l,
                                         call |-> toolCalls']]
    /\ UNCHANGED <<FileVars, schedule, BoardVars, statements, EngineVars, toolFaults>>

ModelsIdle == <<schedule, BoardVars, statements, EngineVars, toolCalls, contended>>
Others(c) == {f \in files : f.name # c.name \/ f.layer # c.layer}
Written(c, whole) == [name |-> c.name, layer |-> c.layer, by |-> c.call, whole |-> whole]

(* std::fs::write creates or truncates the file, and then fills it.        *)
TruncateFile(a) ==
    /\ Is(a, "write") /\ agent' = [agent EXCEPT ![a].at = "fill"]
    /\ LET c == agent[a] IN
       /\ files' = Others(c) \cup {Written(c, FALSE)}
       /\ written' = [written EXCEPT ![c.name] = c.call]
    /\ UNCHANGED <<cutOff, toolFaults, ModelsIdle>>

FillFile(a) ==
    /\ Is(a, "fill") /\ Done(a)
    /\ LET c == agent[a] IN
       files' = IF files = Others(c) THEN files ELSE Others(c) \cup {Written(c, TRUE)}
    /\ UNCHANGED <<written, cutOff, toolFaults, ModelsIdle>>

(* The tool ends with the error of the file system, or with its process.   *)
FileFails(a) ==
    /\ agent[a].at \in {"write", "fill", "delete"} /\ ToolFault /\ Done(a)
    /\ cutOff' = IF Is(a, "fill") THEN cutOff \cup {agent[a].call} ELSE cutOff
    /\ UNCHANGED <<files, written, ModelsIdle>>

(* dbt_delete_model, and an error when there is none.                      *)
DeleteModel(a, n) ==
    /\ Takes(a) /\ Found(n) # {} /\ Meets(n)
    /\ \E f \in Found(n) :
          agent' = [agent EXCEPT ![a] = [at |-> "delete", name |-> n, layer |-> f.layer]]
    /\ UNCHANGED <<FileVars, schedule, BoardVars, statements, EngineVars, toolFaults>>

(* remove_file: an error when another call removed it first.               *)
RemoveFile(a) ==
    /\ Is(a, "delete") /\ Done(a)
    /\ LET c == agent[a] IN
       /\ files' = Others(c)
       /\ written' = IF files' = files THEN written ELSE [written EXCEPT ![c.name] = 0]
    /\ UNCHANGED <<cutOff, toolFaults, ModelsIdle>>

(* schedule_set: what is given replaces the file, or part of it does.      *)
SetSchedule(a, s) ==
    /\ Takes(a)
    /\ \/ schedule' = s /\ UNCHANGED toolFaults
       \/ schedule' \in {schedule, "torn"} /\ ToolFault
    /\ UNCHANGED <<agent, FileVars, BoardVars, statements, EngineVars, contended>>

-------------------------------------------------------------------------------
\* Dashboards: every step is a call of Metabase (mb_call).

DashboardCreate(a, n) ==
    /\ Takes(a)
    /\ agent' = [agent EXCEPT ![a] = [at |-> "cards", asked |-> n, made |-> {}, unread |-> 0]]
    /\ UNCHANGED <<FileVars, schedule, BoardVars, statements, EngineVars, toolFaults, contended>>

MetabaseIdle == <<FileVars, schedule, statements, EngineVars, toolCalls, contended>>

(* What Metabase does with each request.                                   *)
OnBoard(a, change(_)) ==
    /\ boards' = {IF b.id = agent[a].id THEN change(b) ELSE b : b \in boards}
    /\ UNCHANGED cards
NewCard == cards' = cards + 1 /\ UNCHANGED boards
NewBoard(a) ==
    /\ boards' = boards \cup
           {[id |-> Cardinality(boards) + 1, asked |-> agent[a].asked,
             unread |-> agent[a].unread, placed |-> {}, public |-> FALSE]}
    /\ UNCHANGED cards
Placed(a) == OnBoard(a, LAMBDA b : [b EXCEPT !.placed = agent[a].made])
Linked(a) == OnBoard(a, LAMBDA b : [b EXCEPT !.public = TRUE])

MoreCards(a) == Cardinality(agent[a].made) + agent[a].unread < agent[a].asked

(* A card whose answer is a success that cannot be read has no id (null),  *)
(* made or not, and the tool goes on.                                      *)
CreateCard(a) ==
    /\ Is(a, "cards") /\ MoreCards(a)
    /\ \/ /\ NewCard /\ UNCHANGED toolFaults
          /\ agent' = [agent EXCEPT ![a].made = @ \cup {cards + 1}]
       \/ /\ NewCard \/ UNCHANGED BoardVars
          /\ ToolFault /\ agent' = [agent EXCEPT ![a].unread = @ + 1]
    /\ UNCHANGED MetabaseIdle

(* Without the id of the board the tool ends with an error (MetabaseFails).*)
CreateBoard(a) ==
    /\ Is(a, "cards") /\ ~MoreCards(a) /\ NewBoard(a)
    /\ agent' = [agent EXCEPT ![a] =
           [at |-> "place", id |-> Cardinality(boards) + 1, made |-> @.made]]
    /\ UNCHANGED <<toolFaults, MetabaseIdle>>

(* The answer is not looked at: one that cannot be read may stand for a    *)
(* request that did not get to Metabase.                                   *)
PlaceCards(a) ==
    /\ Is(a, "place") /\ agent' = [agent EXCEPT ![a].at = "link"]
    /\ \/ Placed(a) /\ UNCHANGED toolFaults
       \/ OnBoard(a, LAMBDA b : [b EXCEPT !.unread = b.asked]) /\ ToolFault
    /\ UNCHANGED MetabaseIdle

PublicLink(a) ==
    /\ Is(a, "link") /\ Done(a) /\ Linked(a)
    /\ UNCHANGED <<toolFaults, MetabaseIdle>>

(* The tool ends with the error, whether the request was carried out or    *)
(* not; what it made so far stays.                                         *)
MetabaseFails(a) ==
    /\ agent[a].at \in {"cards", "place", "link"} /\ ToolFault /\ Done(a)
    /\ \/ UNCHANGED BoardVars
       \/ Is(a, "cards") /\ MoreCards(a) /\ NewCard
       \/ Is(a, "cards") /\ ~MoreCards(a) /\ NewBoard(a)
       \/ Is(a, "place") /\ Placed(a)
       \/ Is(a, "link") /\ Linked(a)
    /\ UNCHANGED MetabaseIdle

-------------------------------------------------------------------------------
\* Charts: chart_create posts a statement made of declared fields.

ChartTypes == {"bar", "line", "table"}  \* area and point are like line, arc like bar
ChartAggs == {"sum", "count", "none"}   \* avg, max and min are like sum

(* build_chart_sql: what is selected, with the plain columns apart from    *)
(* the aggregated ones; the grouping; the position of the ordering column. *)
ChartSql(type, agg, series) ==
    IF type = "table" THEN [plain |-> {"*"}, folded |-> {}, group |-> {}, order |-> 0]
    ELSE LET keys == {"x"} \cup (IF series THEN {"series"} ELSE {}) IN
         [plain |-> keys \cup (IF agg = "none" THEN {"y"} ELSE {}),
          folded |-> IF agg = "none" THEN {} ELSE {"y"},
          group |-> IF agg = "none" THEN {} ELSE keys,
          order |-> IF type = "line" THEN 1 ELSE 2]

ChartCreate(a, type, agg, series) ==
    /\ Takes(a)
    /\ statements' = statements \cup {ChartSql(type, agg, series)}
    /\ UNCHANGED <<agent, FileVars, schedule, BoardVars, EngineVars, toolFaults, contended>>

-------------------------------------------------------------------------------
\* The engine's tables, and the schema refactor task.

(* create_table, register_table and materialized_view_create add a name,   *)
(* table_drop and materialized_view_drop take it away, query and refresh   *)
(* read it.  Statements are recorded in the history.                       *)
EngineTool(a, kind, t) ==
    /\ Takes(a)
    /\ tables' = CASE kind = "add" -> tables \cup {t}
                   [] kind = "remove" -> tables \ {t}
                   [] OTHER -> tables
    /\ mentioned' = mentioned \cup {t}
    /\ UNCHANGED <<agent, FileVars, schedule, BoardVars, statements, toolFaults, contended>>

(* schema_introspect, then query_history: the candidates are tables of the *)
(* schema the history names, or those the caller gave, there or not.       *)
Refactor(a, given) ==
    /\ Takes(a)
    /\ \E candidates \in IF given = {} THEN SUBSET (tables \cap mentioned) ELSE {given} :
          agent' = [agent EXCEPT ![a] =
              [at |-> "smoke", todo |-> candidates, total |-> 0, passed |-> 0]]
    /\ UNCHANGED <<FileVars, schedule, BoardVars, statements, EngineVars, toolFaults, contended>>

(* migration_planner: the heuristic plan, or a model's, whose mart may not *)
(* be a CREATE TABLE ... AS SELECT, or which has no mart at all.           *)
Plans(t) == {[kind |-> "ctas_mart", select |-> TRUE], [kind |-> "ctas_mart", select |-> FALSE],
             [kind |-> "drop", select |-> FALSE]}

(* CREATE TABLE x AS SELECT ... is run as SELECT ..., others as SELECT 1.  *)
SmokeQuery(plan) == IF plan.select THEN "select" ELSE "one"

(* refactor_test runs the query of one mart; an error is a failed test.    *)
SmokeTest(a, t, plan) ==
    /\ Is(a, "smoke") /\ t \in agent[a].todo
    /\ LET q == SmokeQuery(plan)
           runs == plan.kind = "ctas_mart"
           ok == q # "select" \/ t \in tables
       IN /\ agent' = [agent EXCEPT ![a] =
                  [at |-> "smoke", todo |-> @.todo \ {t},
                   total |-> IF runs THEN @.total + 1 ELSE @.total,
                   passed |-> IF runs /\ ok THEN @.passed + 1 ELSE @.passed]]
          /\ tables' = IF runs /\ q = "create" THEN tables \cup {t} ELSE tables
          /\ mentioned' = IF runs /\ q # "one" THEN mentioned \cup {t} ELSE mentioned
    /\ UNCHANGED <<FileVars, schedule, BoardVars, statements, toolCalls, toolFaults, contended>>

Report(a) ==
    /\ Is(a, "smoke") /\ agent[a].todo = {} /\ Done(a)
    /\ UNCHANGED <<FileVars, schedule, BoardVars, statements, EngineVars, toolCalls, toolFaults,
                   contended>>

ToolsNext == \E a \in Agents :
    \/ \E n \in ModelNames : DeleteModel(a, n)
                                \/ \E l \in Layers \cup {"none"} : WriteModel(a, n, l)
    \/ TruncateFile(a) \/ FillFile(a) \/ RemoveFile(a) \/ FileFails(a)
    \/ \E s \in {"cron", "interval"} : SetSchedule(a, s)
    \/ \E n \in 1 .. MaxCards : DashboardCreate(a, n)
    \/ CreateCard(a) \/ CreateBoard(a) \/ PlaceCards(a) \/ PublicLink(a) \/ MetabaseFails(a)
    \/ \E type \in ChartTypes, agg \in ChartAggs, series \in BOOLEAN :
          ChartCreate(a, type, agg, series)
    \/ \E t \in Relations :
         \/ \E kind \in {"add", "remove", "read"} : EngineTool(a, kind, t)
         \/ \E plan \in Plans(t) : SmokeTest(a, t, plan)
    \/ \E given \in SUBSET Relations : Refactor(a, given)
    \/ Report(a)

ToolsSpec == ToolsInit /\ [][ToolsNext]_toolVars

-------------------------------------------------------------------------------
\* The write of a model that is under way, or was cut off by an error.
Unfinished(n) ==
    \/ written[n] \in cutOff
    \/ \E a \in Agents : Is(a, "fill") /\ agent[a].name = n /\ agent[a].call = written[n]

\* "Model names map 1:1 to <name>.sql": whatever layers the calls ask for,
\* a model that no two calls were at work on at once is one file, by the call
\* that wrote last, and all of it is there unless that write is not finished
\* (find_model, dbt_write_model, dbt_delete_model).
OneFilePerModel ==
    \A n \in ModelNames \ contended :
        IF written[n] = 0 THEN Found(n) = {}
        ELSE \E l \in Layers, whole \in BOOLEAN :
               /\ Found(n) = {[name |-> n, layer |-> l, by |-> written[n], whole |-> whole]}
               /\ whole \/ Unfinished(n)

\* A dashboard with a public link has all its cards but those whose answers
\* could not be read, no two share a card, and a chart's statement groups by
\* exactly the columns it selects plainly (dashboard_create, build_chart_sql).
PublishedIsWhole ==
    /\ \A b \in boards : b.public => b.asked <= Cardinality(b.placed) + b.unread
    /\ \A b, c \in boards : b.id # c.id => b.placed \cap c.placed = {}
    /\ \A s \in statements : s.folded # {} => s.plain = s.group

(* Whichever call failed and however the agents' calls interleave, what    *)
(* the tools leave for others is whole: one file for a model that is there *)
(* (unless two calls were at work on it at once), torn only while or after *)
(* a write that did not end well, and in public only dashboards that have  *)
(* every card Metabase acknowledged to them.                               *)
ToolsLeaveWhole == OneFilePerModel /\ PublishedIsWhole
===============================================================================
