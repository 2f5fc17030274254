------------------------------- MODULE Workspace -------------------------------
(***************************************************************************)
(* Two background stores of the workspace page.  The dbt pipeline          *)
(* (opensnow-server/pipeline.rs): requests and a scheduler start `dbt run` *)
(* unless one is in flight; the page joins dbt's artifact files with the   *)
(* run state.  Saved charts (charts.rs): every handler reads the whole     *)
(* file, changes its copy and writes it back, without a lock.              *)
(***************************************************************************)
EXTENDS Naturals, Sequences, FiniteSets, SequencesExt

CONSTANTS Viewers,      \* GET /api/v1/pipeline in progress
          MaxRuns,      \* bound: runs ever started
          Savers,       \* chart handlers in progress
          ChartIds,     \* ids a spec may bring, or be given
          MaxCharts,    \* MAX_CHARTS
          MaxSaves,     \* bound: chart requests
          MaxTears      \* bound: writes of the file that do not finish

VARIABLES running,      \* RunState::running
          lastSuccess,  \* RunState::last_success, of run number `finished`
          finished,     \* RunState::last_finished: number of the last run that ended
          dbt,          \* dbt processes: run number -> "starting" .. "ended"
          launched,     \* runs started so far
          scheduler,    \* "asleep", or the run it waits for
          results,      \* run_results.json: the run that wrote it, and its status
          view          \* what each viewer has read

pipelineVars == <<running, lastSuccess, finished, dbt, launched, scheduler, results, view>>

VARIABLES charts,       \* charts.json: specs, or Torn
          saver,        \* chart handlers: their copies
          saves, tears,
          kept          \* history: charts answered "ok" and not deleted since

chartVars == <<charts, saver, saves, tears, kept>>

NoRun == [run |-> 0, ok |-> FALSE]
PipelineInit ==
    /\ running = FALSE /\ lastSuccess = FALSE /\ finished = 0
    /\ dbt = <<>> /\ launched = 0 /\ scheduler = "asleep"
    /\ results = NoRun
    /\ view = [v \in Viewers |-> [at |-> "idle"]]

-------------------------------------------------------------------------------
\* Starting a run: the check and the mark are one critical section.
Launch == /\ running' = TRUE
          /\ launched' = launched + 1
          /\ dbt' = Append(dbt, "working")

RunPipeline ==
    /\ launched < MaxRuns
    /\ ~running
    /\ Launch
    /\ UNCHANGED <<lastSuccess, finished, scheduler, results, view>>

\* Mutant: the scheduler does not look whether a run is in flight.
SchedulerFires_Overlaps ==
    /\ scheduler = "asleep" /\ launched < MaxRuns
    /\ Launch /\ scheduler' = "waiting"
    /\ UNCHANGED <<lastSuccess, finished, results, view>>

\* At a scheduled time: a run in flight means this time is skipped.
SchedulerFires ==
    /\ scheduler = "asleep" /\ launched < MaxRuns
    /\ ~running
    /\ Launch /\ scheduler' = "waiting"
    /\ UNCHANGED <<lastSuccess, finished, results, view>>

\* dbt writes its results before it exits; it may fail to start or before that.
DbtWrites(r) ==
    /\ dbt[r] = "working"
    /\ \E ok \in BOOLEAN : results' = [run |-> r, ok |-> ok]
    /\ dbt' = [dbt EXCEPT ![r] = "written"]
    /\ UNCHANGED <<running, lastSuccess, finished, launched, scheduler, view>>

\* do_dbt_run after the process: its exit status becomes the run's outcome.
DbtEnds(r) ==
    /\ dbt[r] \in {"working", "written"}
    /\ dbt' = [dbt EXCEPT ![r] = "ended"]
    /\ running' = FALSE
    /\ finished' = r
    /\ lastSuccess' = (dbt[r] = "written" /\ results.ok)
    /\ scheduler' = "asleep"
    /\ UNCHANGED <<launched, results, view>>

\* pipeline_data: first the files, then the run state.
ReadArtifacts(v) ==
    /\ view[v].at = "idle"
    /\ view' = [view EXCEPT ![v] = [at |-> "read", results |-> results]]
    /\ UNCHANGED <<running, lastSuccess, finished, dbt, launched, scheduler, results>>

ReadRunState(v) ==
    /\ view[v].at = "read"
    /\ view' = [view EXCEPT ![v] =
           [at |-> "shown", results |-> @.results, running |-> running,
            finished |-> finished, ok |-> lastSuccess]]
    /\ UNCHANGED <<running, lastSuccess, finished, dbt, launched, scheduler, results>>

Leave(v) ==
    /\ view[v].at = "shown"
    /\ view' = [view EXCEPT ![v] = [at |-> "idle"]]
    /\ UNCHANGED <<running, lastSuccess, finished, dbt, launched, scheduler, results>>

PipelineNext ==
    \/ RunPipeline \/ SchedulerFires
    \/ \E r \in 1 .. launched : DbtWrites(r) \/ DbtEnds(r)
    \/ \E v \in Viewers : ReadArtifacts(v) \/ ReadRunState(v) \/ Leave(v)

-------------------------------------------------------------------------------
\* Charts.  A file that is being written reads as an empty list.
Chart(id, n) == [id |-> id, version |-> n]
Torn == <<Chart("torn", 0)>>
Idle == [at |-> "idle"]
ChartsInit == /\ charts = <<>> /\ saver = [s \in Savers |-> Idle]
              /\ saves = 0 /\ tears = 0 /\ kept = {}

Load == IF charts = Torn THEN <<>> ELSE charts
HasId(list, id) == \E i \in DOMAIN list : list[i].id = id
Position(list, id) == CHOOSE i \in DOMAIN list : list[i].id = id

Upsert(list, chart) ==
    IF HasId(list, chart.id) THEN ReplaceAt(list, Position(list, chart.id), chart)
    ELSE Append(list, chart)

\* save_chart up to the write; a full list refuses a new id.
SaveChart(s, id) ==
    /\ saver[s] = Idle /\ saves < MaxSaves
    /\ saves' = saves + 1
    /\ saver' = IF HasId(Load, id) \/ Len(Load) < MaxCharts
                THEN [saver EXCEPT ![s] = [at |-> "write", kind |-> "save", id |-> id,
                         n |-> saves + 1, copy |-> Upsert(Load, Chart(id, saves + 1))]]
                ELSE saver
    /\ UNCHANGED <<charts, tears, kept>>

DeleteChart(s, id) ==
    /\ saver[s] = Idle /\ saves < MaxSaves
    /\ saves' = saves + 1
    /\ saver' = [saver EXCEPT ![s] = [at |-> "write", kind |-> "delete", id |-> id,
                     n |-> saves + 1, copy |-> SelectSeq(Load, LAMBDA c : c.id # id)]]
    /\ kept' = {c \in kept : c.id # id}
    /\ UNCHANGED <<charts, tears>>

\* fs::write empties the file before it fills it.
Truncate(s) ==
    /\ saver[s].at = "write"
    /\ charts' = Torn
    /\ saver' = [saver EXCEPT ![s].at = "fill"]
    /\ UNCHANGED <<saves, tears, kept>>

Acked(s) == IF saver[s].kind = "save"
            THEN {c \in kept : c.id # saver[s].id} \cup {Chart(saver[s].id, saver[s].n)}
            ELSE kept

\* Over what another handler filled meanwhile: the rest of a longer file stays.
Fill(s) ==
    /\ saver[s].at = "fill"
    /\ charts' \in {saver[s].copy} \cup (IF charts = Torn THEN {} ELSE {Torn})
    /\ kept' = Acked(s)
    /\ saver' = [saver EXCEPT ![s] = Idle]
    /\ UNCHANGED <<saves, tears>>

\* The disk is full, or the process ends: the file stays torn.
FillFails(s) ==
    /\ saver[s].at = "fill" /\ tears < MaxTears
    /\ tears' = tears + 1
    /\ saver' = [saver EXCEPT ![s] = Idle]
    /\ UNCHANGED <<charts, saves, kept>>

ChartsNext == \E s \in Savers :
    \/ \E id \in ChartIds : SaveChart(s, id) \/ DeleteChart(s, id)
    \/ Truncate(s) \/ Fill(s) \/ FillFails(s)

WorkspaceInit == PipelineInit /\ ChartsInit
WorkspaceNext == \/ PipelineNext /\ UNCHANGED chartVars
                 \/ ChartsNext /\ UNCHANGED pipelineVars
WorkspaceSpec == WorkspaceInit /\ [][WorkspaceNext]_<<pipelineVars, chartVars>>

-------------------------------------------------------------------------------
(* Requests and the scheduler together keep one dbt at work, and what the  *)
(* page says of the last run is what became of it: a page that shows no    *)
(* run in flight and a success never has results of a failed run that is   *)
(* not older (run_pipeline, spawn_scheduler, do_dbt_run, pipeline_data).   *)
OneRunTruthful ==
    /\ Cardinality({r \in DOMAIN dbt : dbt[r] # "ended"}) = (IF running THEN 1 ELSE 0)
    /\ \A v \in Viewers : view[v].at = "shown" =>
          /\ view[v].results.run <= view[v].finished + 1
          /\ ~view[v].running /\ view[v].ok /\ view[v].results.run >= view[v].finished
                => view[v].results.ok

(* charts.rs: "so charts created in the UI ... persist server-side": when  *)
(* no handler is at work, a chart that was saved is in the file.           *)
ChartsPersist ==
    (\A s \in Savers : saver[s] = Idle) /\ tears = 0 =>
        \A c \in kept : \E i \in DOMAIN charts : charts[i] = c
================================================================================
