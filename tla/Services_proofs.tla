---------------------------- MODULE Services_proofs ----------------------------
(***************************************************************************)
(* Proofs about the server's services: the dbt pipeline (Workspace), the   *)
(* surfaces that bring statements to the engine (Frontend), and the control*)
(* plane with its audit log (ControlPlane).  Each has its types, the parts *)
(* of its inductive invariant, one lemma per action that keeps it, and the *)
(* theorems.                                                               *)
(***************************************************************************)
EXTENDS ControlPlane, Workspace, Frontend, FiniteSetTheorems, SequenceTheorems, TLAPS

-------------------------------------------------------------------------------
\* The dbt pipeline.

(* Results as dbt writes them; a page in the making has the fields of its  *)
(* step.                                                                   *)
Results == [run : Nat, ok : BOOLEAN]
View == [at : {"idle"}] \cup [at : {"read"}, results : Results]
        \cup [at : {"shown"}, results : Results, running : BOOLEAN, finished : Nat, ok : BOOLEAN]

PipelineTypeOK ==
    /\ running \in BOOLEAN /\ lastSuccess \in BOOLEAN
    /\ launched \in Nat /\ finished \in Nat
    /\ dbt \in Seq({"working", "written", "ended"}) /\ Len(dbt) = launched
    /\ results \in Results
    /\ view \in [Viewers -> View]

(* All runs but the newest have ended, and it has unless one is in flight; *)
(* the last to end is the newest that has.                                 *)
OneAtATime ==
    /\ \A r \in 1 .. launched : r # launched \/ ~running <=> dbt[r] = "ended"
    /\ finished = (IF running THEN launched - 1 ELSE launched)
    /\ running => launched # 0

(* The results are those of a run that wrote; the newest run, ended, was a *)
(* success only with its own results, and those say so.                    *)
ResultsSound ==
    /\ results.run <= launched
    /\ running /\ results.run = launched => dbt[launched] = "written"
    /\ running /\ dbt[launched] = "written" => results.run = launched
    /\ lastSuccess /\ results.run = finished => results.ok
    /\ lastSuccess => results.run >= finished

(* What a viewer read first was so: results of a run never change, so they *)
(* are older, or those of today.                                           *)
PagesSound ==
    \A v \in Viewers :
        /\ view[v].at = "read" =>
             \/ view[v].results = results
             \/ view[v].results.run < results.run
        /\ view[v].at = "shown" =>
             /\ view[v].results.run <= view[v].finished + 1
             /\ ~view[v].running /\ view[v].ok /\ view[v].results.run >= view[v].finished
                  => view[v].results.ok

PipelineInv == PipelineTypeOK /\ OneAtATime /\ ResultsSound /\ PagesSound

(* No run, no results, and no page yet.                                    *)
LEMMA PipelineInitInv == ASSUME PipelineInit PROVE PipelineInv
<1>1. PipelineTypeOK
  <2>1. [at |-> "idle"] \in View
    BY DEF View
  <2>2. NoRun \in Results /\ <<>> \in Seq({"working", "written", "ended"}) /\ Len(<<>>) = 0
    BY DEF NoRun, Results
  <2> QED
    BY <2>1, <2>2 DEF PipelineInit, PipelineTypeOK
<1>2. OneAtATime /\ ResultsSound /\ PagesSound
  BY DEF PipelineInit, NoRun, OneAtATime, ResultsSound, PagesSound
<1> QED
  BY <1>1, <1>2 DEF PipelineInv

(* A run that starts is the newest, and the only one that has not ended.   *)
LEMMA LaunchStep ==
    ASSUME PipelineInv, ~running, Launch, UNCHANGED <<lastSuccess, finished, results, view>>
    PROVE  PipelineInv'
<1>1. /\ running' = TRUE /\ launched' = launched + 1 /\ dbt' = Append(dbt, "working")
      /\ dbt \in Seq({"working", "written", "ended"}) /\ Len(dbt) = launched
      /\ launched \in Nat /\ finished = launched /\ results \in Results
  BY DEF Launch, PipelineInv, PipelineTypeOK, OneAtATime
<1>2. /\ dbt' \in Seq({"working", "written", "ended"}) /\ Len(dbt') = launched + 1
      /\ \A r \in 1 .. launched : dbt'[r] = dbt[r]
      /\ dbt'[launched + 1] = "working"
  BY <1>1, AppendProperties
<1>3. \A r \in 1 .. launched' : r = launched' \/ r \in 1 .. launched
  BY <1>1
<1>4. PipelineTypeOK'
  BY <1>1, <1>2 DEF PipelineInv, PipelineTypeOK
<1>5. OneAtATime'
  <2>1. \A r \in 1 .. launched : dbt[r] = "ended"
    BY DEF PipelineInv, OneAtATime
  <2> QED
    BY <1>1, <1>2, <1>3, <2>1 DEF OneAtATime
<1>6. ResultsSound'
  <2>1. results.run \in Nat /\ results.run <= launched
    BY <1>1 DEF Results, PipelineInv, ResultsSound
  <2>2. results.run < launched'
    BY <1>1, <2>1
  <2> QED
    BY <1>1, <1>2, <2>1, <2>2 DEF PipelineInv, ResultsSound
<1>7. PagesSound'
  BY DEF PipelineInv, PagesSound
<1> QED
  BY <1>4, <1>5, <1>6, <1>7 DEF PipelineInv

(* The run that has not ended is the newest one.                           *)
LEMMA NewestRuns ==
    ASSUME PipelineInv, NEW r \in 1 .. launched, dbt[r] \in {"working", "written"}
    PROVE  r = launched /\ running
  BY DEF PipelineInv, OneAtATime

(* dbt writes its results (DbtWrites): they are those of the newest run.   *)
LEMMA WriteStep ==
    ASSUME PipelineInv, NEW r \in 1 .. launched, DbtWrites(r)
    PROVE  PipelineInv'
<1>1. PICK ok \in BOOLEAN : results' = [run |-> r, ok |-> ok]
  BY DEF DbtWrites
<1>2. /\ r = launched /\ running /\ dbt[r] = "working" /\ dbt' = [dbt EXCEPT ![r] = "written"]
      /\ UNCHANGED <<running, lastSuccess, finished, launched, view>>
  BY NewestRuns DEF DbtWrites
<1>3. /\ dbt \in Seq({"working", "written", "ended"}) /\ Len(dbt) = launched
      /\ launched \in Nat /\ results \in Results /\ DOMAIN dbt = 1 .. launched
  BY LenProperties DEF PipelineInv, PipelineTypeOK
<1>4. /\ dbt' \in Seq({"working", "written", "ended"}) /\ Len(dbt') = launched
      /\ dbt'[r] = "written" /\ \A k \in 1 .. launched : k # r => dbt'[k] = dbt[k]
  BY <1>2, <1>3, ExceptSeq
<1>5. PipelineTypeOK'
  BY <1>1, <1>2, <1>4 DEF PipelineInv, PipelineTypeOK, Results
<1>6. OneAtATime'
  BY <1>2, <1>4 DEF PipelineInv, OneAtATime
<1>7. results.run < r
  BY <1>2, <1>3 DEF Results, PipelineInv, ResultsSound
<1>8. ResultsSound'
  <2>1. results'.run = r /\ finished' # r
    BY <1>1, <1>2, <1>3 DEF PipelineInv, OneAtATime
  <2>2. finished' <= r
    BY <1>2, <1>3 DEF PipelineInv, OneAtATime
  <2> QED
    BY <1>2, <1>3, <1>4, <2>1, <2>2 DEF ResultsSound
<1>9. PagesSound'
  <2>1. ASSUME NEW v \in Viewers, view[v].at = "read" PROVE view[v].results.run < results'.run
    <3>1. view[v].results.run \in Nat
      BY <2>1 DEF PipelineInv, PipelineTypeOK, View, Results
    <3>2. view[v].results.run <= results.run
      BY <2>1, <1>3, <3>1 DEF PipelineInv, PagesSound, Results
    <3> QED
      BY <1>1, <1>3, <1>7, <3>1, <3>2 DEF Results
  <2> QED
    BY <1>2, <2>1 DEF PipelineInv, PagesSound
<1> QED
  BY <1>5, <1>6, <1>8, <1>9 DEF PipelineInv

(* do_dbt_run: the run in flight ends, with what its exit and results say. *)
LEMMA EndStep ==
    ASSUME PipelineInv, NEW r \in 1 .. launched, DbtEnds(r)
    PROVE  PipelineInv'
<1>1. /\ r = launched /\ running /\ dbt[r] \in {"working", "written"}
      /\ dbt' = [dbt EXCEPT ![r] = "ended"] /\ running' = FALSE /\ finished' = r
      /\ lastSuccess' = (dbt[r] = "written" /\ results.ok)
      /\ UNCHANGED <<launched, results, view>>
  BY NewestRuns DEF DbtEnds
<1>2. /\ dbt \in Seq({"working", "written", "ended"}) /\ Len(dbt) = launched
      /\ launched \in Nat /\ results \in Results /\ DOMAIN dbt = 1 .. launched
  BY LenProperties DEF PipelineInv, PipelineTypeOK
<1>3. /\ dbt' \in Seq({"working", "written", "ended"}) /\ Len(dbt') = launched
      /\ dbt'[r] = "ended" /\ \A k \in 1 .. launched : k # r => dbt'[k] = dbt[k]
  BY <1>1, <1>2, ExceptSeq
<1>4. lastSuccess' \in BOOLEAN
  BY <1>1, <1>2 DEF Results
<1>5. PipelineTypeOK'
  BY <1>1, <1>3, <1>4 DEF PipelineInv, PipelineTypeOK
<1>6. OneAtATime'
  BY <1>1, <1>3 DEF PipelineInv, OneAtATime
<1>7. ResultsSound'
  <2>1. results.run \in Nat /\ results.run <= launched
    BY <1>2 DEF Results, PipelineInv, ResultsSound
  <2>2. dbt[r] = "written" => results.run = launched
    BY <1>1 DEF PipelineInv, ResultsSound
  <2>3. lastSuccess' => dbt[r] = "written" /\ results.ok
    BY <1>1
  <2>4. lastSuccess' => results.run = finished'
    BY <1>1, <2>2, <2>3
  <2> QED
    BY <1>1, <2>1, <2>3, <2>4 DEF ResultsSound
<1>8. PagesSound'
  BY <1>1 DEF PipelineInv, PagesSound
<1> QED
  BY <1>5, <1>6, <1>7, <1>8 DEF PipelineInv

(* pipeline_data reads the files first and the run state after them.       *)
LEMMA PageStep ==
    ASSUME PipelineInv, NEW v \in Viewers, ReadArtifacts(v) \/ ReadRunState(v) \/ Leave(v)
    PROVE  PipelineInv'
<1>1. UNCHANGED <<running, lastSuccess, finished, dbt, launched, results>>
  BY DEF ReadArtifacts, ReadRunState, Leave
<1>2. results \in Results /\ running \in BOOLEAN /\ lastSuccess \in BOOLEAN /\ finished \in Nat
  BY DEF PipelineInv, PipelineTypeOK
<1>3. view[v].at = "read" => view[v].results \in Results
  BY DEF PipelineInv, PipelineTypeOK, View
<1>4. \E page \in View :
        /\ view' = [view EXCEPT ![v] = page]
        /\ \/ page.at = "idle"
           \/ page.at = "read" /\ page.results = results
           \/ /\ page.at = "shown" /\ view[v].at = "read" /\ page.results = view[v].results
              /\ page.running = running /\ page.finished = finished /\ page.ok = lastSuccess
  <2>1. CASE ReadArtifacts(v)
    <3> DEFINE page == [at |-> "read", results |-> results]
    <3>1. page \in View
      BY <1>2 DEF View
    <3>2. view' = [view EXCEPT ![v] = page]
      BY <2>1 DEF ReadArtifacts
    <3>3. page.at = "read" /\ page.results = results
      OBVIOUS
    <3> HIDE DEF page
    <3> QED
      BY <3>1, <3>2, <3>3
  <2>2. CASE ReadRunState(v)
    <3> DEFINE page == [at |-> "shown", results |-> view[v].results, running |-> running,
                        finished |-> finished, ok |-> lastSuccess]
    <3>1. page \in View /\ view' = [view EXCEPT ![v] = page] /\ view[v].at = "read"
      BY <1>2, <1>3, <2>2 DEF ReadRunState, View
    <3>2. /\ page.at = "shown" /\ page.results = view[v].results
          /\ page.running = running /\ page.finished = finished /\ page.ok = lastSuccess
      OBVIOUS
    <3> HIDE DEF page
    <3> QED
      BY <3>1, <3>2
  <2>3. CASE Leave(v)
    <3>1. [at |-> "idle"] \in View
      BY DEF View
    <3> QED
      BY <2>3, <3>1 DEF Leave
  <2> QED
    BY <2>1, <2>2, <2>3
<1>5. PICK page \in View :
        /\ view' = [view EXCEPT ![v] = page]
        /\ \/ page.at = "idle"
           \/ page.at = "read" /\ page.results = results
           \/ /\ page.at = "shown" /\ view[v].at = "read" /\ page.results = view[v].results
              /\ page.running = running /\ page.finished = finished /\ page.ok = lastSuccess
  BY <1>4
<1>6. PipelineTypeOK'
  BY <1>1, <1>5 DEF PipelineInv, PipelineTypeOK
<1>7. OneAtATime' /\ ResultsSound'
  BY <1>1 DEF PipelineInv, OneAtATime, ResultsSound
<1>8. PagesSound'
  <2>1. /\ view'[v] = page
        /\ \A u \in Viewers : u # v => view'[u] = view[u]
    BY <1>5 DEF PipelineInv, PipelineTypeOK
  <2>2. CASE page.at = "shown"
    <3>1. /\ view[v].at = "read" /\ page.results = view[v].results /\ page.results \in Results
          /\ page.running = running /\ page.finished = finished /\ page.ok = lastSuccess
      BY <1>3, <1>5, <2>2
    <3>2. page.results = results \/ page.results.run < results.run
      BY <3>1 DEF PipelineInv, PagesSound
    <3>3. /\ results.run <= finished + 1
          /\ ~running => results.run <= finished
          /\ lastSuccess /\ results.run = finished => results.ok
      <4>1. launched \in Nat /\ results.run \in Nat /\ results.run <= launched
        BY <1>2 DEF Results, PipelineInv, PipelineTypeOK, ResultsSound
      <4> QED
        BY <1>2, <4>1 DEF PipelineInv, OneAtATime, ResultsSound
    <3>4. /\ page.results.run <= page.finished + 1
          /\ ~page.running /\ page.ok /\ page.results.run >= page.finished => page.results.ok
      BY <1>2, <3>1, <3>2, <3>3 DEF Results
    <3> QED
      BY <1>1, <2>1, <2>2, <3>4 DEF PipelineInv, PagesSound
  <2>3. CASE page.at # "shown"
    BY <1>1, <1>5, <2>1, <2>3 DEF PipelineInv, PagesSound
  <2> QED
    BY <2>2, <2>3
<1> QED
  BY <1>6, <1>7, <1>8 DEF PipelineInv

(* Every step of the pipeline keeps its invariant.                         *)
LEMMA PipelineStep == ASSUME PipelineInv, [PipelineNext]_pipelineVars PROVE PipelineInv'
<1>1. CASE UNCHANGED pipelineVars
  BY <1>1 DEF pipelineVars, PipelineInv, PipelineTypeOK, OneAtATime, ResultsSound, PagesSound
<1>2. CASE RunPipeline \/ SchedulerFires
  BY <1>2, LaunchStep DEF RunPipeline, SchedulerFires
<1> QED
  BY <1>1, <1>2, WriteStep, EndStep, PageStep DEF PipelineNext

(* The invariant says what OneRunTruthful says of runs and pages.          *)
LEMMA PagesTruthful == ASSUME PipelineInv PROVE OneRunTruthful
<1>1. Cardinality({r \in DOMAIN dbt : dbt[r] # "ended"}) = (IF running THEN 1 ELSE 0)
  <2>1. DOMAIN dbt = 1 .. launched /\ launched \in Nat
    BY LenProperties DEF PipelineInv, PipelineTypeOK
  <2>2. CASE running
    <3>1. {r \in DOMAIN dbt : dbt[r] # "ended"} = {launched}
      BY <2>1, <2>2 DEF PipelineInv, OneAtATime
    <3> QED
      BY <2>2, <3>1, FS_Singleton
  <2>3. CASE ~running
    <3>1. {r \in DOMAIN dbt : dbt[r] # "ended"} = {}
      BY <2>1, <2>3 DEF PipelineInv, OneAtATime
    <3> QED
      BY <2>3, <3>1, FS_EmptySet
  <2> QED
    BY <2>2, <2>3
<1> QED
  BY <1>1 DEF PipelineInv, PagesSound, OneRunTruthful

(* One dbt at a time, and a page that never shows an older run's failure as*)
(* the newest one's success (run_pipeline, spawn_scheduler, pipeline_data),*)
(* for any number of runs and viewers.                                     *)
THEOREM PipelineTruthful == WorkspaceSpec => []OneRunTruthful
<1>1. WorkspaceInit => PipelineInv
  BY PipelineInitInv DEF WorkspaceInit
<1>2. PipelineInv /\ [WorkspaceNext]_<<pipelineVars, chartVars>> => PipelineInv'
  <2>1. [WorkspaceNext]_<<pipelineVars, chartVars>> => [PipelineNext]_pipelineVars
    BY DEF WorkspaceNext
  <2> QED
    BY <2>1, PipelineStep
<1>3. PipelineInv => OneRunTruthful
  BY PagesTruthful
<1> QED
  BY <1>1, <1>2, <1>3, PTL DEF WorkspaceSpec

-------------------------------------------------------------------------------
\* The front of the engine.

Outcomes == {"success", "error", "timeout"}
Places == {"new", "send", "wait", "record", "done", "gone"}
Ingests == {"load", "replace"}
QueryRequest == [at : Places, kind : {"none", "refused", "query", "pg"}, result : Outcomes \cup {"none"}]
IngestRequest == [at : Places, kind : Ingests, result : Outcomes \cup {"none"}, next : {"drop", "create"}]
Request == QueryRequest \cup IngestRequest
Message == [what : {"sql", "drop", "create"}, of : Handlers]
           \cup [what : {"history"}, of : Handlers, status : Outcomes]

FrontTypeOK ==
    /\ handler \in [Handlers -> Request]
    /\ queue \in Seq(Message) /\ busy \in Message \cup {Free}
    /\ alive \in BOOLEAN /\ mayLack \in BOOLEAN
    /\ history \in Seq([of : Handlers, status : Outcomes])
    /\ tableOf \in Handlers \cup {"none"}
    /\ executed \in [Handlers -> Seq({"success", "error"})]
    /\ leaked \subseteq Handlers /\ lost \subseteq Handlers
    /\ panics \in Nat /\ hangups \in Nat /\ timeouts \in Nat /\ badRows \in Nat

(* What the engine has before it, in order.                                *)
Line == IF busy = Free THEN queue ELSE <<busy>> \o queue

Alike(m, n) == m.of = n.of /\ (m.what = "history" <=> n.what = "history")

(* A command is of a handler that waits for it, has given up on it, or is  *)
(* gone; a history row, of one that is done and says its result.           *)
MessageSound(m) ==
    LET h == m.of IN
    IF m.what = "history"
    THEN /\ Counted(h) /\ handler[h].at = "done" /\ m.status = handler[h].result
         /\ m.status = "success" => executed[h] = <<"success">>
    ELSE /\ IF m.what = "sql" THEN Counted(h) /\ executed[h] = <<>> ELSE handler[h].kind \in Ingests
         /\ m.what = "drop" => handler[h].kind = "replace"
         /\ \/ handler[h].at = "wait" /\ m.what = Command(h)
            \/ handler[h].at = "gone"
            \/ Counted(h) /\ handler[h].at \in {"record", "done"} /\ handler[h].result = "timeout"

RowSound(i) ==
    LET h == history[i].of IN
    /\ Counted(h) /\ handler[h].at = "done" /\ history[i].status = handler[h].result
    /\ history[i].status = "success" => executed[h] = <<"success">>

LineSound ==
    /\ \A i \in DOMAIN Line : MessageSound(Line[i])
    /\ \A i, k \in DOMAIN Line : Alike(Line[i], Line[k]) => i = k
    /\ \A i \in DOMAIN history : RowSound(i)
    /\ \A i, k \in DOMAIN history : history[i].of = history[k].of => i = k
    /\ \A i \in DOMAIN history, k \in DOMAIN Line :
         Line[k].what = "history" => Line[k].of # history[i].of
    /\ ~alive => Line = <<>>

(* A query that was answered is on its way into the history, in it, or     *)
(* could not be inserted.                                                  *)
Said(h) == \/ \E i \in DOMAIN Line : Line[i].what = "history" /\ Line[i].of = h
           \/ \E i \in DOMAIN history : history[i].of = h
           \/ h \in lost

HandlerSound(h) ==
    /\ handler[h].at = "new" <=> handler[h].kind = "none"
    /\ handler[h].at = "new" => handler[h] = New /\ executed[h] = <<>>
    /\ handler[h].kind = "refused" => handler[h].at = "done"
    /\ Counted(h) /\ handler[h].at \in Waiting => executed[h] = <<>>
    /\ handler[h].at = "record" => Counted(h) /\ handler[h].result # "none"
    /\ Counted(h) /\ handler[h].at \in {"record", "done"} /\ alive /\ handler[h].result # "timeout"
         => executed[h] = <<handler[h].result>>
    /\ Counted(h) /\ handler[h].at = "done" /\ alive => Said(h)
    /\ handler[h].kind = "replace" /\ handler[h].at = "gone" => mayLack
    /\ handler[h].kind = "load" => handler[h].next = "create"
    /\ h \in leaked => Counted(h) /\ handler[h].at = "gone"

InGauge == {h \in Handlers : Counted(h) /\ handler[h].at \in Waiting} \cup leaked

(* Who took the table away is a replace that has not finished.             *)
TableSound ==
    /\ alive \/ mayLack
    /\ \/ mayLack \/ tableOf # "none"
       \/ \A h \in Handlers : handler[h].kind \in Ingests => handler[h].at # "done"
       \/ \E h \in Handlers : handler[h].kind = "replace" /\ handler[h].at # "done"
    /\ tableOf # "none" => "success" \in {executed[tableOf][i] : i \in DOMAIN executed[tableOf]}

FrontInv == /\ FrontTypeOK /\ LineSound /\ (\A h \in Handlers : HandlerSound(h))
            /\ gauge = Cardinality(InGauge)
            /\ TableSound
-------------------------------------------------------------------------------
\* The line of messages.

(* The fields of a request.                                                *)
LEMMA RequestTyped ==
    ASSUME FrontTypeOK, NEW h \in Handlers
    PROVE  /\ handler[h] \in Request /\ handler[h].at \in Places
           /\ handler[h].kind \in {"none", "refused", "query", "pg"} \cup Ingests
           /\ handler[h].result \in Outcomes \cup {"none"}
           /\ handler[h].kind \in Ingests => handler[h].next \in {"drop", "create"}
           /\ Counted(h) <=> handler[h].kind \in {"query", "pg"}
  BY DEF FrontTypeOK, QueryRequest, IngestRequest, Request, Ingests, Counted

(* The fields of a message to the engine.                                  *)
LEMMA MessageTyped ==
    ASSUME NEW m \in Message
    PROVE  /\ m # Free /\ m.of \in Handlers /\ m.what \in {"sql", "drop", "create", "history"}
           /\ m.what = "history" => m.status \in Outcomes
  BY DEF Message, Free

(* The line of messages is a sequence: the busy one, then the queue.       *)
LEMMA LineTyped ==
    ASSUME FrontTypeOK
    PROVE  /\ Line \in Seq(Message) /\ DOMAIN Line = 1 .. Len(Line) /\ Len(Line) \in Nat
           /\ \A i \in DOMAIN Line : Line[i] \in Message
<1>1. Line \in Seq(Message)
  <2>1. CASE busy = Free
    BY <2>1 DEF Line, FrontTypeOK
  <2>2. CASE busy # Free
    <3>1. <<busy>> \in Seq(Message) /\ queue \in Seq(Message)
      BY <2>2 DEF FrontTypeOK
    <3> QED
      BY <2>2, <3>1, ConcatProperties DEF Line
  <2> QED
    BY <2>1, <2>2
<1> QED
  BY <1>1, LenProperties, ElementOfSeq

(* The rows of the history.                                                *)
LEMMA RowsTyped ==
    ASSUME FrontTypeOK
    PROVE  /\ DOMAIN history = 1 .. Len(history) /\ Len(history) \in Nat
           /\ \A i \in DOMAIN history : history[i].of \in Handlers
<1>1. history \in Seq([of : Handlers, status : Outcomes])
  BY DEF FrontTypeOK
<1>2. \A i \in 1 .. Len(history) : history[i] \in [of : Handlers, status : Outcomes]
  BY <1>1, ElementOfSeq
<1> QED
  BY <1>1, <1>2, LenProperties

(* recv moves the first message from the queue into the engine.            *)
LEMMA TakeKeepsLine == ASSUME FrontTypeOK, Take PROVE Line' = Line
<1>1. /\ queue \in Seq(Message) /\ queue # <<>> /\ busy = Free
      /\ busy' = Head(queue) /\ queue' = Tail(queue)
  BY DEF Take, FrontTypeOK
<1>2. Head(queue) \in Message /\ Tail(queue) \in Seq(Message)
  BY <1>1, HeadTailProperties
<1>3. Line' = <<Head(queue)>> \o Tail(queue) /\ Line = queue
  BY <1>1, <1>2, MessageTyped DEF Line
<1>4. <<Head(queue)>> \o Tail(queue) = queue
  <2>1. <<Head(queue)>> \in Seq(Message)
    BY <1>2
  <2>2. /\ <<Head(queue)>> \o Tail(queue) \in Seq(Message)
        /\ Len(<<Head(queue)>> \o Tail(queue)) = Len(queue)
    BY <1>1, <1>2, <2>1, ConcatProperties, HeadTailProperties, LenProperties
  <2>3. \A i \in 1 .. Len(queue) : queue[i] = (<<Head(queue)>> \o Tail(queue))[i]
    BY <1>1, <1>2, <2>1, ConcatProperties, HeadTailProperties, LenProperties
  <2> QED
    BY <1>1, <2>2, <2>3, SeqEqual
<1> QED
  BY <1>3, <1>4

(* A send adds its message at the end of the line.                         *)
LEMMA SendLengthensLine ==
    ASSUME FrontTypeOK, NEW m \in Message, UNCHANGED busy, queue' = Append(queue, m)
    PROVE  /\ Line' \in Seq(Message) /\ DOMAIN Line' = DOMAIN Line \cup {Len(Line) + 1}
           /\ Len(Line) + 1 \notin DOMAIN Line
           /\ Line'[Len(Line) + 1] = m
           /\ \A i \in DOMAIN Line : Line'[i] = Line[i]
<1>1. Line' = Append(Line, m)
  <2>1. CASE busy = Free
    BY <2>1 DEF Line
  <2>2. CASE busy # Free
    <3>1. <<busy>> \in Seq(Message) /\ queue \in Seq(Message) /\ <<m>> \in Seq(Message)
      BY <2>2 DEF FrontTypeOK
    <3>2. /\ Append(queue, m) = queue \o <<m>> /\ <<busy>> \o queue \in Seq(Message)
      BY <3>1, AppendIsConcat, ConcatProperties
    <3>3. Append(<<busy>> \o queue, m) = (<<busy>> \o queue) \o <<m>>
      BY <3>2, AppendIsConcat
    <3>4. Line' = <<busy>> \o (queue \o <<m>>)
      BY <2>2, <3>2 DEF Line
    <3> QED
      BY <2>2, <3>1, <3>3, <3>4, ConcatAssociative DEF Line
  <2> QED
    BY <2>1, <2>2
<1>2. Line \in Seq(Message) /\ DOMAIN Line = 1 .. Len(Line) /\ Len(Line) \in Nat
  BY LineTyped
<1>3. /\ Append(Line, m) \in Seq(Message) /\ Len(Append(Line, m)) = Len(Line) + 1
      /\ \A i \in 1 .. Len(Line) : Append(Line, m)[i] = Line[i]
      /\ Append(Line, m)[Len(Line) + 1] = m
  BY <1>2, AppendProperties
<1>4. DOMAIN Append(Line, m) = 1 .. (Len(Line) + 1)
  BY <1>3, LenProperties
<1> QED
  BY <1>1, <1>2, <1>3, <1>4

(* What the engine finishes was the first of the line.                     *)
LEMMA FinishShortensLine ==
    ASSUME FrontTypeOK, busy # Free, busy' = Free, UNCHANGED queue
    PROVE  /\ 1 \in DOMAIN Line /\ Line[1] = busy
           /\ \A i \in DOMAIN Line' : i + 1 \in DOMAIN Line /\ i + 1 # 1 /\ Line'[i] = Line[i + 1]
           /\ \A i \in DOMAIN Line : i = 1 \/ (i - 1 \in DOMAIN Line' /\ Line'[i - 1] = Line[i])
           /\ Line' \in Seq(Message)
<1>1. /\ <<busy>> \in Seq(Message) /\ queue \in Seq(Message)
      /\ Line = <<busy>> \o queue /\ Line' = queue
  BY DEF Line, FrontTypeOK
<1>2. /\ Len(queue) \in Nat /\ DOMAIN queue = 1 .. Len(queue)
      /\ Len(<<busy>>) = 1 /\ <<busy>>[1] = busy
  BY <1>1, LenProperties
<1>3. /\ <<busy>> \o queue \in Seq(Message)
      /\ Len(<<busy>> \o queue) = 1 + Len(queue)
      /\ \A i \in 1 .. 1 + Len(queue) :
           (<<busy>> \o queue)[i] = IF i <= 1 THEN <<busy>>[i] ELSE queue[i - 1]
  BY <1>1, <1>2, ConcatProperties
<1>4. DOMAIN (<<busy>> \o queue) = 1 .. 1 + Len(queue)
  BY <1>3, LenProperties
<1>5. 1 \in DOMAIN Line /\ Line[1] = busy
  BY <1>1, <1>2, <1>3, <1>4
<1>6. \A i \in DOMAIN queue : i + 1 \in 1 .. 1 + Len(queue) /\ i + 1 # 1 /\ ~(i + 1 <= 1)
                               /\ (i + 1) - 1 = i
  BY <1>2
<1>7. \A i \in 1 .. 1 + Len(queue) : i = 1 \/ (i - 1 \in DOMAIN queue /\ ~(i <= 1))
  BY <1>2
<1> QED
  BY <1>1, <1>3, <1>4, <1>5, <1>6, <1>7
-------------------------------------------------------------------------------
\* Steps of one handler that leave the line as it is.

(* A handler that changes without its messages losing their sense.         *)
LEMMA LineFrame ==
    ASSUME FrontTypeOK, LineSound, NEW h \in Handlers, UNCHANGED <<history, lost, executed>>,
           Line' = Line, ~alive' => Line = <<>>,
           \A g \in Handlers \ {h} : handler'[g] = handler[g],
           \A m \in Message : Line # <<>> /\ m.of = h /\ MessageSound(m) => MessageSound(m)',
           \A i \in DOMAIN history : history[i].of # h
    PROVE  LineSound' /\ \A g \in Handlers : Said(g)' <=> Said(g)
<1>1. \A i \in DOMAIN Line : Line[i] \in Message /\ Line[i].of \in Handlers
  BY LineTyped, MessageTyped
<1>2. \A g \in Handlers \ {h} : handler'[g] = handler[g] /\ executed'[g] = executed[g]
                                /\ (Counted(g)' <=> Counted(g)) /\ Command(g)' = Command(g)
  BY DEF Counted, Command
<1>3. ASSUME NEW m \in Message, MessageSound(m), Line # <<>> PROVE MessageSound(m)'
  <2>1. m.of \in Handlers
    BY MessageTyped
  <2>2. CASE m.of = h
    BY <1>3, <2>2
  <2>3. CASE m.of # h
    BY <1>2, <1>3, <2>1, <2>3 DEF MessageSound
  <2> QED
    BY <2>2, <2>3
<1>4. \A i \in DOMAIN history : history[i].of \in Handlers \ {h}
  BY RowsTyped
<1>5. \A i \in DOMAIN history : RowSound(i)'
  BY <1>2, <1>4 DEF LineSound, RowSound
<1>6. \A g \in Handlers : Said(g)' <=> Said(g)
  BY DEF Said
<1>7. LineSound'
  <2>1. Line = <<>> => DOMAIN Line = {}
    OBVIOUS
  <2> QED
    BY <1>1, <1>3, <1>5, <2>1 DEF LineSound
<1> QED
  BY <1>6, <1>7

(* What is said of a handler depends on it and a few others.               *)
LEMMA HandlerFrame ==
    ASSUME NEW g \in Handlers, HandlerSound(g),
           handler'[g] = handler[g], executed'[g] = executed[g],
           alive' => alive, mayLack => mayLack', g \in leaked' => g \in leaked,
           alive' /\ Said(g) => Said(g)'
    PROVE  HandlerSound(g)'
<1>1. Counted(g)' <=> Counted(g)
  BY DEF Counted
<1> QED
  BY <1>1 DEF HandlerSound, New, Waiting

(* Nobody begun has a message or a row.                                    *)
LEMMA NewIsSilent ==
    ASSUME FrontTypeOK, LineSound, NEW h \in Handlers, handler[h] = New
    PROVE  /\ \A i \in DOMAIN Line : Line[i].of # h
           /\ \A i \in DOMAIN history : history[i].of # h
           /\ ~Counted(h)
  BY DEF New, Counted, LineSound, MessageSound, RowSound, Ingests

(* A request enters: refused, or on its way to send.                       *)
LEMMA BeginStep ==
    ASSUME FrontInv, NEW h \in Handlers, NEW r \in Request, handler[h] = New,
           handler' = [handler EXCEPT ![h] = r],
           UNCHANGED <<queue, alive, leaked, mayLack, EngineSide, Bounds>>,
           \/ r.kind = "refused" /\ r.at = "done"
           \/ r.kind \in {"query", "pg"} \cup Ingests /\ r.at = "send",
           r.kind = "load" => r.next = "create"
    PROVE  /\ FrontTypeOK' /\ LineSound' /\ (\A g \in Handlers : HandlerSound(g)')
           /\ TableSound'
           /\ InGauge' = IF r.kind \in {"query", "pg"} THEN InGauge \cup {h} ELSE InGauge
           /\ h \notin InGauge
<1>1. FrontTypeOK /\ LineSound /\ (\A g \in Handlers : HandlerSound(g)) /\ TableSound
  BY DEF FrontInv
<1>2. /\ handler'[h] = r /\ \A g \in Handlers \ {h} : handler'[g] = handler[g]
      /\ handler' \in [Handlers -> Request]
      /\ UNCHANGED <<queue, busy, alive, history, lost, tableOf, executed, leaked, mayLack,
                     panics, hangups, timeouts, badRows>>
  BY <1>1 DEF FrontTypeOK, EngineSide, Bounds
<1>3. FrontTypeOK'
  BY <1>1, <1>2 DEF FrontTypeOK
<1>4. /\ \A i \in DOMAIN Line : Line[i].of # h
      /\ \A i \in DOMAIN history : history[i].of # h
      /\ handler[h].at = "new" /\ handler[h].kind = "none" /\ executed[h] = <<>>
  BY <1>1, NewIsSilent DEF HandlerSound, New
<1>5. Line' = Line
  BY <1>2 DEF Line
<1>6. \A m \in Message : m.of = h /\ MessageSound(m) => MessageSound(m)'
  BY <1>4 DEF MessageSound, Ingests, Counted
<1>7. LineSound' /\ \A g \in Handlers : Said(g)' <=> Said(g)
  <2>1. ~alive' => Line = <<>>
    BY <1>1, <1>2 DEF LineSound
  <2> QED
    BY <1>1, <1>2, <1>4, <1>5, <1>6, <2>1, LineFrame
<1>8. Counted(h)' <=> r.kind \in {"query", "pg"}
  BY <1>2 DEF Counted
<1>9. h \notin leaked
  BY <1>1, <1>4 DEF HandlerSound
<1>10. ASSUME NEW g \in Handlers PROVE HandlerSound(g)'
  <2>1. CASE g = h
    BY <1>2, <1>4, <1>8, <1>9, <2>1 DEF HandlerSound, Ingests
  <2>2. CASE g # h
    BY <1>1, <1>2, <1>7, <2>2, HandlerFrame
  <2> QED
    BY <2>1, <2>2
<1>11. TableSound'
  BY <1>1, <1>2, <1>4 DEF TableSound, Ingests
<1>12. /\ InGauge' = IF r.kind \in {"query", "pg"} THEN InGauge \cup {h} ELSE InGauge
       /\ h \notin InGauge
  <2>1. \A g \in Handlers \ {h} : Counted(g)' <=> Counted(g)
    BY <1>2 DEF Counted
  <2>2. ~Counted(h)
    BY <1>4 DEF Counted
  <2> QED
    BY <1>2, <1>8, <1>9, <2>1, <2>2 DEF InGauge, Waiting
<1> QED
  BY <1>3, <1>7, <1>10, <1>11, <1>12
(* A handler that moves on keeps what it asks for.                         *)
LEMMA StepTyped ==
    ASSUME FrontTypeOK, NEW h \in Handlers, NEW at \in Places, Step(h, at)
    PROVE  /\ handler' \in [Handlers -> Request]
           /\ handler'[h].at = at /\ handler'[h].kind = handler[h].kind
           /\ handler'[h].result = handler[h].result
           /\ handler[h].kind \in Ingests => handler'[h].next = handler[h].next
           /\ \A g \in Handlers \ {h} : handler'[g] = handler[g]
           /\ \A g \in Handlers : Counted(g)' <=> Counted(g)
           /\ Command(h)' = Command(h) \/ handler[h].kind \in {"none", "refused"}
<1>1. handler[h] \in Request
  BY DEF FrontTypeOK
<1>2. /\ [handler[h] EXCEPT !.at = at] \in Request
      /\ [handler[h] EXCEPT !.at = at].at = at
      /\ [handler[h] EXCEPT !.at = at].kind = handler[h].kind
      /\ [handler[h] EXCEPT !.at = at].result = handler[h].result
      /\ handler[h].kind \in Ingests => [handler[h] EXCEPT !.at = at].next = handler[h].next
  <2>1. CASE handler[h] \in QueryRequest
    BY <2>1 DEF QueryRequest, IngestRequest, Request, Ingests
  <2>2. CASE handler[h] \in IngestRequest
    BY <2>2 DEF QueryRequest, IngestRequest, Request
  <2> QED
    BY <1>1, <2>1, <2>2 DEF QueryRequest, IngestRequest, Request
<1>3. /\ handler' = [handler EXCEPT ![h] = [handler[h] EXCEPT !.at = at]]
      /\ handler \in [Handlers -> Request]
  BY DEF Step, FrontTypeOK
<1>4. /\ handler' \in [Handlers -> Request] /\ handler'[h] = [handler[h] EXCEPT !.at = at]
      /\ \A g \in Handlers \ {h} : handler'[g] = handler[g]
  BY <1>2, <1>3
<1>5. \A g \in Handlers : Counted(g)' <=> Counted(g)
  BY <1>2, <1>4 DEF Counted
<1>6. Command(h)' = Command(h) \/ handler[h].kind \in {"none", "refused"}
  BY <1>2, <1>4, <1>5, RequestTyped DEF Command
<1> QED
  BY <1>2, <1>4, <1>5, <1>6

(* The table stays, and nobody finishes who might have left it away.       *)
LEMMA TableFrame ==
    ASSUME TableSound, UNCHANGED <<tableOf, executed>>, alive' \/ mayLack', mayLack => mayLack',
           \A g \in Handlers :
             \/ mayLack'
             \/ handler'[g] = handler[g]
             \/ /\ handler[g].kind \in Ingests => handler'[g].kind = handler[g].kind
                /\ handler'[g].kind \in Ingests => handler'[g].at # "done"
             \/ handler[g].kind \notin Ingests /\ handler'[g].kind \notin Ingests
    PROVE  TableSound'
<1>1. ASSUME ~mayLack'
      PROVE  /\ \A g \in Handlers : handler'[g].kind \in Ingests /\ handler'[g].at = "done"
                    => handler[g].kind \in Ingests /\ handler[g].at = "done"
             /\ \A g \in Handlers : handler[g].kind = "replace" /\ handler[g].at # "done"
                    => handler'[g].kind = "replace" /\ handler'[g].at # "done"
  BY <1>1 DEF Ingests
<1> QED
  BY <1>1 DEF TableSound

(* A message joins the line, while nothing else of its kind is in it.      *)
LEMMA LineLonger ==
    ASSUME FrontTypeOK, LineSound, NEW h \in Handlers, NEW m \in Message, m.of = h,
           alive, UNCHANGED <<busy, alive, history, lost, executed>>, queue' = Append(queue, m),
           \A g \in Handlers \ {h} : handler'[g] = handler[g],
           \A n \in Message : n.of = h /\ MessageSound(n) => MessageSound(n)',
           MessageSound(m)',
           \A i \in DOMAIN Line : ~Alike(Line[i], m),
           \A i \in DOMAIN history : history[i].of # h
    PROVE  /\ LineSound'
           /\ \A g \in Handlers : Said(g) => Said(g)'
           /\ m.what = "history" => Said(h)'
<1>1. /\ Line' \in Seq(Message) /\ DOMAIN Line' = DOMAIN Line \cup {Len(Line) + 1}
      /\ Len(Line) + 1 \notin DOMAIN Line
      /\ Line'[Len(Line) + 1] = m
      /\ \A i \in DOMAIN Line : Line'[i] = Line[i]
  BY SendLengthensLine
<1>2. PICK last : last = Len(Line) + 1
  OBVIOUS
<1>3. \A i \in DOMAIN Line : Line[i] \in Message /\ Line[i].of \in Handlers
  BY LineTyped, MessageTyped
<1>4. \A g \in Handlers \ {h} : handler'[g] = handler[g] /\ executed'[g] = executed[g]
                                /\ (Counted(g)' <=> Counted(g)) /\ Command(g)' = Command(g)
  BY DEF Counted, Command
<1>5. ASSUME NEW n \in Message, MessageSound(n) PROVE MessageSound(n)'
  <2>1. n.of \in Handlers
    BY MessageTyped
  <2>2. CASE n.of = h
    BY <1>5, <2>2
  <2>3. CASE n.of # h
    BY <1>4, <1>5, <2>1, <2>3 DEF MessageSound
  <2> QED
    BY <2>2, <2>3
<1>6. ASSUME NEW i \in DOMAIN Line' PROVE MessageSound(Line[i])'
  <2>1. PICK n \in Message : Line'[i] = n /\ MessageSound(n)'
    BY <1>1, <1>3, <1>5 DEF LineSound
  <2> QED
    BY <2>1 DEF MessageSound
<1>7. \A i, k \in DOMAIN Line' : Alike(Line'[i], Line'[k]) => i = k
  <2>1. \A i \in DOMAIN Line : ~Alike(Line[i], m) /\ ~Alike(m, Line[i])
    BY DEF Alike
  <2>2. \A i, k \in DOMAIN Line : Alike(Line[i], Line[k]) => i = k
    BY DEF LineSound
  <2> QED
    BY <1>1, <2>1, <2>2
<1>8. ASSUME NEW i \in DOMAIN history PROVE RowSound(i)'
  <2>1. RowSound(i) /\ history[i].of \in Handlers \ {h}
    BY RowsTyped DEF LineSound
  <2> QED
    BY <1>4, <2>1 DEF RowSound
<1>9. \A i \in DOMAIN history, k \in DOMAIN Line' :
         Line'[k].what = "history" => Line'[k].of # history[i].of
  BY <1>1 DEF LineSound
<1>10. LineSound'
  <2>1. \A i \in DOMAIN history' : RowSound(i)'
    BY <1>8
  <2> QED
    BY <1>6, <1>7, <1>9, <2>1 DEF LineSound
<1>11. \A g \in Handlers : Said(g) => Said(g)'
  BY <1>1 DEF Said
<1>12. m.what = "history" => Said(h)'
  BY <1>1 DEF Said
<1> QED
  BY <1>10, <1>11, <1>12

(* A command joins the line, the only one of its handler.                  *)
LEMMA SendStep ==
    ASSUME FrontInv, NEW h \in Handlers, Send(h)
    PROVE  /\ FrontTypeOK' /\ LineSound' /\ (\A g \in Handlers : HandlerSound(g)')
           /\ TableSound' /\ InGauge' = InGauge
<1>1. FrontTypeOK /\ LineSound /\ (\A g \in Handlers : HandlerSound(g)) /\ TableSound
  BY DEF FrontInv
<1>2. PICK m : /\ m = [what |-> Command(h), of |-> h]
               /\ handler[h].at = "send" /\ alive /\ queue' = Append(queue, m) /\ Step(h, "wait")
               /\ UNCHANGED <<busy, alive, gauge, history, lost, tableOf, executed, leaked, mayLack,
                              panics, hangups, timeouts, badRows>>
  BY DEF Send, EngineSide, Bounds
<1>3. /\ handler' \in [Handlers -> Request]
      /\ handler'[h].at = "wait" /\ handler'[h].kind = handler[h].kind
      /\ handler'[h].result = handler[h].result
      /\ handler[h].kind \in Ingests => handler'[h].next = handler[h].next
      /\ \A g \in Handlers \ {h} : handler'[g] = handler[g]
      /\ \A g \in Handlers : Counted(g)' <=> Counted(g)
      /\ Command(h)' = Command(h) \/ handler[h].kind \in {"none", "refused"}
  BY <1>1, <1>2, StepTyped DEF Places
<1>4. Counted(h) \/ handler[h].kind \in Ingests
  BY <1>1, <1>2, RequestTyped DEF HandlerSound
<1>5. Command(h)' = Command(h) /\ m \in Message /\ m.of = h /\ m.what = Command(h)
      /\ m.what # "history"
  <2>1. Command(h) \in {"sql", "drop", "create"}
    BY <1>1, <1>4, RequestTyped DEF Command
  <2> QED
    BY <1>2, <1>3, <1>4, <2>1, RequestTyped, <1>1 DEF Message, Counted, Ingests
<1>6. /\ \A i \in DOMAIN Line : Line[i] \in Message /\ Line[i].of # h
      /\ \A i \in DOMAIN history : history[i].of # h
      /\ \A n \in Message : n.of = h => ~MessageSound(n)
  <2>1. \A i \in DOMAIN Line : MessageSound(Line[i])
    BY <1>1 DEF LineSound
  <2>2. \A n \in Message : n.of = h => ~MessageSound(n)
    BY <1>2 DEF MessageSound
  <2>3. \A i \in DOMAIN history : history[i].of # h
    BY <1>1, <1>2 DEF LineSound, RowSound
  <2> QED
    BY <1>1, <2>1, <2>2, <2>3, LineTyped
<1>7. FrontTypeOK'
  <2>1. queue' \in Seq(Message)
    BY <1>1, <1>2, <1>5, AppendProperties DEF FrontTypeOK
  <2> QED
    BY <1>1, <1>2, <1>3, <2>1 DEF FrontTypeOK
<1>8. MessageSound(m)'
  <2>1. /\ handler[h].kind \in Ingests => ~Counted(h) /\ handler[h].next \in {"drop", "create"}
        /\ handler[h].kind = "load" => handler[h].next = "create"
        /\ Counted(h) => executed[h] = <<>>
        /\ Ingests = {"load", "replace"}
    BY <1>1, <1>2, RequestTyped DEF HandlerSound, Waiting, Ingests, Counted
  <2>2. CASE Counted(h)
    BY <1>2, <1>3, <1>5, <2>1, <2>2 DEF MessageSound, Command
  <2>3. CASE handler[h].kind \in Ingests
    BY <1>2, <1>3, <1>5, <2>1, <2>3 DEF MessageSound, Command
  <2> QED
    BY <1>4, <2>2, <2>3
<1>9. LineSound' /\ \A g \in Handlers : Said(g) => Said(g)'
  BY <1>1, <1>2, <1>3, <1>5, <1>6, <1>8, LineLonger DEF Alike
<1>10. ASSUME NEW g \in Handlers PROVE HandlerSound(g)'
  <2>1. CASE g = h
    BY <1>1, <1>2, <1>3, <1>4, <2>1 DEF HandlerSound, Waiting, Ingests
  <2>2. CASE g # h
    BY <1>1, <1>2, <1>3, <1>9, <2>2, HandlerFrame
  <2> QED
    BY <2>1, <2>2
<1>11. TableSound'
  <2>1. alive' \/ mayLack'
    BY <1>2
  <2>2. \A g \in Handlers :
             \/ handler'[g] = handler[g]
             \/ /\ handler[g].kind \in Ingests => handler'[g].kind = handler[g].kind
                /\ handler'[g].kind \in Ingests => handler'[g].at # "done"
    BY <1>3
  <2> QED
    BY <1>1, <1>2, <2>1, <2>2, TableFrame
<1>12. InGauge' = InGauge
  BY <1>2, <1>3 DEF InGauge, Waiting
<1> QED
  BY <1>7, <1>9, <1>10, <1>11, <1>12

(* A query that has its result is recorded, unless there is no engine.     *)
LEMMA RecordStep ==
    ASSUME FrontInv, NEW h \in Handlers, Record(h)
    PROVE  /\ FrontTypeOK' /\ LineSound' /\ (\A g \in Handlers : HandlerSound(g)')
           /\ TableSound' /\ InGauge' = InGauge
<1>1. FrontTypeOK /\ LineSound /\ (\A g \in Handlers : HandlerSound(g)) /\ TableSound
  BY DEF FrontInv
<1>2. /\ handler[h].at = "record" /\ Step(h, "done")
      /\ UNCHANGED <<busy, alive, gauge, history, lost, tableOf, executed, leaked, mayLack,
                     panics, hangups, timeouts, badRows>>
      /\ Counted(h) /\ handler[h].result \in Outcomes
      /\ handler[h].kind \notin Ingests
  BY <1>1, RequestTyped DEF Record, EngineSide, Bounds, HandlerSound, Ingests, Counted
<1>3. /\ handler' \in [Handlers -> Request]
      /\ handler'[h].at = "done" /\ handler'[h].kind = handler[h].kind
      /\ handler'[h].result = handler[h].result
      /\ \A g \in Handlers \ {h} : handler'[g] = handler[g]
      /\ \A g \in Handlers : Counted(g)' <=> Counted(g)
  BY <1>1, <1>2, StepTyped DEF Places
<1>4. \A n \in Message : n.of = h /\ MessageSound(n) => MessageSound(n)' /\ n.what # "history"
  BY <1>2, <1>3 DEF MessageSound
<1>5. /\ \A i \in DOMAIN Line : Line[i] \in Message /\ MessageSound(Line[i])
      /\ \A i \in DOMAIN history : history[i].of # h
  <2>1. \A i \in DOMAIN Line : MessageSound(Line[i])
    BY <1>1 DEF LineSound
  <2>2. \A i \in DOMAIN history : history[i].of # h
    BY <1>1, <1>2 DEF LineSound, RowSound
  <2> QED
    BY <1>1, <2>1, <2>2, LineTyped
<1>6. /\ FrontTypeOK' /\ LineSound' /\ (\A g \in Handlers : Said(g) => Said(g)')
      /\ alive => Said(h)'
  <2>1. CASE alive
    <3>1. PICK m : /\ m = [what |-> "history", of |-> h, status |-> handler[h].result]
                   /\ queue' = Append(queue, m)
      BY <2>1 DEF Record
    <3>2. m \in Message /\ m.of = h /\ m.what = "history" /\ m.status = handler[h].result
      BY <1>2, <3>1 DEF Message
    <3>3. MessageSound(m)'
      <4>1. handler[h].result = "success" => executed[h] = <<"success">>
        BY <1>1, <1>2, <2>1 DEF HandlerSound
      <4> QED
        BY <1>2, <1>3, <3>2, <4>1 DEF MessageSound
    <3>4. \A i \in DOMAIN Line : ~Alike(Line[i], m)
      BY <1>4, <1>5, <3>2 DEF Alike
    <3>5. LineSound' /\ (\A g \in Handlers : Said(g) => Said(g)') /\ Said(h)'
      BY <1>1, <1>2, <1>3, <1>4, <1>5, <2>1, <3>1, <3>2, <3>3, <3>4, LineLonger
    <3>6. queue' \in Seq(Message)
      BY <1>1, <3>1, <3>2, AppendProperties DEF FrontTypeOK
    <3>7. FrontTypeOK'
      BY <1>1, <1>2, <1>3, <3>6 DEF FrontTypeOK
    <3> QED
      BY <3>5, <3>7
  <2>2. CASE ~alive
    <3>1. queue' = queue
      BY <2>2 DEF Record
    <3>2. Line' = Line /\ Line = <<>> /\ FrontTypeOK'
      BY <1>1, <1>2, <1>3, <2>2, <3>1 DEF Line, LineSound, FrontTypeOK
    <3>3. LineSound' /\ \A g \in Handlers : Said(g)' <=> Said(g)
      BY <1>1, <1>2, <1>3, <1>4, <1>5, <3>2, LineFrame
    <3> QED
      BY <2>2, <3>2, <3>3
  <2> QED
    BY <2>1, <2>2
<1>7. ASSUME NEW g \in Handlers PROVE HandlerSound(g)'
  <2>1. CASE g = h
    BY <1>1, <1>2, <1>3, <1>6, <2>1 DEF HandlerSound, Waiting, Ingests, Outcomes, Counted
  <2>2. CASE g # h
    BY <1>1, <1>2, <1>3, <1>6, <2>2, HandlerFrame
  <2> QED
    BY <2>1, <2>2
<1>8. TableSound'
  <2>1. alive' \/ mayLack'
    BY <1>1, <1>2 DEF TableSound
  <2>2. \A g \in Handlers :
             \/ handler'[g] = handler[g]
             \/ handler[g].kind \notin Ingests /\ handler'[g].kind \notin Ingests
    BY <1>2, <1>3
  <2> QED
    BY <1>1, <1>2, <2>1, <2>2, TableFrame
<1>9. InGauge' = InGauge
  BY <1>2, <1>3 DEF InGauge, Waiting
<1> QED
  BY <1>6, <1>7, <1>8, <1>9
-------------------------------------------------------------------------------
\* What a handler does with a result.

(* A handler takes its answer: the query then waits for its history row.   *)
LEMMA ResultTaken ==
    ASSUME FrontTypeOK, NEW h \in Handlers, HandlerSound(h), NEW result \in Outcomes,
           handler[h].at \in Waiting, handler' = [handler EXCEPT ![h] = Returned(h, result)]
    PROVE  /\ handler' \in [Handlers -> Request]
           /\ \A g \in Handlers \ {h} : handler'[g] = handler[g]
           /\ handler'[h].kind = handler[h].kind
           /\ \A g \in Handlers : Counted(g)' <=> Counted(g)
           /\ Counted(h) => handler'[h].at = "record" /\ handler'[h].result = result
           /\ ~Counted(h) => /\ handler[h].kind \in Ingests
                             /\ handler'[h].at = IF SecondCommand(h) THEN "send" ELSE "done"
           /\ handler[h].kind = "load" => handler'[h].next = "create"
<1>1. /\ handler[h] \in Request
      /\ Counted(h) \/ handler[h].kind \in Ingests
      /\ handler[h].kind \in Ingests => ~Counted(h) /\ handler[h].next \in {"drop", "create"}
  BY RequestTyped DEF HandlerSound, Waiting, Counted, Ingests, FrontTypeOK
<1>2. handler \in [Handlers -> Request]
  BY DEF FrontTypeOK
<1>3. CASE Counted(h)
  <2>1. handler[h] \in QueryRequest
    BY <1>1, <1>3 DEF QueryRequest, IngestRequest, Request, Counted, Ingests
  <2>2. PICK r \in Request : r = [handler[h] EXCEPT !.at = "record", !.result = result]
    BY <2>1 DEF QueryRequest, IngestRequest, Request, Places
  <2>3. r.at = "record" /\ r.result = result /\ r.kind = handler[h].kind
    BY <2>1, <2>2
  <2>4. handler' = [handler EXCEPT ![h] = r]
    BY <1>3, <2>2 DEF Returned
  <2>5. /\ handler' \in [Handlers -> Request] /\ handler'[h] = r
        /\ \A g \in Handlers \ {h} : handler'[g] = handler[g]
    BY <1>2, <2>4
  <2> QED
    BY <1>3, <2>3, <2>5 DEF Counted
<1>4. CASE ~Counted(h)
  <2>1. handler[h] \in IngestRequest
    <3>1. handler[h].kind \in Ingests
      BY <1>1, <1>4
    <3>2. handler[h] \notin QueryRequest
      BY <3>1 DEF Ingests, QueryRequest
    <3>3. handler[h] \in Request
      BY <1>1
    <3> QED
      BY <3>2, <3>3 DEF Request
  <2>2. CASE SecondCommand(h)
    <3>1. handler[h].kind = "replace"
      BY <2>2 DEF SecondCommand
    <3>2. PICK r \in Request : r = [handler[h] EXCEPT !.at = "send", !.next = OtherCommand(@)]
      BY <2>1 DEF QueryRequest, IngestRequest, Request, Places, OtherCommand
    <3>3. r.at = "send" /\ r.kind = handler[h].kind
      BY <2>1, <3>2
    <3>4. handler' = [handler EXCEPT ![h] = r]
      BY <1>4, <2>2, <3>2 DEF Returned
    <3>5. /\ handler' \in [Handlers -> Request] /\ handler'[h] = r
          /\ \A g \in Handlers \ {h} : handler'[g] = handler[g]
      BY <1>2, <3>4
    <3> QED
      BY <1>1, <1>4, <2>2, <3>1, <3>3, <3>5 DEF Counted
  <2>3. CASE ~SecondCommand(h)
    <3>2. PICK r \in Request : r = [handler[h] EXCEPT !.at = "done", !.result = result]
      BY <2>1 DEF QueryRequest, IngestRequest, Request, Places
    <3>3. r.at = "done" /\ r.kind = handler[h].kind /\ r.next = handler[h].next
      BY <2>1, <3>2
    <3>4. handler' = [handler EXCEPT ![h] = r]
      BY <1>4, <2>3, <3>2 DEF Returned
    <3>5. /\ handler' \in [Handlers -> Request] /\ handler'[h] = r
          /\ \A g \in Handlers \ {h} : handler'[g] = handler[g]
      BY <1>2, <3>4
    <3> QED
      BY <1>1, <1>4, <2>3, <3>3, <3>5 DEF Counted, HandlerSound
  <2> QED
    BY <2>2, <2>3
<1> QED
  BY <1>3, <1>4

(* The gauge is lowered once, for a query that was counted.                *)
LEMMA GaugeLowered ==
    ASSUME FrontInv, NEW h \in Handlers, h \in InGauge, InGauge' = InGauge \ {h}, gauge' = gauge - 1
    PROVE  gauge' = Cardinality(InGauge')
<1>1. IsFiniteSet(InGauge)
  <2>1. InGauge \subseteq Handlers
    BY DEF InGauge, FrontInv, FrontTypeOK
  <2> QED
    BY <2>1, FS_Subset, FrontAssumption
<1> QED
  BY <1>1, FS_RemoveElement DEF FrontInv

(* EngineGone and TimesOut: a handler that stops waiting.                  *)
LEMMA GiveUpStep ==
    ASSUME FrontInv, NEW h \in Handlers, NEW result \in {"error", "timeout"},
           handler[h].at \in Waiting, handler' = [handler EXCEPT ![h] = Returned(h, result)],
           Lower(h, result), UNCHANGED <<queue, alive, leaked, mayLack, EngineSide>>,
           panics' \in Nat, hangups' \in Nat, timeouts' \in Nat, badRows' \in Nat,
           result = "error" => ~alive, result = "timeout" => handler[h].kind = "query"
    PROVE  FrontInv'
<1>1. FrontTypeOK /\ LineSound /\ (\A g \in Handlers : HandlerSound(g)) /\ TableSound
  BY DEF FrontInv
<1>2. UNCHANGED <<queue, busy, alive, history, lost, tableOf, executed, leaked, mayLack>>
  BY DEF EngineSide
<1>3. /\ handler' \in [Handlers -> Request]
      /\ \A g \in Handlers \ {h} : handler'[g] = handler[g]
      /\ handler'[h].kind = handler[h].kind
      /\ \A g \in Handlers : Counted(g)' <=> Counted(g)
      /\ Counted(h) => handler'[h].at = "record" /\ handler'[h].result = result
      /\ ~Counted(h) => /\ handler[h].kind \in Ingests
                        /\ handler'[h].at = IF SecondCommand(h) THEN "send" ELSE "done"
      /\ handler[h].kind = "load" => handler'[h].next = "create"
  BY <1>1, ResultTaken DEF Outcomes
<1>4. FrontTypeOK'
  BY <1>1, <1>2, <1>3 DEF FrontTypeOK
<1>5. Line' = Line /\ (~alive => Line = <<>>)
  BY <1>1, <1>2 DEF Line, LineSound
<1>6. \A i \in DOMAIN history : history[i].of # h
  BY <1>1 DEF LineSound, RowSound, Waiting
<1>7. ASSUME NEW m \in Message, Line # <<>>, m.of = h, MessageSound(m) PROVE MessageSound(m)'
  <2>1. result = "timeout" /\ Counted(h)
    BY <1>5, <1>7 DEF Counted
  <2>2. m.what # "history" /\ m.what # "drop" /\ handler[h].kind \notin Ingests
    BY <1>7, <2>1 DEF MessageSound, Waiting, Ingests, Counted
  <2> QED
    BY <1>2, <1>3, <1>7, <2>1, <2>2 DEF MessageSound
<1>8. LineSound' /\ \A g \in Handlers : Said(g)' <=> Said(g)
  BY <1>1, <1>2, <1>3, <1>5, <1>6, <1>7, LineFrame
<1>9. ASSUME NEW g \in Handlers PROVE HandlerSound(g)'
  <2>1. CASE g = h
    <3>1. HandlerSound(h) /\ handler[h].at # "new" /\ handler[h].kind # "none"
          /\ handler[h].kind # "refused" /\ h \notin leaked
      BY <1>1 DEF HandlerSound, Waiting
    <3>2. CASE Counted(h)
      <4>1. handler'[h].kind # "load" /\ handler'[h].kind # "replace"
        BY <1>3, <3>2 DEF Counted
      <4> QED
        BY <1>2, <1>3, <2>1, <3>1, <3>2, <4>1 DEF HandlerSound, Waiting
    <3>3. CASE ~Counted(h)
      BY <1>2, <1>3, <2>1, <3>1, <3>3 DEF HandlerSound, Waiting
    <3> QED
      BY <3>2, <3>3
  <2>2. CASE g # h
    BY <1>1, <1>2, <1>3, <1>8, <2>2, HandlerFrame
  <2> QED
    BY <2>1, <2>2
<1>10. TableSound'
  <2>1. alive' \/ mayLack'
    BY <1>1, <1>2 DEF TableSound
  <2>2. \A g \in Handlers :
             \/ mayLack'
             \/ handler'[g] = handler[g]
             \/ handler[g].kind \notin Ingests /\ handler'[g].kind \notin Ingests
    BY <1>1, <1>2, <1>3 DEF TableSound, Ingests
  <2> QED
    BY <1>1, <1>2, <2>1, <2>2, TableFrame
<1>11. gauge' = Cardinality(InGauge')
  <2>1. CASE Counted(h)
    <3>1. h \notin leaked
      BY <1>1 DEF HandlerSound, Waiting
    <3>2. h \in InGauge /\ InGauge' = InGauge \ {h}
      BY <1>2, <1>3, <2>1, <3>1 DEF InGauge, Waiting
    <3> QED
      BY <2>1, <3>2, GaugeLowered DEF Lower
  <2>2. CASE ~Counted(h)
    <3>1. InGauge' = InGauge
      BY <1>2, <1>3, <2>2 DEF InGauge
    <3> QED
      BY <2>2, <3>1 DEF Lower, FrontInv
  <2> QED
    BY <2>1, <2>2
<1> QED
  BY <1>4, <1>8, <1>9, <1>10, <1>11 DEF FrontInv

(* A client that goes away: its query stays counted.                       *)
LEMMA HangUpStep == ASSUME FrontInv, NEW h \in Handlers, HangUp(h) PROVE FrontInv'
<1>1. FrontTypeOK /\ LineSound /\ (\A g \in Handlers : HandlerSound(g)) /\ TableSound
  BY DEF FrontInv
<1>2. /\ handler[h].at \in Waiting \cup {"record"} /\ Step(h, "gone")
      /\ leaked' = IF Counted(h) /\ handler[h].at \in Waiting THEN leaked \cup {h} ELSE leaked
      /\ mayLack' = (mayLack \/ handler[h].kind = "replace")
      /\ UNCHANGED <<queue, busy, alive, gauge, history, lost, tableOf, executed, panics, timeouts, badRows>>
      /\ hangups' = hangups + 1
  BY DEF HangUp, EngineSide
<1>3. /\ handler' \in [Handlers -> Request]
      /\ handler'[h].at = "gone" /\ handler'[h].kind = handler[h].kind
      /\ handler'[h].result = handler[h].result
      /\ handler[h].kind \in Ingests => handler'[h].next = handler[h].next
      /\ \A g \in Handlers \ {h} : handler'[g] = handler[g]
      /\ \A g \in Handlers : Counted(g)' <=> Counted(g)
  BY <1>1, <1>2, StepTyped DEF Places
<1>4. FrontTypeOK'
  <2>1. mayLack' \in BOOLEAN /\ leaked' \subseteq Handlers
    BY <1>1, <1>2 DEF FrontTypeOK
  <2> QED
    BY <1>1, <1>2, <1>3, <2>1 DEF FrontTypeOK
<1>5. \A m \in Message : m.of = h /\ MessageSound(m) => MessageSound(m)'
  BY <1>2, <1>3 DEF MessageSound, Waiting
<1>6. \A i \in DOMAIN history : history[i].of # h
  BY <1>1, <1>2 DEF LineSound, RowSound, Waiting
<1>7. LineSound' /\ \A g \in Handlers : Said(g)' <=> Said(g)
  <2>1. Line' = Line /\ (~alive' => Line = <<>>)
    BY <1>1, <1>2 DEF Line, LineSound
  <2> QED
    BY <1>1, <1>2, <1>3, <1>5, <1>6, <2>1, LineFrame
<1>8. ASSUME NEW g \in Handlers PROVE HandlerSound(g)'
  <2>1. CASE g = h
    <3>1. HandlerSound(h) /\ handler[h].at # "new" /\ handler[h].kind # "none"
          /\ handler[h].kind # "refused"
      BY <1>1, <1>2 DEF HandlerSound, Waiting
    <3>2. h \in leaked' => Counted(h)
      BY <1>2, <3>1 DEF HandlerSound
    <3> QED
      BY <1>2, <1>3, <2>1, <3>1, <3>2 DEF HandlerSound, Waiting, Ingests
  <2>2. CASE g # h
    <3>1. (mayLack => mayLack') /\ (g \in leaked' => g \in leaked)
      BY <1>2, <2>2
    <3> QED
      BY <1>1, <1>2, <1>3, <1>7, <2>2, <3>1, HandlerFrame
  <2> QED
    BY <2>1, <2>2
<1>9. TableSound'
  <2>1. alive' \/ mayLack'
    BY <1>1, <1>2 DEF TableSound
  <2>2. \A g \in Handlers :
             \/ handler'[g] = handler[g]
             \/ /\ handler[g].kind \in Ingests => handler'[g].kind = handler[g].kind
                /\ handler'[g].kind \in Ingests => handler'[g].at # "done"
    BY <1>3
  <2> QED
    BY <1>1, <1>2, <2>1, <2>2, TableFrame
<1>10. InGauge' = InGauge
  BY <1>1, <1>2, <1>3 DEF InGauge, Waiting
<1> QED
  BY <1>2, <1>4, <1>7, <1>8, <1>9, <1>10 DEF FrontInv
-------------------------------------------------------------------------------
\* Steps of the engine.

(* Take changes nothing that a request can tell.                           *)
LEMMA TakeStep == ASSUME FrontInv, Take PROVE FrontInv'
<1>1. FrontTypeOK /\ LineSound /\ (\A g \in Handlers : HandlerSound(g)) /\ TableSound
  BY DEF FrontInv
<1>2. /\ alive /\ busy = Free /\ queue # <<>> /\ busy' = Head(queue) /\ queue' = Tail(queue)
      /\ UNCHANGED <<handler, alive, gauge, history, lost, tableOf, executed, leaked, mayLack,
                     panics, hangups, timeouts, badRows>>
  BY DEF Take, Bounds
<1>3. FrontTypeOK'
  <2>1. busy' \in Message /\ queue' \in Seq(Message)
    BY <1>1, <1>2, HeadTailProperties DEF FrontTypeOK
  <2> QED
    BY <1>1, <1>2, <2>1 DEF FrontTypeOK
<1>4. Line' = Line
  BY <1>1, TakeKeepsLine
<1>5. LineSound'
  BY <1>1, <1>2, <1>4 DEF LineSound, MessageSound, RowSound, Counted, Command
<1>6. \A g \in Handlers : Said(g)' <=> Said(g)
  BY <1>2, <1>4 DEF Said
<1>7. \A g \in Handlers : HandlerSound(g)'
  BY <1>1, <1>2, <1>6, HandlerFrame
<1>8. TableSound'
  BY <1>1, <1>2 DEF TableSound
<1>9. InGauge' = InGauge
  BY <1>2 DEF InGauge, Counted
<1> QED
  BY <1>2, <1>3, <1>5, <1>7, <1>8, <1>9 DEF FrontInv

(* What a statement that ends leaves behind, for its handler and the line. *)
LEMMA FinishStep ==
    ASSUME FrontInv, alive, NEW m \in Message, busy = m, m.what # "history",
           NEW result \in {"success", "error"}, Finish(result), mayLack => mayLack'
    PROVE  /\ handler' \in [Handlers -> Request]
           /\ executed' = [executed EXCEPT ![m.of] = Append(executed[m.of], result)]
           /\ executed' \in [Handlers -> Seq({"success", "error"})]
           /\ LineSound' /\ (\A g \in Handlers : HandlerSound(g)')
           /\ gauge' = Cardinality(InGauge')
           /\ \A g \in Handlers \ {m.of} : handler'[g] = handler[g]
           /\ handler'[m.of].kind = handler[m.of].kind
           /\ IF handler[m.of].at = "wait" /\ ~Counted(m.of)
              THEN handler'[m.of].at = IF SecondCommand(m.of) THEN "send" ELSE "done"
              ELSE handler'[m.of] = handler[m.of] \/ Counted(m.of)
           /\ MessageSound(m) /\ m.of \in Handlers
<1>1. FrontTypeOK /\ LineSound /\ (\A g \in Handlers : HandlerSound(g))
  BY DEF FrontInv
<1>2. PICK h \in Handlers : m.of = h
  BY MessageTyped
<1>3. /\ busy' = Free /\ executed' = [executed EXCEPT ![h] = Append(executed[h], result)]
      /\ IF handler[h].at = "wait"
         THEN handler' = [handler EXCEPT ![h] = Returned(h, result)] /\ Lower(h, result)
         ELSE UNCHANGED <<handler, gauge>>
      /\ UNCHANGED <<queue, alive, history, lost, leaked>>
  BY <1>2 DEF Finish, Reply
<1>4. /\ executed' \in [Handlers -> Seq({"success", "error"})]
      /\ executed'[h] = Append(executed[h], result)
      /\ \A g \in Handlers \ {h} : executed'[g] = executed[g]
  <2>1. executed \in [Handlers -> Seq({"success", "error"})]
    BY <1>1 DEF FrontTypeOK
  <2>2. Append(executed[h], result) \in Seq({"success", "error"})
    BY <2>1, AppendProperties
  <2> QED
    BY <1>3, <2>1, <2>2
<1>5. /\ handler' \in [Handlers -> Request]
      /\ \A g \in Handlers \ {h} : handler'[g] = handler[g]
      /\ handler'[h].kind = handler[h].kind
      /\ \A g \in Handlers : Counted(g)' <=> Counted(g)
      /\ handler[h].at = "wait" => 
           /\ Counted(h) => handler'[h].at = "record" /\ handler'[h].result = result
           /\ ~Counted(h) => /\ handler[h].kind \in Ingests
                             /\ handler'[h].at = IF SecondCommand(h) THEN "send" ELSE "done"
           /\ handler[h].kind = "load" => handler'[h].next = "create"
      /\ handler[h].at # "wait" => handler'[h] = handler[h]
  <2>1. CASE handler[h].at = "wait"
    BY <1>1, <1>3, <2>1, ResultTaken DEF Waiting, Outcomes
  <2>2. CASE handler[h].at # "wait"
    BY <1>1, <1>3, <2>2 DEF FrontTypeOK, Counted
  <2> QED
    BY <2>1, <2>2
<1>6. /\ 1 \in DOMAIN Line /\ Line[1] = m
      /\ \A i \in DOMAIN Line' : i + 1 \in DOMAIN Line /\ i + 1 # 1 /\ Line'[i] = Line[i + 1]
      /\ \A i \in DOMAIN Line : i = 1 \/ (i - 1 \in DOMAIN Line' /\ Line'[i - 1] = Line[i])
      /\ Line' \in Seq(Message)
  BY <1>1, <1>3, MessageTyped, FinishShortensLine
<1>7. MessageSound(m)
  BY <1>1, <1>6 DEF LineSound
<1>8. /\ handler[h].at = "wait" => m.what = Command(h)
      /\ handler[h].at \notin {"wait", "gone"} => handler[h].at \in {"record", "done"}
                              /\ Counted(h) /\ handler[h].result = "timeout"
      /\ Counted(h) <=> m.what = "sql"
      /\ Counted(h) => executed'[h] = <<result>>
  <2>1. IF m.what = "sql" THEN Counted(h) /\ executed[h] = <<>> ELSE handler[h].kind \in Ingests
    BY <1>2, <1>7 DEF MessageSound
  <2>2. Append(<<>>, result) = <<result>>
    OBVIOUS
  <2> QED
    BY <1>2, <1>4, <1>7, <2>1, <2>2 DEF MessageSound, Ingests, Counted
<1>9. ASSUME NEW n \in Message, MessageSound(n), ~Alike(n, m) PROVE MessageSound(n)'
  <2>1. n.of \in Handlers
    BY MessageTyped
  <2>2. CASE n.of # h
    <3>1. /\ handler'[n.of] = handler[n.of] /\ executed'[n.of] = executed[n.of]
          /\ (Counted(n.of)' <=> Counted(n.of)) /\ Command(n.of)' = Command(n.of)
      BY <1>4, <1>5, <2>1, <2>2 DEF Command, Counted
    <3> QED
      BY <1>9, <3>1 DEF MessageSound
  <2>3. CASE n.of = h
    <3>1. n.what = "history" /\ Counted(h) /\ handler[h].at = "done" /\ n.status = handler[h].result
      BY <1>2, <1>9, <2>3 DEF Alike, MessageSound
    <3>2. handler[h].result = "timeout" /\ handler'[h] = handler[h] /\ Counted(h)'
      BY <1>5, <1>8, <3>1
    <3> QED
      BY <2>3, <3>1, <3>2 DEF MessageSound
  <2> QED
    BY <2>2, <2>3
<1>10. ASSUME NEW i \in DOMAIN Line' PROVE MessageSound(Line[i])'
  <2>1. PICK n : n = Line[i + 1] /\ n \in Message /\ MessageSound(n) /\ Line'[i] = n
    BY <1>1, <1>6, LineTyped DEF LineSound
  <2>2. ~Alike(n, m)
    BY <1>1, <1>6, <2>1 DEF LineSound
  <2>3. MessageSound(n)'
    BY <1>9, <2>1, <2>2
  <2> QED
    BY <2>1, <2>3 DEF MessageSound
<1>11. \A i, k \in DOMAIN Line' : Alike(Line'[i], Line'[k]) => i = k
  <2> SUFFICES ASSUME NEW i \in DOMAIN Line', NEW k \in DOMAIN Line', Alike(Line'[i], Line'[k])
               PROVE  i = k
    OBVIOUS
  <2>1. i + 1 = k + 1
    BY <1>1, <1>6 DEF LineSound
  <2>2. i \in Nat /\ k \in Nat
    BY <1>6, LenProperties
  <2> QED
    BY <2>1, <2>2
<1>12. ASSUME NEW i \in DOMAIN history PROVE RowSound(i)'
  <2>1. RowSound(i) /\ history[i].of \in Handlers
    BY <1>1, RowsTyped DEF LineSound
  <2>2. CASE history[i].of = h
    BY <1>3, <1>5, <1>8, <2>1, <2>2 DEF RowSound
  <2>3. CASE history[i].of # h
    BY <1>3, <1>4, <1>5, <2>1, <2>3 DEF RowSound
  <2> QED
    BY <2>2, <2>3
<1>13. LineSound'
  <2>1. \A i \in DOMAIN history' : RowSound(i)'
    BY <1>3, <1>12
  <2>2. \A i \in DOMAIN history', k \in DOMAIN Line' :
         Line'[k].what = "history" => Line'[k].of # history'[i].of
    BY <1>1, <1>3, <1>6 DEF LineSound
  <2>3. \A i, k \in DOMAIN history' : history'[i].of = history'[k].of => i = k
    BY <1>1, <1>3 DEF LineSound
  <2> QED
    BY <1>3, <1>10, <1>11, <2>1, <2>2, <2>3 DEF LineSound
<1>14. \A g \in Handlers : Said(g) => Said(g)'
  BY <1>3, <1>6 DEF Said
<1>15. ASSUME NEW g \in Handlers PROVE HandlerSound(g)'
  <2>1. CASE g = h /\ handler[h].at = "wait"
    <3>1. HandlerSound(h) /\ handler[h].kind # "none" /\ handler[h].kind # "refused" /\ h \notin leaked
      BY <1>1, <2>1 DEF HandlerSound
    <3>2. CASE Counted(h)
      <4>1. handler'[h].kind # "load" /\ handler'[h].kind # "replace"
        BY <1>5, <3>2 DEF Counted
      <4> QED
        BY <1>3, <1>5, <1>8, <2>1, <3>1, <3>2, <4>1 DEF HandlerSound, Waiting
    <3>3. CASE ~Counted(h)
      BY <1>3, <1>5, <2>1, <3>1, <3>3 DEF HandlerSound, Waiting
    <3> QED
      BY <3>2, <3>3
  <2>2. CASE g = h /\ handler[h].at # "wait"
    <3>1. HandlerSound(h) /\ handler'[h] = handler[h] /\ handler[h].at \in {"gone", "record", "done"}
          /\ (Counted(h)' <=> Counted(h)) /\ leaked' = leaked /\ alive' = alive
          /\ (handler[h].at # "gone" => handler[h].result = "timeout")
      BY <1>1, <1>3, <1>5, <1>8, <2>2
    <3> QED
      BY <1>14, <2>2, <3>1 DEF HandlerSound, Waiting
  <2>3. CASE g # h
    BY <1>1, <1>3, <1>4, <1>5, <1>14, <2>3, HandlerFrame
  <2> QED
    BY <2>1, <2>2, <2>3
<1>16. gauge' = Cardinality(InGauge')
  <2>1. CASE handler[h].at = "wait" /\ Counted(h)
    <3>1. h \notin leaked
      BY <1>1, <2>1 DEF HandlerSound
    <3>2. h \in InGauge /\ InGauge' = InGauge \ {h}
      BY <1>3, <1>5, <2>1, <3>1 DEF InGauge, Waiting
    <3> QED
      BY <1>3, <2>1, <3>2, GaugeLowered DEF Lower
  <2>2. CASE ~(handler[h].at = "wait" /\ Counted(h))
    <3>1. InGauge' = InGauge
      BY <1>3, <1>5, <2>2 DEF InGauge
    <3> QED
      BY <1>3, <2>2, <3>1 DEF Lower, FrontInv
  <2> QED
    BY <2>1, <2>2
<1> QED
  BY <1>2, <1>3, <1>4, <1>5, <1>7, <1>13, <1>15, <1>16

Succeeded(g) == "success" \in {executed[g][i] : i \in DOMAIN executed[g]}

(* Outcomes are added, never taken back.                                   *)
LEMMA OutcomeAdded ==
    ASSUME FrontTypeOK, NEW h \in Handlers, NEW result \in {"success", "error"},
           executed' = [executed EXCEPT ![h] = Append(executed[h], result)]
    PROVE  /\ \A g \in Handlers : Succeeded(g) => Succeeded(g)'
           /\ result = "success" => Succeeded(h)'
<1>1. executed \in [Handlers -> Seq({"success", "error"})] /\ executed[h] \in Seq({"success", "error"})
  BY DEF FrontTypeOK
<1>2. executed'[h] = Append(executed[h], result) /\ \A g \in Handlers \ {h} : executed'[g] = executed[g]
  BY <1>1
<1>3. /\ Len(executed[h]) \in Nat /\ DOMAIN executed[h] = 1 .. Len(executed[h])
      /\ Append(executed[h], result) \in Seq({"success", "error"})
      /\ Len(Append(executed[h], result)) = Len(executed[h]) + 1
      /\ \A i \in 1 .. Len(executed[h]) : Append(executed[h], result)[i] = executed[h][i]
      /\ Append(executed[h], result)[Len(executed[h]) + 1] = result
  BY <1>1, AppendProperties, LenProperties
<1>4. DOMAIN Append(executed[h], result) = 1 .. (Len(executed[h]) + 1)
  BY <1>3, LenProperties
<1>5. Succeeded(h) => Succeeded(h)'
  BY <1>2, <1>3, <1>4 DEF Succeeded
<1>6. \A g \in Handlers \ {h} : Succeeded(g) => Succeeded(g)'
  BY <1>2 DEF Succeeded
<1>7. Len(executed[h]) + 1 \in 1 .. (Len(executed[h]) + 1)
  BY <1>3
<1>8. result = "success" => Succeeded(h)'
  BY <1>2, <1>3, <1>4, <1>7 DEF Succeeded
<1> QED
  BY <1>5, <1>6, <1>8

(* ExecuteSql, ExecuteDrop and ExecuteCreate.                              *)
LEMMA ExecuteStep ==
    ASSUME FrontInv, ExecuteSql \/ ExecuteDrop \/ ExecuteCreate
    PROVE  FrontInv'
<1>1. FrontTypeOK /\ LineSound /\ (\A g \in Handlers : HandlerSound(g)) /\ TableSound
  BY DEF FrontInv
<1>2. alive /\ busy.what \in {"sql", "drop", "create"}
  BY DEF ExecuteSql, ExecuteDrop, ExecuteCreate
<1>3. PICK m \in Message : busy = m /\ m.what \in {"sql", "drop", "create"}
  <2>1. busy # Free
    BY <1>1, <1>2 DEF LineSound, FrontTypeOK, Free
  <2> QED
    BY <1>1, <1>2, <2>1 DEF FrontTypeOK
<1>4. PICK h \in Handlers : m.of = h
  BY MessageTyped
<1>5. PICK result \in {"success", "error"} :
         /\ Finish(result)
         /\ \/ m.what = "sql" /\ UNCHANGED <<tableOf, mayLack, badRows>>
            \/ m.what = "drop" /\ tableOf' = "none" /\ UNCHANGED <<mayLack, badRows>>
            \/ /\ m.what = "create" /\ tableOf = "none" /\ tableOf' = h /\ result = "success"
               /\ UNCHANGED <<mayLack, badRows>>
            \/ m.what = "create" /\ tableOf # "none" /\ UNCHANGED <<tableOf, mayLack, badRows>>
            \/ /\ m.what = "create" /\ mayLack' = TRUE /\ badRows' = badRows + 1
               /\ UNCHANGED tableOf
  BY <1>3, <1>4 DEF ExecuteSql, ExecuteDrop, ExecuteCreate
<1>6. /\ handler' \in [Handlers -> Request]
      /\ executed' = [executed EXCEPT ![h] = Append(executed[h], result)]
      /\ executed' \in [Handlers -> Seq({"success", "error"})]
      /\ LineSound' /\ (\A g \in Handlers : HandlerSound(g)')
      /\ gauge' = Cardinality(InGauge')
      /\ \A g \in Handlers \ {h} : handler'[g] = handler[g]
      /\ handler'[h].kind = handler[h].kind
      /\ IF handler[h].at = "wait" /\ ~Counted(h)
         THEN handler'[h].at = IF SecondCommand(h) THEN "send" ELSE "done"
         ELSE handler'[h] = handler[h] \/ Counted(h)
      /\ MessageSound(m)
  <2>1. m.what # "history" /\ (mayLack => mayLack')
    BY <1>3, <1>5
  <2> QED
    BY <1>2, <1>3, <1>4, <1>5, <2>1, FinishStep
<1>7. /\ UNCHANGED <<queue, alive, history, lost, leaked, panics, hangups, timeouts>>
      /\ busy' = Free
  BY <1>5 DEF Finish
<1>8. FrontTypeOK'
  <2>1. badRows' \in Nat
    <3>1. badRows \in Nat
      BY <1>1 DEF FrontTypeOK
    <3>2. badRows' = badRows \/ badRows' = badRows + 1
      BY <1>5
    <3> QED
      BY <3>1, <3>2
  <2>3. mayLack' \in BOOLEAN
    <3>1. mayLack \in BOOLEAN
      BY <1>1 DEF FrontTypeOK
    <3>2. mayLack' = mayLack \/ mayLack' = TRUE
      BY <1>5
    <3> QED
      BY <3>1, <3>2, Zenon
  <2>2. tableOf' \in Handlers \cup {"none"}
    <3>1. tableOf' \in {tableOf, "none", h}
      BY <1>5
    <3> QED
      BY <1>1, <3>1 DEF FrontTypeOK
  <2> QED
    BY <1>1, <1>6, <1>7, <2>1, <2>2, <2>3 DEF FrontTypeOK
<1>9. (\A g \in Handlers : Succeeded(g) => Succeeded(g)') /\ (result = "success" => Succeeded(h)')
  BY <1>1, <1>6, OutcomeAdded
<1>10. tableOf' # "none" => Succeeded(tableOf)'
  <2>1. tableOf # "none" => Succeeded(tableOf) /\ tableOf \in Handlers
    BY <1>1 DEF TableSound, Succeeded, FrontTypeOK
  <2>2. CASE tableOf' = tableOf
    BY <1>9, <2>1, <2>2 DEF Succeeded
  <2>3. CASE tableOf' = h /\ result = "success"
    BY <1>9, <2>3 DEF Succeeded
  <2>4. CASE tableOf' = "none"
    BY <2>4
  <2> QED
    BY <1>5, <2>2, <2>3, <2>4
<1>11. \/ mayLack' \/ tableOf' # "none"
       \/ \A g \in Handlers : handler'[g].kind \in Ingests => handler'[g].at # "done"
       \/ \E g \in Handlers : handler'[g].kind = "replace" /\ handler'[g].at # "done"
  <2>1. CASE m.what = "sql"
    <3>1. \A g \in Handlers : \/ handler'[g] = handler[g]
                              \/ handler[g].kind \notin Ingests /\ handler'[g].kind \notin Ingests
      BY <1>4, <1>6, <2>1 DEF MessageSound, Counted, Ingests
    <3>2. UNCHANGED <<tableOf, mayLack>>
      BY <1>5, <2>1
    <3>3. \A g \in Handlers : \/ handler'[g] = handler[g]
                              \/ handler[g].kind # "replace" /\ handler'[g].kind \notin Ingests
      BY <3>1 DEF Ingests
    <3> QED
      BY <1>1, <3>2, <3>3 DEF TableSound
  <2>2. CASE m.what = "drop"
    <3>1. handler[h].kind = "replace" /\ ~Counted(h)
      BY <1>4, <1>6, <2>2 DEF MessageSound, Counted
    <3>2. CASE handler[h].at = "wait"
      <4>1. handler[h].next = "drop"
        BY <1>4, <1>6, <2>2, <3>1, <3>2 DEF MessageSound, Command
      <4>2. SecondCommand(h)
        BY <3>1, <4>1 DEF SecondCommand, FirstCommand
      <4> QED
        BY <1>6, <3>1, <3>2, <4>2
    <3>3. CASE handler[h].at = "gone"
      BY <1>1, <1>5, <2>2, <3>1, <3>3 DEF HandlerSound
    <3> QED
      BY <1>4, <1>6, <2>2, <3>1, <3>2, <3>3 DEF MessageSound
  <2>3. CASE m.what = "create"
    <3>1. h # "none"
      BY FrontAssumption
    <3> QED
      BY <1>5, <2>3, <3>1
  <2> QED
    BY <1>3, <2>1, <2>2, <2>3
<1>12. alive' \/ mayLack'
  BY <1>2, <1>7
<1>13. TableSound'
  BY <1>10, <1>11, <1>12 DEF TableSound, Succeeded
<1> QED
  BY <1>6, <1>8, <1>13 DEF FrontInv

(* RecordHistory: the message turns into the one row of its handler.       *)
LEMMA HistoryStep == ASSUME FrontInv, RecordHistory PROVE FrontInv'
<1>1. FrontTypeOK /\ LineSound /\ (\A g \in Handlers : HandlerSound(g)) /\ TableSound
  BY DEF FrontInv
<1>2. PICK m \in Message :
         /\ busy = m /\ m.what = "history" /\ alive
         /\ history' = Append(history, HistoryRow(m))
         /\ busy' = Free
         /\ UNCHANGED <<handler, queue, alive, gauge, lost, tableOf, executed, leaked,
                        mayLack, panics, hangups, timeouts, badRows>>
  <2>1. busy # Free
    BY DEF RecordHistory, Free
  <2> QED
    BY <1>1, <2>1 DEF FrontTypeOK, RecordHistory, KeepsRow, Bounds
<1>3. PICK row : /\ row = [of |-> m.of, status |-> m.status] /\ history' = Append(history, row)
                 /\ m.of \in Handlers /\ m.status \in Outcomes /\ m # Free
  BY <1>2, MessageTyped DEF HistoryRow
<1>4. /\ 1 \in DOMAIN Line /\ Line[1] = m
      /\ \A i \in DOMAIN Line' : i + 1 \in DOMAIN Line /\ i + 1 # 1 /\ Line'[i] = Line[i + 1]
      /\ \A i \in DOMAIN Line : i = 1 \/ (i - 1 \in DOMAIN Line' /\ Line'[i - 1] = Line[i])
      /\ Line' \in Seq(Message)
  BY <1>1, <1>2, <1>3, FinishShortensLine
<1>5. PICK last : /\ last \notin DOMAIN history
                  /\ DOMAIN history' = DOMAIN history \cup {last}
                  /\ history'[last] = row
                  /\ \A i \in DOMAIN history : history'[i] = history[i]
                  /\ history' \in Seq([of : Handlers, status : Outcomes])
  <2>1. history \in Seq([of : Handlers, status : Outcomes]) /\ row \in [of : Handlers, status : Outcomes]
    BY <1>1, <1>3 DEF FrontTypeOK
  <2>2. /\ DOMAIN history = 1 .. Len(history) /\ Len(history) \in Nat
        /\ history' \in Seq([of : Handlers, status : Outcomes])
        /\ Len(history') = Len(history) + 1
        /\ \A i \in 1 .. Len(history) : history'[i] = history[i]
        /\ history'[Len(history) + 1] = row
    BY <1>3, <2>1, AppendProperties, LenProperties
  <2>3. DOMAIN history' = 1 .. (Len(history) + 1)
    BY <2>2, LenProperties
  <2>4. /\ Len(history) + 1 \notin DOMAIN history
        /\ DOMAIN history' = DOMAIN history \cup {Len(history) + 1}
    BY <2>2, <2>3
  <2> QED
    BY <2>2, <2>4
<1>6. FrontTypeOK'
  BY <1>1, <1>2, <1>5 DEF FrontTypeOK
<1>7. \A g \in Handlers : (Counted(g)' <=> Counted(g)) /\ Command(g)' = Command(g)
  BY <1>2 DEF Counted, Command
<1>8. MessageSound(m) /\ \A i \in DOMAIN history : history[i].of # m.of /\ history[i].of \in Handlers
  BY <1>1, <1>2, <1>4, RowsTyped DEF LineSound
<1>9. ASSUME NEW i \in DOMAIN Line' PROVE MessageSound(Line[i])'
  <2>1. PICK n : n = Line[i + 1] /\ n \in Message /\ MessageSound(n) /\ Line'[i] = n
    BY <1>1, <1>4, LineTyped DEF LineSound
  <2>2. n.of \in Handlers
    BY <2>1, MessageTyped
  <2>3. MessageSound(n)'
    BY <1>2, <1>7, <2>1, <2>2 DEF MessageSound
  <2> QED
    BY <2>1, <2>3 DEF MessageSound
<1>10. \A i, k \in DOMAIN Line' : Alike(Line'[i], Line'[k]) => i = k
  <2> SUFFICES ASSUME NEW i \in DOMAIN Line', NEW k \in DOMAIN Line', Alike(Line'[i], Line'[k])
               PROVE  i = k
    OBVIOUS
  <2>1. i + 1 = k + 1
    BY <1>1, <1>4 DEF LineSound
  <2>2. i \in Nat /\ k \in Nat
    BY <1>4, LenProperties
  <2> QED
    BY <2>1, <2>2
<1>11. ASSUME NEW i \in DOMAIN history' PROVE RowSound(i)'
  <2>1. CASE i = last
    BY <1>2, <1>3, <1>5, <1>7, <1>8, <2>1 DEF RowSound, MessageSound
  <2>2. CASE i # last
    <3>1. i \in DOMAIN history /\ history'[i] = history[i] /\ RowSound(i) /\ history[i].of \in Handlers
      BY <1>1, <1>5, <1>8, <2>2 DEF LineSound
    <3> QED
      BY <1>2, <1>7, <3>1 DEF RowSound
  <2> QED
    BY <2>1, <2>2
<1>12. \A i, k \in DOMAIN history' : history'[i].of = history'[k].of => i = k
  BY <1>1, <1>3, <1>5, <1>8 DEF LineSound
<1>13. \A i \in DOMAIN history', k \in DOMAIN Line' :
          Line'[k].what = "history" => Line'[k].of # history'[i].of
  <2> SUFFICES ASSUME NEW i \in DOMAIN history', NEW k \in DOMAIN Line', Line'[k].what = "history"
               PROVE  Line'[k].of # history'[i].of
    OBVIOUS
  <2>1. k + 1 \in DOMAIN Line /\ k + 1 # 1 /\ Line'[k] = Line[k + 1]
    BY <1>4
  <2>2. Line'[k].of # m.of
    BY <1>1, <1>2, <1>4, <2>1 DEF LineSound, Alike
  <2>3. \A j \in DOMAIN history : Line'[k].of # history[j].of
    BY <1>1, <2>1 DEF LineSound
  <2> QED
    BY <1>3, <1>5, <2>2, <2>3
<1>14. LineSound'
  BY <1>2, <1>9, <1>10, <1>11, <1>12, <1>13 DEF LineSound
<1>15. \A g \in Handlers : Said(g) => Said(g)'
  <2> SUFFICES ASSUME NEW g \in Handlers, Said(g) PROVE Said(g)'
    OBVIOUS
  <2>1. CASE (\E i \in DOMAIN history : history[i].of = g) \/ g \in lost
    BY <1>2, <1>5, <2>1 DEF Said
  <2>2. CASE \E i \in DOMAIN Line : Line[i].what = "history" /\ Line[i].of = g
    <3>1. PICK i \in DOMAIN Line : Line[i].what = "history" /\ Line[i].of = g
      BY <2>2
    <3>2. CASE i = 1
      BY <1>3, <1>4, <1>5, <3>1, <3>2 DEF Said
    <3>3. CASE i # 1
      BY <1>4, <3>1, <3>3 DEF Said
    <3> QED
      BY <3>2, <3>3
  <2> QED
    BY <2>1, <2>2 DEF Said
<1>16. \A g \in Handlers : HandlerSound(g)'
  BY <1>1, <1>2, <1>15, HandlerFrame
<1>17. TableSound'
  BY <1>1, <1>2 DEF TableSound
<1>18. InGauge' = InGauge
  BY <1>2, <1>7 DEF InGauge
<1> QED
  BY <1>2, <1>6, <1>14, <1>16, <1>17, <1>18 DEF FrontInv

(* LoseHistory: the message leaves the line, and its handler is noted.     *)
LEMMA LoseStep == ASSUME FrontInv, LoseHistory PROVE FrontInv'
<1>1. FrontTypeOK /\ LineSound /\ (\A g \in Handlers : HandlerSound(g)) /\ TableSound
  BY DEF FrontInv
<1>2. PICK m \in Message :
         /\ busy = m /\ m.what = "history" /\ alive /\ m.of \in Handlers /\ m # Free
         /\ lost' = lost \cup {m.of} /\ busy' = Free
         /\ UNCHANGED <<handler, queue, alive, gauge, history, tableOf, executed, leaked,
                        mayLack, panics, hangups, timeouts, badRows>>
  <2>1. busy # Free
    BY DEF LoseHistory, Free
  <2>2. busy \in Message
    BY <1>1, <2>1 DEF FrontTypeOK
  <2> QED
    BY <2>1, <2>2, MessageTyped DEF LoseHistory, Bounds
<1>3. /\ 1 \in DOMAIN Line /\ Line[1] = m
      /\ \A i \in DOMAIN Line' : i + 1 \in DOMAIN Line /\ i + 1 # 1 /\ Line'[i] = Line[i + 1]
      /\ \A i \in DOMAIN Line : i = 1 \/ (i - 1 \in DOMAIN Line' /\ Line'[i - 1] = Line[i])
      /\ Line' \in Seq(Message)
  BY <1>1, <1>2, FinishShortensLine
<1>4. FrontTypeOK'
  BY <1>1, <1>2 DEF FrontTypeOK
<1>5. \A g \in Handlers : (Counted(g)' <=> Counted(g)) /\ Command(g)' = Command(g)
  BY <1>2 DEF Counted, Command
<1>6. ASSUME NEW i \in DOMAIN Line' PROVE MessageSound(Line[i])'
  <2>1. PICK n : n = Line[i + 1] /\ n \in Message /\ MessageSound(n) /\ Line'[i] = n
    BY <1>1, <1>3, LineTyped DEF LineSound
  <2>2. n.of \in Handlers
    BY <2>1, MessageTyped
  <2>3. MessageSound(n)'
    BY <1>2, <1>5, <2>1, <2>2 DEF MessageSound
  <2> QED
    BY <2>1, <2>3 DEF MessageSound
<1>7. \A i, k \in DOMAIN Line' : Alike(Line'[i], Line'[k]) => i = k
  <2> SUFFICES ASSUME NEW i \in DOMAIN Line', NEW k \in DOMAIN Line', Alike(Line'[i], Line'[k])
               PROVE  i = k
    OBVIOUS
  <2>1. i + 1 = k + 1
    BY <1>1, <1>3 DEF LineSound
  <2>2. i \in Nat /\ k \in Nat
    BY <1>3, LenProperties
  <2> QED
    BY <2>1, <2>2
<1>8. \A i \in DOMAIN history : RowSound(i)'
  <2> SUFFICES ASSUME NEW i \in DOMAIN history PROVE RowSound(i)'
    OBVIOUS
  <2>1. RowSound(i) /\ history[i].of \in Handlers
    BY <1>1, RowsTyped DEF LineSound
  <2> QED
    BY <1>2, <1>5, <2>1 DEF RowSound
<1>9. LineSound'
  <2>1. \A i \in DOMAIN history, k \in DOMAIN Line' :
           Line'[k].what = "history" => Line'[k].of # history[i].of
    BY <1>1, <1>3 DEF LineSound
  <2> QED
    BY <1>1, <1>2, <1>6, <1>7, <1>8, <2>1 DEF LineSound
<1>10. \A g \in Handlers : Said(g) => Said(g)'
  <2> SUFFICES ASSUME NEW g \in Handlers, Said(g) PROVE Said(g)'
    OBVIOUS
  <2>1. CASE (\E i \in DOMAIN history : history[i].of = g) \/ g \in lost \/ g = m.of
    BY <1>2, <2>1 DEF Said
  <2>2. CASE g # m.of /\ \E i \in DOMAIN Line : Line[i].what = "history" /\ Line[i].of = g
    <3>1. PICK i \in DOMAIN Line : Line[i].what = "history" /\ Line[i].of = g
      BY <2>2
    <3>2. i # 1
      BY <1>3, <2>2, <3>1
    <3> QED
      BY <1>3, <3>1, <3>2 DEF Said
  <2> QED
    BY <2>1, <2>2 DEF Said
<1>11. \A g \in Handlers : HandlerSound(g)'
  BY <1>1, <1>2, <1>10, HandlerFrame
<1>12. TableSound'
  BY <1>1, <1>2 DEF TableSound
<1>13. InGauge' = InGauge
  BY <1>2, <1>5 DEF InGauge
<1> QED
  BY <1>2, <1>4, <1>9, <1>11, <1>12, <1>13 DEF FrontInv

(* A panic of the engine empties the line; who waits is answered by an     *)
(* error.                                                                  *)
LEMMA PanicStep == ASSUME FrontInv, EnginePanics PROVE FrontInv'
<1>1. FrontTypeOK /\ LineSound /\ (\A g \in Handlers : HandlerSound(g)) /\ TableSound
  BY DEF FrontInv
<1>2. /\ alive' = FALSE /\ busy' = Free /\ queue' = <<>> /\ mayLack' = TRUE /\ panics' = panics + 1
      /\ UNCHANGED <<handler, gauge, history, lost, tableOf, executed, leaked, hangups, timeouts, badRows>>
  BY DEF EnginePanics
<1>3. Line' = <<>> /\ DOMAIN Line' = {}
  BY <1>2 DEF Line
<1>4. FrontTypeOK'
  <2>1. queue' \in Seq(Message)
    BY <1>2
  <2>2. panics' \in Nat
    BY <1>1, <1>2 DEF FrontTypeOK
  <2>3. mayLack' \in BOOLEAN /\ alive' \in BOOLEAN
    BY <1>2, Zenon
  <2> QED
    BY <1>1, <1>2, <2>1, <2>2, <2>3 DEF FrontTypeOK
<1>5. \A g \in Handlers : Counted(g)' <=> Counted(g)
  BY <1>2 DEF Counted
<1>6. \A i \in DOMAIN history : RowSound(i)'
  <2> SUFFICES ASSUME NEW i \in DOMAIN history PROVE RowSound(i)'
    OBVIOUS
  <2>1. RowSound(i) /\ history[i].of \in Handlers
    BY <1>1, RowsTyped DEF LineSound
  <2> QED
    BY <1>2, <1>5, <2>1 DEF RowSound
<1>7. LineSound'
  BY <1>1, <1>2, <1>3, <1>6 DEF LineSound
<1>8. \A g \in Handlers : HandlerSound(g)'
  BY <1>1, <1>2, HandlerFrame
<1>9. TableSound'
  BY <1>1, <1>2 DEF TableSound
<1>10. InGauge' = InGauge
  BY <1>2, <1>5 DEF InGauge
<1> QED
  BY <1>2, <1>4, <1>7, <1>8, <1>9, <1>10 DEF FrontInv
-------------------------------------------------------------------------------
\* Every step, and what the server reports.

(* No request, an idle engine, an empty history.                           *)
LEMMA FrontInitInv == ASSUME FrontInit PROVE FrontInv
<1>1. Line = <<>> /\ DOMAIN Line = {} /\ DOMAIN history = {}
  BY DEF FrontInit, Line
<1>2. \A h \in Handlers : handler[h] = New /\ ~Counted(h) /\ executed[h] = <<>>
  BY DEF FrontInit, Counted, New
<1>3. FrontTypeOK
  <2>1. handler \in [Handlers -> Request]
    BY DEF FrontInit, New, Request, QueryRequest, Places
  <2>2. executed \in [Handlers -> Seq({"success", "error"})]
    BY DEF FrontInit
  <2>3. alive \in BOOLEAN /\ mayLack \in BOOLEAN
    BY Zenon DEF FrontInit
  <2>4. /\ queue \in Seq(Message) /\ busy \in Message \cup {Free}
        /\ history \in Seq([of : Handlers, status : Outcomes])
        /\ tableOf \in Handlers \cup {"none"} /\ leaked \subseteq Handlers /\ lost \subseteq Handlers
        /\ panics \in Nat /\ hangups \in Nat /\ timeouts \in Nat /\ badRows \in Nat
    BY DEF FrontInit
  <2> QED
    BY <2>1, <2>2, <2>3, <2>4 DEF FrontTypeOK
<1>4. InGauge = {} /\ Cardinality({}) = 0
  BY <1>2, FS_EmptySet DEF InGauge, FrontInit
<1>5. LineSound
  BY <1>1 DEF LineSound
<1>6. \A h \in Handlers : HandlerSound(h)
  BY <1>2 DEF HandlerSound, New, Waiting, FrontInit
<1>7. TableSound
  BY <1>2 DEF TableSound, New, Ingests, FrontInit
<1> QED
  BY <1>3, <1>4, <1>5, <1>6, <1>7 DEF FrontInv, FrontInit

(* Refuse, StartQuery and StartIngest.                                     *)
LEMMA EnterStep ==
    ASSUME FrontInv, NEW h \in Handlers,
           \/ Refuse(h)
           \/ \E kind \in {"query", "pg"} : StartQuery(h, kind)
           \/ \E kind \in {"load", "replace"} : StartIngest(h, kind)
    PROVE  FrontInv'
<1>1. PICK r \in Request :
         /\ handler[h] = New /\ handler' = [handler EXCEPT ![h] = r]
         /\ UNCHANGED <<queue, alive, leaked, mayLack, EngineSide, Bounds>>
         /\ \/ r.kind = "refused" /\ r.at = "done"
            \/ r.kind \in {"query", "pg"} \cup Ingests /\ r.at = "send"
         /\ r.kind = "load" => r.next = "create"
         /\ gauge' = IF r.kind \in {"query", "pg"} THEN gauge + 1 ELSE gauge
  <2>1. CASE Refuse(h)
    <3>1. [at |-> "done", kind |-> "refused", result |-> "error"] \in Request
      BY DEF Request, QueryRequest, Places, Outcomes
    <3> QED
      BY <2>1, <3>1 DEF Refuse
  <2>2. ASSUME NEW kind \in {"query", "pg"}, StartQuery(h, kind)
        PROVE  /\ [at |-> "send", kind |-> kind, result |-> "none"] \in Request
               /\ handler[h] = New
               /\ handler' = [handler EXCEPT ![h] = [at |-> "send", kind |-> kind, result |-> "none"]]
               /\ gauge' = gauge + 1
               /\ UNCHANGED <<queue, alive, leaked, mayLack, EngineSide, Bounds>>
    BY <2>2 DEF StartQuery, Request, QueryRequest, Places
  <2>3. CASE \E kind \in {"query", "pg"} : StartQuery(h, kind)
    BY <2>2, <2>3
  <2>4. ASSUME NEW kind \in {"load", "replace"}, StartIngest(h, kind)
        PROVE  \E r \in Request :
                 /\ handler[h] = New /\ handler' = [handler EXCEPT ![h] = r]
                 /\ UNCHANGED <<queue, alive, gauge, leaked, mayLack, EngineSide, Bounds>>
                 /\ r.kind \in Ingests /\ r.at = "send" /\ (r.kind = "load" => r.next = "create")
    <3>1. PICK r : r = [at |-> "send", kind |-> kind, result |-> "none", next |-> FirstCommand(kind)]
      OBVIOUS
    <3>2. r \in Request
      BY <3>1 DEF Request, IngestRequest, Ingests, Places, FirstCommand
    <3>3. r.kind \in Ingests /\ r.at = "send" /\ (r.kind = "load" => r.next = "create")
      BY <3>1 DEF Ingests, FirstCommand
    <3> QED
      BY <2>4, <3>1, <3>2, <3>3 DEF StartIngest
  <2>5. CASE \E kind \in {"load", "replace"} : StartIngest(h, kind)
    BY <2>4, <2>5 DEF Ingests
  <2> QED
    BY <2>1, <2>3, <2>5
<1>2. /\ FrontTypeOK' /\ LineSound' /\ (\A g \in Handlers : HandlerSound(g)')
      /\ TableSound'
      /\ InGauge' = IF r.kind \in {"query", "pg"} THEN InGauge \cup {h} ELSE InGauge
      /\ h \notin InGauge
  BY <1>1, BeginStep
<1>3. gauge' = Cardinality(InGauge')
  <2>1. InGauge \subseteq Handlers /\ gauge = Cardinality(InGauge)
    BY DEF InGauge, FrontInv, FrontTypeOK
  <2>2. IsFiniteSet(InGauge)
    BY <2>1, FS_Subset, FrontAssumption
  <2>3. Cardinality(InGauge \cup {h}) = Cardinality(InGauge) + 1
    BY <1>2, <2>2, FS_AddElement
  <2> QED
    BY <1>1, <1>2, <2>1, <2>3
<1> QED
  BY <1>2, <1>3 DEF FrontInv

(* Every step of the front keeps its invariant.                            *)
LEMMA FrontStep == ASSUME FrontInv, [FrontNext]_frontVars PROVE FrontInv'
<1>1. CASE UNCHANGED frontVars
  <2>1. UNCHANGED <<handler, queue, busy, alive, gauge, history, lost, tableOf, panics, hangups,
                    timeouts, badRows, executed, leaked, mayLack>>
    BY <1>1 DEF frontVars
  <2>2. \A g \in Handlers : (Counted(g)' <=> Counted(g)) /\ Command(g)' = Command(g)
    BY <2>1 DEF Counted, Command
  <2>3. Line' = Line /\ InGauge' = InGauge
    BY <2>1, <2>2 DEF Line, InGauge
  <2>4. LineSound'
    BY <2>1, <2>3 DEF FrontInv, LineSound, MessageSound, RowSound, Counted, Command
  <2>5. \A g \in Handlers : HandlerSound(g)'
    <3>1. \A g \in Handlers : Said(g)' <=> Said(g)
      BY <2>1, <2>3 DEF Said
    <3> QED
      BY <2>1, <3>1, HandlerFrame DEF FrontInv
  <2>6. FrontTypeOK' /\ TableSound'
    BY <2>1 DEF FrontInv, FrontTypeOK, TableSound
  <2> QED
    BY <2>1, <2>3, <2>4, <2>5, <2>6 DEF FrontInv
<1>2. ASSUME NEW h \in Handlers, Send(h) \/ Record(h) PROVE FrontInv'
  <2>1. gauge' = gauge
    BY <1>2 DEF Send, Record
  <2> QED
    BY <1>2, <2>1, SendStep, RecordStep DEF FrontInv
<1>3. ASSUME NEW h \in Handlers, EngineGone(h) \/ TimesOut(h) PROVE FrontInv'
  <2>1. panics \in Nat /\ hangups \in Nat /\ timeouts \in Nat /\ badRows \in Nat
    BY DEF FrontInv, FrontTypeOK
  <2>2. CASE EngineGone(h)
    BY <2>1, <2>2, GiveUpStep DEF EngineGone, Bounds
  <2>3. CASE TimesOut(h)
    <3>1. /\ handler[h].at \in Waiting /\ handler[h].kind = "query"
          /\ handler' = [handler EXCEPT ![h] = Returned(h, "timeout")] /\ Lower(h, "timeout")
          /\ UNCHANGED <<queue, alive, leaked, mayLack, EngineSide>>
      BY <2>3 DEF TimesOut
    <3>2. panics' \in Nat /\ hangups' \in Nat /\ timeouts' \in Nat /\ badRows' \in Nat
      BY <2>1, <2>3 DEF TimesOut
    <3> QED
      BY <3>1, <3>2, GiveUpStep
  <2> QED
    BY <1>3, <2>2, <2>3
<1>4. CASE FrontNext
  BY <1>2, <1>3, <1>4, EnterStep, HangUpStep, TakeStep, ExecuteStep, HistoryStep, LoseStep, PanicStep
     DEF FrontNext, HandlerStep, EngineStep
<1> QED
  BY <1>1, <1>4

(* Where the line lies in the channel and in the engine.                   *)
LEMMA LineParts ==
    ASSUME FrontTypeOK, busy # Free
    PROVE  /\ 1 \in DOMAIN Line /\ Line[1] = busy
           /\ \A k \in DOMAIN queue : k + 1 \in DOMAIN Line /\ k + 1 # 1 /\ Line[k + 1] = queue[k]
           /\ \A i \in DOMAIN Line : i = 1 \/ (i - 1 \in DOMAIN queue /\ queue[i - 1] = Line[i])
<1>1. /\ <<busy>> \in Seq(Message) /\ queue \in Seq(Message)
      /\ Line = <<busy>> \o queue
  BY DEF Line, FrontTypeOK
<1>2. /\ Len(queue) \in Nat /\ DOMAIN queue = 1 .. Len(queue)
      /\ Len(<<busy>>) = 1 /\ <<busy>>[1] = busy
  BY <1>1, LenProperties
<1>3. /\ <<busy>> \o queue \in Seq(Message)
      /\ Len(<<busy>> \o queue) = 1 + Len(queue)
      /\ \A i \in 1 .. 1 + Len(queue) :
           (<<busy>> \o queue)[i] = IF i <= 1 THEN <<busy>>[i] ELSE queue[i - 1]
  BY <1>1, <1>2, ConcatProperties
<1>4. DOMAIN (<<busy>> \o queue) = 1 .. 1 + Len(queue)
  BY <1>3, LenProperties
<1>5. 1 \in DOMAIN Line /\ Line[1] = busy
  BY <1>1, <1>2, <1>3, <1>4
<1>6. \A i \in DOMAIN queue : i + 1 \in 1 .. 1 + Len(queue) /\ i + 1 # 1 /\ ~(i + 1 <= 1)
                               /\ (i + 1) - 1 = i
  BY <1>2
<1>7. \A i \in 1 .. 1 + Len(queue) : i = 1 \/ (i - 1 \in DOMAIN queue /\ ~(i <= 1))
  BY <1>2
<1> QED
  BY <1>1, <1>3, <1>4, <1>5, <1>6, <1>7

(* Whose row could not be inserted has none, and none on its way.          *)
LostSound ==
    \A h \in lost :
      /\ Counted(h) /\ handler[h].at = "done"
      /\ \A i \in DOMAIN history : history[i].of # h
      /\ \A k \in DOMAIN Line : Line[k].what = "history" => Line[k].of # h

(* Nothing new is said of them.                                            *)
LEMMA LostFrame ==
    ASSUME LostSound, UNCHANGED <<lost, history>>, \A h \in lost : handler'[h] = handler[h],
           \A k \in DOMAIN Line' : \/ \E j \in DOMAIN Line : Line'[k] = Line[j]
                                  \/ Line'[k].what # "history" \/ Line'[k].of \notin lost
    PROVE  LostSound'
  BY DEF LostSound, Counted

(* A handler that moves on was not done.                                   *)
LEMMA LostHandlers ==
    ASSUME FrontInv, LostSound, UNCHANGED <<lost, history>>, NEW h \in Handlers, NEW r,
           handler[h].at # "done", handler' = [handler EXCEPT ![h] = r],
           \A k \in DOMAIN Line' : \/ \E j \in DOMAIN Line : Line'[k] = Line[j]
                                  \/ Line'[k].what # "history" \/ Line'[k].of = h
    PROVE  LostSound'
<1>1. h \notin lost /\ \A g \in lost : g \in Handlers
  BY DEF LostSound, FrontInv, FrontTypeOK
<1>2. \A g \in lost : handler'[g] = handler[g]
  BY <1>1 DEF FrontInv, FrontTypeOK
<1>3. \A k \in DOMAIN Line' : \/ \E j \in DOMAIN Line : Line'[k] = Line[j]
                              \/ Line'[k].what # "history" \/ Line'[k].of \notin lost
  BY <1>1
<1> QED
  BY <1>2, <1>3, LostFrame

(* Steps of a handler that send nothing.                                   *)
LEMMA LostKept ==
    ASSUME FrontInv, LostSound, NEW h \in Handlers,
           \/ Refuse(h) \/ EngineGone(h) \/ TimesOut(h) \/ HangUp(h)
           \/ \E kind \in {"query", "pg"} : StartQuery(h, kind)
           \/ \E kind \in {"load", "replace"} : StartIngest(h, kind)
    PROVE  LostSound'
<1>1. UNCHANGED <<lost, history, busy, queue>>
  BY DEF Refuse, EngineGone, TimesOut, HangUp, StartQuery, StartIngest, EngineSide
<1>2. handler[h].at # "done" /\ \E r : handler' = [handler EXCEPT ![h] = r]
  BY DEF Refuse, EngineGone, TimesOut, HangUp, StartQuery, StartIngest, Step, Waiting, New
<1>3. Line' = Line
  BY <1>1 DEF Line
<1> QED
  BY <1>1, <1>2, <1>3, LostHandlers

(* Send and Record.                                                        *)
LEMMA LostSent ==
    ASSUME FrontInv, LostSound, NEW h \in Handlers, Send(h) \/ Record(h)
    PROVE  LostSound'
<1>1. FrontTypeOK /\ handler[h] \in Request
  BY RequestTyped DEF FrontInv
<1>2. UNCHANGED <<lost, history, busy>> /\ handler[h].at # "done"
      /\ \E r : handler' = [handler EXCEPT ![h] = r]
  BY DEF Send, Record, EngineSide, Step
<1>3. CASE UNCHANGED queue
  <2>1. Line' = Line
    BY <1>2, <1>3 DEF Line
  <2> QED
    BY <1>2, <2>1, LostHandlers
<1>4. CASE queue' # queue
  <2>1. PICK m \in Message : queue' = Append(queue, m) /\ m.of = h
    <3>1. CASE Send(h)
      <4>1. Command(h) \in {"sql", "drop", "create"}
        <5>1. HandlerSound(h)
          BY DEF FrontInv
        <5> QED
          BY <3>1, <5>1, RequestTyped, <1>1 DEF Send, Command, Counted, HandlerSound, New
      <4>2. [what |-> Command(h), of |-> h] \in Message /\ [what |-> Command(h), of |-> h].of = h
        BY <4>1 DEF Message
      <4> QED
        BY <3>1, <4>2 DEF Send
    <3>2. CASE Record(h)
      <4>1. handler[h].result \in Outcomes
        <5>1. HandlerSound(h)
          BY DEF FrontInv
        <5> QED
          BY <3>2, <5>1, RequestTyped, <1>1 DEF Record, HandlerSound
      <4>2. PICK m : m = [what |-> "history", of |-> h, status |-> handler[h].result]
        OBVIOUS
      <4>3. m \in Message /\ m.of = h
        BY <4>1, <4>2 DEF Message
      <4> QED
        BY <1>4, <3>2, <4>2, <4>3 DEF Record
    <3> QED
      BY <3>1, <3>2
  <2>2. \A k \in DOMAIN Line' : (\E j \in DOMAIN Line : Line'[k] = Line[j]) \/ Line'[k].of = h
    BY <1>1, <1>2, <2>1, SendLengthensLine
  <2> QED
    BY <1>2, <2>2, LostHandlers
<1> QED
  BY <1>3, <1>4

(* The engine finishes a command, or the insert of a row.                  *)
LEMMA LostFinished ==
    ASSUME FrontInv, LostSound, ExecuteSql \/ ExecuteDrop \/ ExecuteCreate \/ RecordHistory \/ LoseHistory
    PROVE  LostSound'
<1>1. FrontTypeOK /\ LineSound
  BY DEF FrontInv
<1>2. PICK m \in Message : busy = m /\ m # Free /\ m.of \in Handlers /\ busy' = Free /\ queue' = queue
  <2>1. busy # Free
    <3>1. busy.what \in {"sql", "drop", "create", "history"}
      BY DEF ExecuteSql, ExecuteDrop, ExecuteCreate, RecordHistory, LoseHistory
    <3>2. Free.what = "free"
      BY DEF Free
    <3> QED
      BY <3>1, <3>2
  <2>2. busy \in Message
    BY <1>1, <2>1 DEF FrontTypeOK
  <2>3. busy' = Free /\ queue' = queue
    BY DEF ExecuteSql, ExecuteDrop, ExecuteCreate, RecordHistory, LoseHistory, Finish
  <2> QED
    BY <2>2, <2>3, MessageTyped
<1>3. /\ 1 \in DOMAIN Line /\ Line[1] = m
      /\ \A k \in DOMAIN Line' : k + 1 \in DOMAIN Line /\ k + 1 # 1 /\ Line'[k] = Line[k + 1]
  BY <1>1, <1>2, FinishShortensLine
<1>4. \A k \in DOMAIN Line' : \E j \in DOMAIN Line : Line'[k] = Line[j]
  BY <1>3
<1>5. CASE ExecuteSql \/ ExecuteDrop \/ ExecuteCreate
  <2>1. UNCHANGED <<lost, history>> /\ \E result : Reply(result)
    BY <1>5 DEF ExecuteSql, ExecuteDrop, ExecuteCreate, Finish
  <2>2. CASE handler[m.of].at = "wait"
    <3>1. PICK r : handler' = [handler EXCEPT ![m.of] = r]
      BY <1>2, <2>1, <2>2 DEF Reply
    <3> QED
      BY <1>2, <1>4, <2>1, <2>2, <3>1, LostHandlers
  <2>3. CASE handler[m.of].at # "wait"
    <3>1. handler' = handler
      BY <1>2, <2>1, <2>3 DEF Reply
    <3> QED
      BY <1>4, <2>1, <3>1, LostFrame
  <2> QED
    BY <2>2, <2>3
<1>6. CASE RecordHistory
  <2>1. m.what = "history" /\ UNCHANGED <<handler, lost>> /\ history' = Append(history, HistoryRow(m))
    BY <1>2, <1>6 DEF RecordHistory, KeepsRow, Bounds
  <2>2. m.of \notin lost
    BY <1>3, <2>1 DEF LostSound
  <2>3. PICK row : row = HistoryRow(m) /\ row = [of |-> m.of, status |-> m.status]
    BY DEF HistoryRow
  <2>4. \A i \in DOMAIN history' : (i \in DOMAIN history /\ history'[i] = history[i]) \/ history'[i] = row
    <3>1. history \in Seq([of : Handlers, status : Outcomes]) /\ row \in [of : Handlers, status : Outcomes]
      BY <1>1, <1>2, <2>1, <2>3, MessageTyped DEF FrontTypeOK, HistoryRow
    <3>2. /\ history' \in Seq([of : Handlers, status : Outcomes]) /\ Len(history') = Len(history) + 1
          /\ history'[Len(history) + 1] = row
          /\ \A i \in 1 .. Len(history) : history'[i] = history[i]
      BY <2>1, <2>3, <3>1, AppendProperties
    <3>3. DOMAIN history' = 1 .. Len(history') /\ DOMAIN history = 1 .. Len(history) /\ Len(history) \in Nat
      BY <3>1, <3>2, LenProperties
    <3> QED
      BY <3>2, <3>3
  <2> QED
    BY <1>4, <2>1, <2>2, <2>3, <2>4 DEF LostSound, Counted
<1>7. CASE LoseHistory
  <2>1. m.what = "history" /\ UNCHANGED <<handler, history>> /\ lost' = lost \cup {m.of}
    BY <1>2, <1>7 DEF LoseHistory
  <2>2. MessageSound(m)
    BY <1>1, <1>3 DEF LineSound
  <2>3. \A i \in DOMAIN history : history[i].of # m.of
    BY <1>1, <1>3, <2>1 DEF LineSound
  <2>4. \A k \in DOMAIN Line' : Line'[k].what = "history" => Line'[k].of # m.of
    BY <1>1, <1>3, <2>1 DEF LineSound, Alike
  <2>5. Counted(m.of) /\ handler[m.of].at = "done"
    BY <2>1, <2>2 DEF MessageSound
  <2> QED
    BY <1>4, <2>1, <2>3, <2>4, <2>5 DEF LostSound, Counted
<1> QED
  BY <1>5, <1>6, <1>7

(* Every step of the front.                                                *)
LEMMA LostStep == ASSUME FrontInv, LostSound, [FrontNext]_frontVars PROVE LostSound'
<1>1. CASE UNCHANGED frontVars
  <2>1. UNCHANGED <<handler, queue, busy, history, lost>>
    BY <1>1 DEF frontVars
  <2>2. Line' = Line
    BY <2>1 DEF Line
  <2> QED
    BY <2>1, <2>2, LostFrame
<1>2. CASE Take
  <2>1. Line' = Line /\ UNCHANGED <<handler, history, lost>>
    BY <1>2, TakeKeepsLine DEF Take, FrontInv
  <2> QED
    BY <2>1, LostFrame
<1>3. CASE EnginePanics
  <2>1. DOMAIN Line' = {} /\ UNCHANGED <<handler, history, lost>>
    BY <1>3 DEF EnginePanics, Line
  <2> QED
    BY <2>1, LostFrame
<1> QED
  BY <1>1, <1>2, <1>3, LostKept, LostSent, LostFinished DEF FrontNext, HandlerStep, EngineStep

(* Of whom no row could be inserted, none says anything.                   *)
LEMMA LostUnsaid ==
    ASSUME FrontInv, LostSound, NEW h \in lost
    PROVE  Cardinality(RowsSaying(h)) = 0
<1>1. FrontTypeOK
  BY DEF FrontInv
<1>2. \A k \in DOMAIN queue : \E j \in DOMAIN Line : Line[j] = queue[k]
  <2>1. CASE busy = Free
    BY <2>1 DEF Line
  <2>2. CASE busy # Free
    BY <1>1, <2>2, LineParts
  <2> QED
    BY <2>1, <2>2
<1>3. busy.what = "history" => busy.of # h
  <2>1. CASE busy = Free
    BY <2>1 DEF Free
  <2>2. CASE busy # Free
    BY <1>1, <2>2, LineParts DEF LostSound
  <2> QED
    BY <2>1, <2>2
<1>4. \A k \in DOMAIN queue : ~(queue[k].what = "history" /\ queue[k].of = h)
  BY <1>2 DEF LostSound
<1>5. {i \in DOMAIN history : history[i].of = h} = {}
  BY DEF LostSound
<1>6. {i \in {Len(history) + k : k \in DOMAIN queue} :
          LET m == queue[i - Len(history)] IN m.what = "history" /\ m.of = h} = {}
  <2>1. \A k \in DOMAIN queue : (Len(history) + k) - Len(history) = k
    <3>1. queue \in Seq(Message) /\ Len(history) \in Nat
      BY <1>1, RowsTyped DEF FrontTypeOK
    <3>2. DOMAIN queue = 1 .. Len(queue)
      BY <3>1, LenProperties
    <3> QED
      BY <3>1, <3>2
  <2> QED
    BY <1>4, <2>1
<1>7. RowsSaying(h) = {}
  BY <1>3, <1>5, <1>6 DEF RowsSaying
<1> QED
  BY <1>7, FS_EmptySet

(* What was said of a handler was said once.                               *)
LEMMA SaidOnce ==
    ASSUME FrontInv, NEW h \in Handlers, Said(h), h \notin lost
    PROVE  Cardinality(RowsSaying(h)) = 1
<1>1. FrontTypeOK /\ LineSound
  BY DEF FrontInv
<1> DEFINE InQueue(k) == queue[k].what = "history" /\ queue[k].of = h
           Busy == busy.what = "history" /\ busy.of = h
           Rows == {i \in DOMAIN history : history[i].of = h}
           Places2 == {i \in {Len(history) + k : k \in DOMAIN queue} :
                         LET m == queue[i - Len(history)] IN m.what = "history" /\ m.of = h}
<1>2. RowsSaying(h) = Rows \cup Places2 \cup (IF Busy THEN {0} ELSE {})
  BY DEF RowsSaying
<1>3. /\ Len(history) \in Nat /\ DOMAIN queue \subseteq Nat /\ DOMAIN Line \subseteq Nat
      /\ queue \in Seq(Message)
  <2>1. queue \in Seq(Message)
    BY <1>1 DEF FrontTypeOK
  <2> QED
    BY <1>1, <2>1, RowsTyped, LineTyped, LenProperties
<1>4. Places2 = {Len(history) + k : k \in {j \in DOMAIN queue : InQueue(j)}}
  <2>1. \A k \in DOMAIN queue : (Len(history) + k) - Len(history) = k
    BY <1>3
  <2> QED
    BY <2>1
<1>5. \A i, k \in DOMAIN Line : Line[i].what = "history" /\ Line[i].of = h
                               /\ Line[k].what = "history" /\ Line[k].of = h => i = k
  BY <1>1 DEF LineSound, Alike
<1>6. PICK x : RowsSaying(h) = {x}
  <2>1. CASE \E i \in DOMAIN history : history[i].of = h
    <3>1. PICK i \in DOMAIN history : history[i].of = h
      BY <2>1
    <3>2. Rows = {i}
      BY <1>1, <3>1 DEF LineSound
    <3>3. \A k \in DOMAIN Line : ~(Line[k].what = "history" /\ Line[k].of = h)
      BY <1>1, <3>1 DEF LineSound
    <3>4. ~Busy /\ \A k \in DOMAIN queue : ~InQueue(k)
      <4>1. CASE busy = Free
        BY <3>3, <4>1 DEF Line, Free
      <4>2. CASE busy # Free
        BY <1>1, <3>3, <4>2, LineParts
      <4> QED
        BY <4>1, <4>2
    <3>5. Places2 = {}
      BY <1>4, <3>4
    <3> HIDE DEF Rows, Places2, Busy
    <3> QED
      BY <1>2, <3>2, <3>4, <3>5
  <2>2. CASE ~\E i \in DOMAIN history : history[i].of = h
    <3>1. PICK j \in DOMAIN Line : Line[j].what = "history" /\ Line[j].of = h
      BY <2>2 DEF Said
    <3>2. Rows = {}
      BY <2>2
    <3>3. CASE busy = Free
      <4>1. ~Busy /\ Line = queue
        BY <3>3 DEF Line, Free
      <4>2. {k \in DOMAIN queue : InQueue(k)} = {j}
        BY <1>5, <3>1, <4>1
      <4>3. Places2 = {Len(history) + j}
        BY <1>4, <4>2
      <4> HIDE DEF Rows, Places2, Busy
      <4> QED
        BY <1>2, <3>2, <4>1, <4>3
    <3>4. CASE busy # Free /\ j = 1
      <4>1. Busy
        BY <1>1, <3>1, <3>4, LineParts
      <4>2. \A k \in DOMAIN queue : ~InQueue(k)
        BY <1>1, <1>5, <3>1, <3>4, LineParts
      <4>3. Places2 = {}
        BY <1>4, <4>2
      <4> HIDE DEF Rows, Places2, Busy
      <4> QED
        BY <1>2, <3>2, <4>1, <4>3
    <3>5. CASE busy # Free /\ j # 1
      <4>1. ~Busy
        BY <1>1, <1>5, <3>1, <3>5, LineParts
      <4>2. {k \in DOMAIN queue : InQueue(k)} = {j - 1}
        <5>1. j - 1 \in DOMAIN queue /\ InQueue(j - 1)
          BY <1>1, <3>1, <3>5, LineParts
        <5>2. ASSUME NEW k \in DOMAIN queue, InQueue(k) PROVE k = j - 1
          <6>1. k + 1 = j
            BY <1>1, <1>5, <3>1, <3>5, <5>2, LineParts
          <6> QED
            BY <1>3, <6>1
        <5> QED
          BY <5>1, <5>2
      <4>3. Places2 = {Len(history) + (j - 1)}
        BY <1>4, <4>2
      <4> HIDE DEF Rows, Places2, Busy
      <4> QED
        BY <1>2, <3>2, <4>1, <4>3
    <3> QED
      BY <3>3, <3>4, <3>5
  <2> QED
    BY <2>1, <2>2
<1> QED
  BY <1>6, FS_Singleton

(* The invariant says what QueryAccounting says.                           *)
LEMMA AccountsAgree == ASSUME FrontInv, LostSound PROVE QueryAccounting
<1>1. \A h \in Handlers : HandlerSound(h)
  BY DEF FrontInv
<1>2. \A i \in DOMAIN history : RowSound(i)
  BY DEF FrontInv, LineSound
<1>3. ASSUME NEW h \in Handlers, Counted(h), handler[h].at = "done", alive
      PROVE  /\ Cardinality(RowsSaying(h)) = IF h \in lost THEN 0 ELSE 1
             /\ handler[h].result # "timeout" => executed[h] = <<handler[h].result>>
  BY <1>1, <1>3, SaidOnce, LostUnsaid DEF HandlerSound
<1>4. \A i \in DOMAIN history : history[i].status = "success" =>
        executed[history[i].of] = <<"success">>
  BY <1>2 DEF RowSound
<1>5. gauge = Cardinality({h \in Handlers : Counted(h) /\ handler[h].at \in Waiting} \cup leaked)
  BY DEF FrontInv, InGauge
<1> QED
  BY <1>3, <1>4, <1>5 DEF QueryAccounting

(* The invariant says what ReplaceKeepsTable says.                         *)
LEMMA TableKept == ASSUME FrontInv PROVE ReplaceKeepsTable
  BY DEF FrontInv, TableSound, ReplaceKeepsTable, Ingests

(* What the metrics and the query history say is what the engine did, for  *)
(* any number of requests, any channel and any number of timeouts, clients *)
(* that go away, panics and history rows that cannot be inserted           *)
(* (execute_query, do_query, engine_handle).                               *)
THEOREM QueriesAccounted == FrontSpec => []QueryAccounting
<1>1. FrontInit => FrontInv /\ LostSound
  BY FrontInitInv DEF FrontInit, LostSound
<1>2. FrontInv /\ LostSound /\ [FrontNext]_frontVars => FrontInv' /\ LostSound'
  BY FrontStep, LostStep
<1>3. FrontInv /\ LostSound => QueryAccounting
  BY AccountsAgree
<1> QED
  BY <1>1, <1>2, <1>3, PTL DEF FrontSpec

(* Replacing ingests that interleave leave the rows of one of them (rest.rs *)
(* ingest), for any number of them.                                        *)
THEOREM TableReplaced == FrontSpec => []ReplaceKeepsTable
<1>1. FrontInit => FrontInv
  BY FrontInitInv
<1>2. FrontInv /\ [FrontNext]_frontVars => FrontInv'
  BY FrontStep
<1>3. FrontInv => ReplaceKeepsTable
  BY TableKept
<1> QED
  BY <1>1, <1>2, <1>3, PTL DEF FrontSpec

-------------------------------------------------------------------------------
\* The control plane.

Bodies == {"allowed", "denied", "missing_entitlement", "inactive_entitlement", "missing_feature",
           "identity_mismatch", "edited", "legacy"}
Owners == [account : Accounts, org : OrgIds]
Puts == [op : {"put"}, owner : Owners, key : ResourceIds]
Audits == [op : {"audit", "append"}, account : Accounts, body : Bodies]
Bootstraps == [op : {"bootstrap"}, account : Accounts]
Inserts == [op : {"insert"}, name : WarehouseNames, account : Accounts]
Statement == Puts \cup Audits \cup Bootstraps \cup Inserts
Hashes == Seq(Accounts \X Bodies)
Row == [id : Nat, account : Accounts, body : Bodies, prev : Hashes, hash : Hashes]

CpTypeOK ==
    /\ resource \in [ResourceIds -> Owners \cup {Nobody}]
    /\ activated \subseteq Accounts
    /\ warehouse \in [WarehouseNames -> Accounts \cup {"nobody"}]
    /\ log \in Seq(Row) /\ written \in Seq([body : Bodies, after : Nat])
    /\ call \in [Calls -> Seq(Statement)]
    /\ snapshot \subseteq Calls /\ tail \in [Calls -> Hashes]
    /\ started \in Nat /\ tampers \in Nat /\ nextRow \in Nat

OrgKey(o) == <<"organization", o.org>>
Under == {"workspace", "binding", "export"}

(* An organization that is there, of the account that is named or of one   *)
(* that has taken it over.                                                 *)
Stored(o) == /\ resource[OrgKey(o)] # Nobody
             /\ resource[OrgKey(o)].account = o.account \/ o.org \in taken

(* An id that is not shared is made of the account it belongs to.          *)
Rightful(o) == o.account = o.org[1] \/ o.org \in SharedIds

(* What is stored, and what a request has still to store: an organization  *)
(* under its own id, and the rest under one that is stored by then.        *)
PutsSound(s) ==
    \A i \in DOMAIN s : s[i].op = "put" =>
      /\ s[i].key[1] = "organization" => s[i].key = OrgKey(s[i].owner) /\ Rightful(s[i].owner)
      /\ s[i].key[1] \in Under =>
           \/ Stored(s[i].owner)
           \/ \E j \in DOMAIN s : /\ j < i /\ s[j].op = "put" /\ s[j].key = OrgKey(s[i].owner)
                                 /\ s[j].owner.account = s[i].owner.account

OwnersSound ==
    /\ \A k \in ResourceIds : resource[k] # Nobody =>
         /\ k[1] = "organization" => k = OrgKey(resource[k]) /\ Rightful(resource[k])
         /\ k[1] \in Under => Stored(resource[k])
    /\ \A c \in Calls : PutsSound(call[c])
    /\ taken \subseteq SharedIds

(* The log of an account: hashes grow, each over what was written, and a   *)
(* row whose link is the hash of an earlier one was written after it.      *)
LogSound ==
    /\ \A i \in DOMAIN log :
         IF log[i].hash = <<>> THEN i = 1
         ELSE /\ log[i].id \in DOMAIN written
              /\ log[i].hash = EntryHash(log[i].prev, log[i].account, written[log[i].id].body)
    /\ \A i, j \in DOMAIN log :
         i < j /\ log[i].account = log[j].account /\ log[i].hash # <<>> /\ log[j].hash # <<>> =>
           /\ Len(log[i].hash) < Len(log[j].hash)
           /\ log[j].prev = log[i].hash => written[log[j].id].after = log[i].id
    /\ nextRow = Len(written) + 1

(* A transaction whose read is still the newest holds the newest hash.     *)
TailsSound ==
    \A c \in snapshot :
      /\ call[c] # <<>> /\ call[c][1].op = "append"
      /\ \A row \in LastRows(call[c][1].account) : tail[c] = row.hash

AuditSound == /\ LogSound /\ TailsSound
              /\ tampers = 0 => \A a \in Accounts : VerifyAuditChain(a)
CpInv == CpTypeOK /\ OwnersSound /\ AuditSound
-------------------------------------------------------------------------------
\* Types.

(* The fields of a statement, by its operation.                            *)
LEMMA StatementTyped ==
    ASSUME NEW s \in Statement
    PROVE  /\ s.op \in {"put", "audit", "append", "bootstrap", "insert"}
           /\ s.op = "put" => s.owner \in Owners /\ s.key \in ResourceIds
           /\ s.op \in {"audit", "append"} => s \in Audits /\ s.account \in Accounts /\ s.body \in Bodies
           /\ s.op = "bootstrap" => s.account \in Accounts
           /\ s.op = "insert" => s.name \in WarehouseNames /\ s.account \in Accounts
  BY DEF Statement, Puts, Audits, Bootstraps, Inserts

(* The first statement of a request and those after it.                    *)
LEMMA CallTyped ==
    ASSUME CpTypeOK, NEW c \in Calls, call[c] # <<>>
    PROVE  /\ call[c] \in Seq(Statement) /\ Next1(c) \in Statement /\ Tail(call[c]) \in Seq(Statement)
           /\ Len(call[c]) \in Nat /\ DOMAIN call[c] = 1 .. Len(call[c]) /\ Len(call[c]) # 0
           /\ Next1(c) = call[c][1] /\ 1 \in DOMAIN call[c]
           /\ \A i \in DOMAIN Tail(call[c]) : i + 1 \in DOMAIN call[c] /\ Tail(call[c])[i] = call[c][i + 1]
           /\ \A i \in DOMAIN call[c] : i = 1 \/ (i - 1 \in DOMAIN Tail(call[c]) /\ Tail(call[c])[i - 1] = call[c][i])
<1>1. call[c] \in Seq(Statement)
  BY DEF CpTypeOK
<1>2. /\ Head(call[c]) = call[c][1] /\ Head(call[c]) \in Statement /\ Tail(call[c]) \in Seq(Statement)
      /\ Len(Tail(call[c])) = Len(call[c]) - 1
      /\ \A i \in 1 .. Len(Tail(call[c])) : Tail(call[c])[i] = call[c][i + 1]
  BY <1>1, HeadTailProperties
<1>3. /\ Len(call[c]) \in Nat /\ DOMAIN call[c] = 1 .. Len(call[c])
      /\ DOMAIN Tail(call[c]) = 1 .. Len(Tail(call[c])) /\ Len(Tail(call[c])) \in Nat
  BY <1>1, <1>2, LenProperties
<1>4. Len(call[c]) # 0
  BY <1>1, EmptySeq
<1> QED
  BY <1>1, <1>2, <1>3, <1>4 DEF Next1

(* An audit statement, a bootstrap and an insert are typed.                *)
LEMMA AuditTyped ==
    ASSUME NEW a \in Accounts, NEW body \in Bodies
    PROVE  Audit(a, body) \in Statement /\ Audit(a, body).op = "audit"
  BY DEF Audit, Statement, Audits

(* The audit statement of a request that is let through.                   *)
LEMMA AllowedTyped ==
    ASSUME NEW a \in Accounts
    PROVE  Audit(a, "allowed") \in Statement /\ Audit(a, "allowed").op = "audit"
<1>1. "allowed" \in Bodies
  BY DEF Bodies
<1> QED
  BY <1>1, AuditTyped

(* The statement of bootstrap_account.                                     *)
LEMMA BootstrapTyped ==
    ASSUME NEW a \in Accounts
    PROVE  /\ [op |-> "bootstrap", account |-> a] \in Statement
           /\ [op |-> "bootstrap", account |-> a].op = "bootstrap"
<1>1. [op |-> "bootstrap", account |-> a] \in Bootstraps
  BY DEF Bootstraps
<1> QED
  BY <1>1 DEF Statement

-------------------------------------------------------------------------------
\* What is stored lies under its organization.

(* A request that starts brings sound statements, and changes nothing.     *)
LEMMA Begins ==
    ASSUME CpTypeOK, OwnersSound, NEW c \in Calls, NEW s \in Seq(Statement), PutsSound(s),
           Fresh(c), call' = [call EXCEPT ![c] = s], Quiet \/ StatementsWait
    PROVE  CpTypeOK' /\ OwnersSound'
<1>0. UNCHANGED <<resource, activated, warehouse, log, taken, tail, tampers, nextRow, written>>
  BY DEF Quiet, StatementsWait
<1>1. /\ call' \in [Calls -> Seq(Statement)] /\ call'[c] = s
      /\ \A d \in Calls \ {c} : call'[d] = call[d]
  BY DEF CpTypeOK
<1>2. CpTypeOK'
  BY <1>0, <1>1 DEF CpTypeOK, Fresh
<1>3. \A d \in Calls : PutsSound(call[d])'
  BY <1>0, <1>1 DEF OwnersSound, PutsSound, Stored
<1>4. OwnersSound'
  BY <1>0, <1>3 DEF OwnersSound, Stored
<1> QED
  BY <1>2, <1>4

(* The statement that stores a resource under its account and              *)
(* organization.                                                           *)
LEMMA PutTyped ==
    ASSUME NEW kind, NEW id, <<kind, id>> \in ResourceIds, NEW a \in Accounts, NEW org \in OrgIds
    PROVE  /\ Put(kind, id, a, org) \in Statement
           /\ Put(kind, id, a, org).op = "put"
           /\ Put(kind, id, a, org).owner = Owner(a, org)
           /\ Put(kind, id, a, org).key = <<kind, id>>
<1>1. Owner(a, org) \in Owners
  BY DEF Owner, Owners
<1> QED
  BY <1>1 DEF Put, Statement, Puts

(* The id of an organization is that of its account, or shared.            *)
LEMMA OrgIdTyped ==
    ASSUME NEW a \in Accounts
    PROVE  /\ Main(a) \in OrgIds /\ Rightful(Owner(a, Main(a)))
           /\ \A slug \in Slugs : OrgId(a, slug) \in OrgIds /\ Rightful(Owner(a, OrgId(a, slug)))
<1>1. Main(a) \in OrgIds /\ Main(a)[1] = a
  BY DEF Main, OrgIds, AllSlugs
<1>2. ASSUME NEW slug \in Slugs
      PROVE  OrgId(a, slug) \in OrgIds /\ Rightful(Owner(a, OrgId(a, slug)))
  <2>1. CASE \E b \in Accounts : <<a, slug, b>> \in Joined
    <3>1. PICK b \in Accounts, j \in Joined : j = <<a, slug, b>> /\ OrgId(a, slug) = <<b, DefaultSlug>>
      BY <2>1 DEF OrgId
    <3>2. j[3] = b
      BY <3>1
    <3>3. <<b, DefaultSlug>> \in SharedIds
      BY <3>1, <3>2 DEF SharedIds
    <3>4. <<b, DefaultSlug>> \in OrgIds
      BY DEF OrgIds, AllSlugs
    <3> QED
      BY <3>1, <3>3, <3>4 DEF Rightful, Owner
  <2>2. CASE ~\E b \in Accounts : <<a, slug, b>> \in Joined
    <3>1. OrgId(a, slug) = <<a, slug>> /\ <<a, slug>> \in OrgIds /\ <<a, slug>>[1] = a
      BY <2>2 DEF OrgId, OrgIds, AllSlugs
    <3> QED
      BY <3>1 DEF Rightful, Owner
  <2> QED
    BY <2>1, <2>2
<1> QED
  BY <1>1, <1>2 DEF Rightful, Owner

(* The ids under which resources are stored.                               *)
LEMMA IdsTyped ==
    ASSUME NEW a \in Accounts, NEW org \in OrgIds, NEW slug \in AllSlugs
    PROVE  /\ \A kind \in {"account", "organization", "workspace", "export"} : <<kind, org>> \in ResourceIds
           /\ \A kind \in {"workspace", "export"} : <<kind, NewId(kind, a, org, slug)>> \in ResourceIds
           /\ slug \in Slugs => /\ <<"binding", <<"any", slug>>>> \in ResourceIds
                              /\ NewId("binding", a, org, slug) = <<"any", slug>>
  BY DEF ResourceIds, NewId, OrgIds

(* Denied requests and allowed ones write the audit log.                   *)
LEMMA AuditsSound ==
    ASSUME NEW a \in Accounts, NEW body \in Bodies
    PROVE  <<Audit(a, body)>> \in Seq(Statement) /\ PutsSound(<<Audit(a, body)>>)
<1>1. <<Audit(a, body)>> \in Seq(Statement)
  BY AuditTyped
<1>2. \A i \in DOMAIN <<Audit(a, body)>> : <<Audit(a, body)>>[i].op = "audit"
  <2>1. PICK m : m = Audit(a, body) /\ m.op = "audit"
    BY AuditTyped
  <2>2. \A i \in DOMAIN <<m>> : <<m>>[i] = m
    OBVIOUS
  <2> QED
    BY <2>1, <2>2
<1> QED
  BY <1>1, <1>2 DEF PutsSound

(* A resource and its audit, under an organization that is stored.         *)
LEMMA PutAuditSound ==
    ASSUME NEW kind, NEW id, <<kind, id>> \in ResourceIds, NEW a \in Accounts, NEW org \in OrgIds,
           \/ kind = "organization" /\ id = org /\ Rightful(Owner(a, org))
           \/ kind \in Under /\ Stored(Owner(a, org))
    PROVE  /\ <<Put(kind, id, a, org), Audit(a, "allowed")>> \in Seq(Statement)
           /\ PutsSound(<<Put(kind, id, a, org), Audit(a, "allowed")>>)
<1>0. PICK m : m = Audit(a, "allowed") /\ m \in Statement /\ m.op = "audit"
  BY AllowedTyped
<1>1. PICK p : /\ p = Put(kind, id, a, org)
               /\ p \in Statement /\ p.op = "put"
               /\ p.owner = Owner(a, org) /\ p.key = <<kind, id>> /\ p.key[1] = kind
  BY PutTyped
<1>2. <<p, m>> \in Seq(Statement) /\ DOMAIN <<p, m>> = {1, 2} /\ <<p, m>>[1] = p /\ <<p, m>>[2] = m
  BY <1>0, <1>1
<1>3. kind = "organization" => p.key = OrgKey(p.owner) /\ Rightful(p.owner)
  BY <1>1 DEF OrgKey, Owner, Under
<1>4. kind \in Under => Stored(p.owner)
  BY <1>1 DEF Under
<1> QED
  BY <1>0, <1>1, <1>2, <1>3, <1>4 DEF PutsSound

(* An owner that was read names an organization that is stored.            *)
LEMMA OwnerRead ==
    ASSUME CpTypeOK, OwnersSound, NEW k \in ResourceIds, resource[k] # Nobody,
           k[1] \in Under \cup {"organization"}
    PROVE  /\ resource[k] \in Owners
           /\ resource[k].account \in Accounts /\ resource[k].org \in OrgIds
           /\ resource[k] = Owner(resource[k].account, resource[k].org)
           /\ k[1] = "organization" => k = OrgKey(resource[k])
           /\ Stored(resource[k])
<1>1. /\ resource[k] \in Owners
      /\ resource[k].account \in Accounts /\ resource[k].org \in OrgIds
      /\ resource[k] = Owner(resource[k].account, resource[k].org)
      /\ k[1] = "organization" => k = OrgKey(resource[k])
  BY DEF CpTypeOK, OwnersSound, Owners, Owner
<1>2. Stored(resource[k])
  BY <1>1 DEF OwnersSound, Stored
<1> QED
  BY <1>1, <1>2

(* A request that found its organization may store under it.               *)
LEMMA OrganizationRead ==
    ASSUME CpTypeOK, OwnersSound, NEW org \in OrgIds,
           resource[<<"organization", org>>].account # Nobody.account
    PROVE  \E a \in Accounts : /\ resource[<<"organization", org>>].account = a
                              /\ Stored(Owner(a, org))
<1>1. PICK k : k = <<"organization", org>>
  OBVIOUS
<1>2. k \in ResourceIds /\ k[1] = "organization" /\ k[2] = org
  BY <1>1 DEF ResourceIds
<1>3. resource[k] # Nobody
  BY <1>1
<1>4. /\ k = OrgKey(resource[k]) /\ Stored(resource[k]) /\ resource[k].account \in Accounts
      /\ resource[k] = Owner(resource[k].account, resource[k].org)
  BY <1>2, <1>3, OwnerRead
<1>5. resource[k].org = org
  BY <1>1, <1>4 DEF OrgKey
<1> QED
  BY <1>1, <1>4, <1>5

(* create_account_control_plane: each statement finds what it lies under.  *)
LEMMA AccountBegins ==
    ASSUME CpTypeOK, OwnersSound, NEW c \in Calls, NEW a \in Accounts, CreateAccount(c, a)
    PROVE  CpTypeOK' /\ OwnersSound'
<1>1. Main(a) \in OrgIds /\ Rightful(Owner(a, Main(a)))
  BY OrgIdTyped
<1>2. PICK b, p, q, r, m :
         /\ b = [op |-> "bootstrap", account |-> a]
         /\ p = Put("account", Main(a), a, Main(a))
         /\ q = Put("organization", Main(a), a, Main(a))
         /\ r = Put("workspace", Main(a), a, Main(a))
         /\ m = Audit(a, "allowed")
  OBVIOUS
<1>3. /\ p \in Statement /\ q \in Statement /\ r \in Statement
      /\ p.op = "put" /\ q.op = "put" /\ r.op = "put"
      /\ p.key[1] = "account" /\ q.key[1] = "organization" /\ r.key[1] = "workspace"
      /\ q.owner = Owner(a, Main(a)) /\ r.owner = Owner(a, Main(a))
      /\ q.key = <<"organization", Main(a)>>
  <2>1. DefaultSlug \in AllSlugs
    BY DEF AllSlugs
  <2>2. \A kind \in {"account", "organization", "workspace"} : <<kind, Main(a)>> \in ResourceIds
    BY <1>1, <2>1, IdsTyped
  <2>3. \A kind \in {"account", "organization", "workspace"} :
           /\ Put(kind, Main(a), a, Main(a)) \in Statement
           /\ Put(kind, Main(a), a, Main(a)).op = "put"
           /\ Put(kind, Main(a), a, Main(a)).owner = Owner(a, Main(a))
           /\ Put(kind, Main(a), a, Main(a)).key = <<kind, Main(a)>>
    BY <1>1, <2>2, PutTyped
  <2> QED
    BY <1>2, <2>3
<1>4. b \in Statement /\ b.op = "bootstrap" /\ m \in Statement /\ m.op = "audit"
  BY <1>2, AllowedTyped, BootstrapTyped
<1>5. PICK s \in Seq(Statement) : s = <<b, p, q, r, m>>
  <2>1. <<b, p, q, r, m>> \in Seq(Statement)
    BY <1>3, <1>4
  <2> QED
    BY <2>1
<1>6. /\ DOMAIN s = 1 .. 5 /\ s[1] = b /\ s[2] = p /\ s[3] = q /\ s[4] = r /\ s[5] = m
  BY <1>5
<1>7. /\ q.key = OrgKey(q.owner) /\ q.key = OrgKey(r.owner)
      /\ Rightful(q.owner) /\ q.owner.account = r.owner.account
  BY <1>1, <1>3 DEF OrgKey, Owner
<1>8. PutsSound(s)
  <2> SUFFICES ASSUME NEW i \in DOMAIN s, s[i].op = "put"
               PROVE  /\ s[i].key[1] = "organization" => s[i].key = OrgKey(s[i].owner) /\ Rightful(s[i].owner)
                      /\ s[i].key[1] \in Under =>
                           \/ Stored(s[i].owner)
                           \/ \E j \in DOMAIN s : /\ j < i /\ s[j].op = "put" /\ s[j].key = OrgKey(s[i].owner)
                                                 /\ s[j].owner.account = s[i].owner.account
    BY DEF PutsSound
  <2>1. i \in {2, 3, 4}
    BY <1>3, <1>4, <1>6
  <2>2. CASE i = 2
    BY <1>3, <1>6, <2>2 DEF Under
  <2>3. CASE i = 3
    BY <1>3, <1>6, <1>7, <2>3 DEF Under
  <2>4. CASE i = 4
    <3>1. 3 \in DOMAIN s /\ 3 < 4
      BY <1>6
    <3> QED
      BY <1>3, <1>6, <1>7, <2>4, <3>1
  <2> QED
    BY <2>1, <2>2, <2>3, <2>4
<1>9. Fresh(c) /\ call' = [call EXCEPT ![c] = s] /\ Quiet
  BY <1>2, <1>5 DEF CreateAccount
<1> QED
  BY <1>8, <1>9, Begins

(* create_organization_control_plane.                                      *)
LEMMA OrganizationBegins ==
    ASSUME CpTypeOK, OwnersSound, NEW c \in Calls, NEW actor \in Accounts, NEW a \in Accounts,
           NEW slug \in Slugs, NEW glass \in BOOLEAN, CreateOrganization(c, actor, a, slug, glass)
    PROVE  CpTypeOK' /\ OwnersSound'
<1>1. PICK id \in OrgIds : id = OrgId(a, slug) /\ Rightful(Owner(a, id)) /\ <<"organization", id>> \in ResourceIds
  <2>1. OrgId(a, slug) \in OrgIds /\ Rightful(Owner(a, OrgId(a, slug)))
    BY OrgIdTyped
  <2> QED
    BY <2>1 DEF ResourceIds
<1>2. CASE May(actor, a, glass)
  <2>1. PICK s \in Seq(Statement) :
           s = <<Put("organization", id, a, id), Audit(a, "allowed")>> /\ PutsSound(s)
    BY <1>1, PutAuditSound
  <2> QED
    BY <1>1, <1>2, <2>1, Begins DEF CreateOrganization
<1>3. CASE ~May(actor, a, glass)
  <2>1. PICK s \in Seq(Statement) : s = Denied(a) /\ PutsSound(s)
    BY AuditsSound DEF Denied, Bodies
  <2> QED
    BY <1>3, <2>1, Begins DEF CreateOrganization
<1> QED
  BY <1>2, <1>3

(* create_workspace_ and create_org_resource_, and upsert of the audit     *)
(* export.                                                                 *)
LEMMA UnderOrganizationBegins ==
    ASSUME CpTypeOK, OwnersSound, NEW c \in Calls, NEW actor \in Accounts, NEW kind,
           NEW org \in OrgIds, NEW slug \in AllSlugs, NEW glass \in BOOLEAN,
           kind \in {"workspace", "export"} \/ (kind = "binding" /\ slug \in Slugs),
           CreateUnderOrganization(c, actor, kind, org, slug, glass)
    PROVE  CpTypeOK' /\ OwnersSound'
<1>1. PICK a \in Accounts : resource[<<"organization", org>>].account = a /\ Stored(Owner(a, org))
  BY OrganizationRead DEF CreateUnderOrganization
<1>2. PICK id : id = NewId(kind, a, org, slug) /\ <<kind, id>> \in ResourceIds
  <2>1. \A k \in {"workspace", "export"} : <<k, NewId(k, a, org, slug)>> \in ResourceIds
    BY IdsTyped
  <2>2. slug \in Slugs => <<"binding", NewId("binding", a, org, slug)>> \in ResourceIds
    BY IdsTyped
  <2>3. <<kind, NewId(kind, a, org, slug)>> \in ResourceIds
    BY <2>1, <2>2
  <2> QED
    BY <2>3
<1>3. kind \in Under
  BY DEF Under
<1>4. CASE May(actor, a, glass)
  <2>1. PICK s \in Seq(Statement) :
           s = <<Put(kind, id, a, org), Audit(a, "allowed")>> /\ PutsSound(s)
    BY <1>1, <1>2, <1>3, PutAuditSound
  <2> QED
    BY <1>1, <1>2, <1>4, <2>1, Begins DEF CreateUnderOrganization
<1>5. CASE ~May(actor, a, glass)
  <2>1. PICK s \in Seq(Statement) : s = Denied(a) /\ PutsSound(s)
    BY AuditsSound DEF Denied, Bodies
  <2> QED
    BY <1>1, <1>5, <2>1, Begins DEF CreateUnderOrganization
<1> QED
  BY <1>4, <1>5

(* Reading the audit export.                                               *)
LEMMA ExportReadBegins ==
    ASSUME CpTypeOK, OwnersSound, NEW c \in Calls, NEW actor \in Accounts,
           NEW org \in OrgIds, NEW glass \in BOOLEAN, GetAuditExport(c, actor, org, glass)
    PROVE  CpTypeOK' /\ OwnersSound'
<1>1. PICK a \in Accounts : resource[<<"organization", org>>].account = a
  BY OrganizationRead DEF GetAuditExport
<1>2. PICK s \in Seq(Statement) : s = (IF May(actor, a, glass) THEN <<>> ELSE Denied(a)) /\ PutsSound(s)
  <2>1. <<>> \in Seq(Statement) /\ PutsSound(<<>>)
    BY DEF PutsSound
  <2>2. Denied(a) \in Seq(Statement) /\ PutsSound(Denied(a))
    BY AuditsSound DEF Denied, Bodies
  <2> QED
    BY <2>1, <2>2
<1> QED
  BY <1>1, <1>2, Begins DEF GetAuditExport

(* create_workspace_resource and _service_client: the organization is that *)
(* of the workspace.                                                       *)
LEMMA UnderWorkspaceBegins ==
    ASSUME CpTypeOK, OwnersSound, NEW c \in Calls, NEW actor \in Accounts,
           NEW ws \in OrgIds, NEW slug \in Slugs, NEW glass \in BOOLEAN,
           CreateUnderWorkspace(c, actor, ws, slug, glass)
    PROVE  CpTypeOK' /\ OwnersSound'
<1>0. <<"workspace", ws>> \in ResourceIds
  BY DEF ResourceIds
<1>1. PICK k \in ResourceIds : k = <<"workspace", ws>> /\ k[1] = "workspace"
  BY <1>0
<1>2. PICK b \in Accounts, org \in OrgIds :
         resource[k] = Owner(b, org) /\ Stored(Owner(b, org))
         /\ resource[k].account = b /\ resource[k].org = org
  <2>1. resource[k] # Nobody
    BY <1>1 DEF CreateUnderWorkspace
  <2> QED
    BY <1>1, <2>1, OwnerRead DEF Under
<1>3. <<"binding", <<"any", slug>>>> \in ResourceIds /\ "binding" \in Under
  BY DEF ResourceIds, Under
<1>4. CASE May(actor, b, glass)
  <2>1. PICK s \in Seq(Statement) :
           s = <<Put("binding", <<"any", slug>>, b, org), Audit(b, "allowed")>> /\ PutsSound(s)
    BY <1>2, <1>3, PutAuditSound
  <2> QED
    BY <1>1, <1>2, <1>4, <2>1, Begins DEF CreateUnderWorkspace
<1>5. CASE ~May(actor, b, glass)
  <2>1. PICK s \in Seq(Statement) : s = Denied(b) /\ PutsSound(s)
    BY AuditsSound DEF Denied, Bodies
  <2> QED
    BY <1>1, <1>2, <1>5, <2>1, Begins DEF CreateUnderWorkspace
<1> QED
  BY <1>4, <1>5

(* A statement and the audit that follows it.                              *)
LEMMA PairJoined ==
    ASSUME NEW b, NEW m
    PROVE  <<b>> \o <<m>> = <<b, m>>
<1> DEFINE S == {b, m}
<1>1. /\ <<b>> \in Seq(S) /\ <<m>> \in Seq(S) /\ <<b, m>> \in Seq(S)
      /\ Len(<<b>>) = 1 /\ Len(<<m>>) = 1 /\ Len(<<b, m>>) = 2
  OBVIOUS
<1>2. /\ <<b>> \o <<m>> \in Seq(S) /\ Len(<<b>> \o <<m>>) = 2
      /\ \A i \in 1 .. 2 : (<<b>> \o <<m>>)[i] = IF i <= 1 THEN <<b>>[i] ELSE <<m>>[i - 1]
  BY <1>1, ConcatProperties
<1>3. \A i \in 1 .. 2 : (<<b>> \o <<m>>)[i] = <<b, m>>[i]
  BY <1>2
<1> QED
  <2>1. \A i \in 1 .. Len(<<b, m>>) : (<<b>> \o <<m>>)[i] = <<b, m>>[i]
    BY <1>1, <1>3
  <2> HIDE DEF S
  <2> QED
    BY <1>1, <1>2, <2>1, SeqEqual

(* RegisterEnterprise and CreateWarehouse.                                 *)
LEMMA ActivationBegins ==
    ASSUME CpTypeOK, OwnersSound, NEW c \in Calls, NEW a \in Accounts, NEW entitlement,
           \/ RegisterEnterprise(c, a, entitlement)
           \/ \E name \in WarehouseNames : CreateWarehouse(c, a, name, entitlement)
    PROVE  CpTypeOK' /\ OwnersSound'
<1>1. DenialReason(entitlement) \in Bodies
  BY DEF DenialReason, Bodies
<1>2. PICK denied \in Seq(Statement) :
         denied = AuditActivation(a, DenialReason(entitlement)) /\ PutsSound(denied)
  BY <1>1, AuditsSound DEF AuditActivation
<1>3. ASSUME NEW b \in Statement, b.op # "put"
      PROVE  /\ <<b>> \o AuditActivation(a, "allowed") \in Seq(Statement)
             /\ PutsSound(<<b>> \o AuditActivation(a, "allowed"))
  <2>1. PICK m \in Statement : m = Audit(a, "allowed") /\ m.op = "audit"
    BY AllowedTyped
  <2>2. <<b>> \o AuditActivation(a, "allowed") = <<b, m>>
    BY <2>1, PairJoined DEF AuditActivation
  <2>3. <<b, m>> \in Seq(Statement) /\ DOMAIN <<b, m>> = {1, 2} /\ <<b, m>>[1] = b /\ <<b, m>>[2] = m
    OBVIOUS
  <2> QED
    BY <1>3, <2>1, <2>2, <2>3 DEF PutsSound
<1>4. PICK s \in Seq(Statement) :
         PutsSound(s) /\ Fresh(c) /\ call' = [call EXCEPT ![c] = s] /\ StatementsWait
  <2>1. CASE RegisterEnterprise(c, a, entitlement)
    <3>1. PICK b \in Statement : b = [op |-> "bootstrap", account |-> a] /\ b.op # "put"
      BY BootstrapTyped
    <3>2. PICK t \in Seq(Statement) : t = <<b>> \o AuditActivation(a, "allowed") /\ PutsSound(t)
      BY <1>3, <3>1
    <3> QED
      BY <1>2, <2>1, <3>1, <3>2 DEF RegisterEnterprise, Quiet
  <2>2. ASSUME NEW name \in WarehouseNames, CreateWarehouse(c, a, name, entitlement)
        PROVE  \E s \in Seq(Statement) :
                 PutsSound(s) /\ Fresh(c) /\ call' = [call EXCEPT ![c] = s] /\ StatementsWait
    <3>0. Insert(name, a) \in Inserts /\ Insert(name, a).op = "insert"
      BY DEF Inserts, Insert
    <3>1. PICK b \in Statement : b = Insert(name, a) /\ b.op # "put"
      BY <3>0 DEF Statement
    <3>2. PICK t \in Seq(Statement) : t = <<b>> \o AuditActivation(a, "allowed") /\ PutsSound(t)
      BY <1>3, <3>1
    <3> QED
      BY <1>2, <2>2, <3>1, <3>2 DEF CreateWarehouse
  <2> QED
    BY <2>1, <2>2
<1> QED
  BY <1>4, Begins
-------------------------------------------------------------------------------
\* Statements: types, and what is stored.

(* Who stores nothing and brings sound statements keeps the owners.        *)
LEMMA OwnersFrame ==
    ASSUME CpTypeOK, OwnersSound, NEW c \in Calls, UNCHANGED <<resource, taken>>,
           \A d \in Calls \ {c} : call'[d] = call[d], PutsSound(call'[c])
    PROVE  OwnersSound'
<1>1. \A d \in Calls : PutsSound(call[d])'
  BY DEF OwnersSound, PutsSound, Stored
<1> QED
  BY <1>1 DEF OwnersSound, Stored

(* A statement that is done leaves the call.                               *)
LEMMA DropTyped ==
    ASSUME CpTypeOK, NEW c \in Calls, call[c] # <<>>, Drop(c)
    PROVE  /\ call' \in [Calls -> Seq(Statement)] /\ call'[c] = Tail(call[c])
           /\ \A d \in Calls \ {c} : call'[d] = call[d]
<1>1. Tail(call[c]) \in Seq(Statement)
  BY CallTyped
<1>2. call \in [Calls -> Seq(Statement)]
  BY DEF CpTypeOK
<1> QED
  BY <1>1, <1>2 DEF Drop

(* What comes after a statement that stores no organization stays sound.   *)
LEMMA TailSound ==
    ASSUME CpTypeOK, OwnersSound, NEW c \in Calls, call[c] # <<>>, Next1(c).op # "put"
    PROVE  PutsSound(Tail(call[c]))
<1>1. PICK s : s = call[c] /\ PutsSound(s)
  BY DEF OwnersSound
<1>2. /\ s[1].op # "put" /\ DOMAIN s = 1 .. Len(s) /\ Len(s) \in Nat
      /\ \A i \in DOMAIN Tail(s) : i + 1 \in DOMAIN s /\ Tail(s)[i] = s[i + 1]
      /\ \A i \in DOMAIN s : i = 1 \/ (i - 1 \in DOMAIN Tail(s) /\ Tail(s)[i - 1] = s[i])
      /\ \A i \in DOMAIN Tail(s) : i \in Nat
  <2>1. /\ s[1].op # "put" /\ DOMAIN s = 1 .. Len(s) /\ Len(s) \in Nat
        /\ \A i \in DOMAIN Tail(s) : i + 1 \in DOMAIN s /\ Tail(s)[i] = s[i + 1]
        /\ \A i \in DOMAIN s : i = 1 \/ (i - 1 \in DOMAIN Tail(s) /\ Tail(s)[i - 1] = s[i])
        /\ Tail(s) \in Seq(Statement)
    BY <1>1, CallTyped
  <2>2. \A i \in DOMAIN Tail(s) : i \in Nat
    BY <2>1, LenProperties
  <2> QED
    BY <2>1, <2>2
<1>3. ASSUME NEW i \in DOMAIN Tail(s), Tail(s)[i].op = "put"
      PROVE  /\ Tail(s)[i].key[1] = "organization" =>
                  Tail(s)[i].key = OrgKey(Tail(s)[i].owner) /\ Rightful(Tail(s)[i].owner)
             /\ Tail(s)[i].key[1] \in Under =>
                  \/ Stored(Tail(s)[i].owner)
                  \/ \E j \in DOMAIN Tail(s) : /\ j < i /\ Tail(s)[j].op = "put"
                                               /\ Tail(s)[j].key = OrgKey(Tail(s)[i].owner)
                                               /\ Tail(s)[j].owner.account = Tail(s)[i].owner.account
  <2>1. PICK p : p = Tail(s)[i] /\ p = s[i + 1] /\ p.op = "put" /\ i + 1 \in DOMAIN s
    BY <1>2, <1>3
  <2>2. /\ p.key[1] = "organization" => p.key = OrgKey(p.owner) /\ Rightful(p.owner)
        /\ p.key[1] \in Under =>
             \/ Stored(p.owner)
             \/ \E j \in DOMAIN s : /\ j < i + 1 /\ s[j].op = "put" /\ s[j].key = OrgKey(p.owner)
                                   /\ s[j].owner.account = p.owner.account
    BY <1>1, <2>1 DEF PutsSound
  <2>3. ASSUME NEW j \in DOMAIN s, j < i + 1, s[j].op = "put", s[j].key = OrgKey(p.owner),
               s[j].owner.account = p.owner.account
        PROVE  \E k \in DOMAIN Tail(s) : /\ k < i /\ Tail(s)[k].op = "put"
                                         /\ Tail(s)[k].key = OrgKey(p.owner)
                                         /\ Tail(s)[k].owner.account = p.owner.account
    <3>1. j - 1 \in DOMAIN Tail(s) /\ Tail(s)[j - 1] = s[j] /\ j \in Nat /\ i \in Nat
      BY <1>2, <2>3
    <3>2. j - 1 < i
      BY <2>3, <3>1
    <3> QED
      BY <2>3, <3>1, <3>2
  <2> QED
    BY <2>1, <2>2, <2>3
<1> QED
  BY <1>1, <1>3 DEF PutsSound

(* A row that is stored: its owner is an organization that is there.       *)
LEMMA PutRuns ==
    ASSUME CpTypeOK, OwnersSound, NEW c \in Calls, RunPut(c)
    PROVE  CpTypeOK' /\ OwnersSound'
<1>1. PICK p \in Statement, s \in Seq(Statement) :
         /\ p = Next1(c) /\ p.op = "put" /\ p.owner \in Owners /\ p.key \in ResourceIds
         /\ s = call[c] /\ PutsSound(s) /\ s # <<>> /\ p = s[1] /\ 1 \in DOMAIN s
  <2>1. call[c] # <<>> /\ Next1(c).op = "put" /\ PutsSound(call[c])
    BY DEF RunPut, Runs, OwnersSound
  <2>2. Next1(c) \in Statement /\ call[c] \in Seq(Statement) /\ Next1(c) = call[c][1] /\ 1 \in DOMAIN call[c]
    BY <2>1, CallTyped
  <2> QED
    BY <2>1, <2>2, StatementTyped
<1>2. /\ resource' = [resource EXCEPT ![p.key] = p.owner] /\ Drop(c) /\ snapshot' = {}
      /\ taken' = IF TakenOver(p.key, p.owner) THEN taken \cup {p.key[2]} ELSE taken
      /\ UNCHANGED <<activated, warehouse, log, started, tail, tampers, nextRow, written>>
  BY <1>1 DEF RunPut, Commits, Other
<1>3. /\ call' \in [Calls -> Seq(Statement)] /\ call'[c] = Tail(s)
      /\ \A d \in Calls \ {c} : call'[d] = call[d]
  BY <1>1, <1>2, DropTyped
<1>4. /\ resource' \in [ResourceIds -> Owners \cup {Nobody}] /\ resource'[p.key] = p.owner
      /\ \A k \in ResourceIds \ {p.key} : resource'[k] = resource[k]
  BY <1>1, <1>2 DEF CpTypeOK
<1>5. CpTypeOK'
  BY <1>2, <1>3, <1>4 DEF CpTypeOK
<1>6. p.key[1] = "organization" => p.key = OrgKey(p.owner) /\ Rightful(p.owner)
  BY <1>1 DEF PutsSound
<1>7. /\ DOMAIN s = 1 .. Len(s) /\ Len(s) \in Nat
      /\ \A i \in DOMAIN Tail(s) : i + 1 \in DOMAIN s /\ Tail(s)[i] = s[i + 1]
      /\ \A i \in DOMAIN s : i = 1 \/ (i - 1 \in DOMAIN Tail(s) /\ Tail(s)[i - 1] = s[i])
      /\ \A i \in DOMAIN Tail(s) : i \in Nat
  <2>1. /\ DOMAIN s = 1 .. Len(s) /\ Len(s) \in Nat
        /\ \A i \in DOMAIN Tail(s) : i + 1 \in DOMAIN s /\ Tail(s)[i] = s[i + 1]
        /\ \A i \in DOMAIN s : i = 1 \/ (i - 1 \in DOMAIN Tail(s) /\ Tail(s)[i - 1] = s[i])
        /\ Tail(s) \in Seq(Statement)
    BY <1>1, CallTyped
  <2>2. \A i \in DOMAIN Tail(s) : i \in Nat
    BY <2>1, LenProperties
  <2> QED
    BY <2>1, <2>2
<1>8. p.key[1] \in Under => Stored(p.owner)
  <2>1. \A j \in DOMAIN s : ~(j < 1)
    BY <1>7
  <2> QED
    BY <1>1, <2>1 DEF PutsSound
<1>9. ASSUME NEW o \in Owners
      PROVE  /\ OrgKey(o) \in ResourceIds /\ OrgKey(o)[1] = "organization" /\ OrgKey(o)[2] = o.org
             /\ p.key = OrgKey(o) /\ p.owner.account = o.account => Stored(o)'
             /\ Stored(o) => Stored(o)'
  <2>1. o.account \in Accounts /\ o.org \in OrgIds
    BY DEF Owners
  <2>2. p.owner.account \in Accounts /\ p.owner # Nobody
    BY <1>1, CpAssumption DEF Owners, Nobody
  <2>3. OrgKey(o) \in ResourceIds /\ OrgKey(o)[1] = "organization" /\ OrgKey(o)[2] = o.org
    BY <2>1 DEF OrgKey, ResourceIds
  <2>4. p.key = OrgKey(o) /\ p.owner.account = o.account => Stored(o)'
    BY <1>4, <2>2, <2>3 DEF Stored, OrgKey
  <2>5. ASSUME Stored(o) PROVE Stored(o)'
    <3>1. CASE p.key # OrgKey(o)
      BY <1>2, <1>4, <2>3, <2>5, <3>1 DEF Stored, OrgKey
    <3>2. CASE p.key = OrgKey(o) /\ (p.owner.account = o.account \/ o.org \in taken)
      BY <1>2, <1>4, <2>2, <2>3, <3>2 DEF Stored, OrgKey
    <3>3. CASE p.key = OrgKey(o) /\ p.owner.account # o.account /\ o.org \notin taken
      <4>1. resource[p.key].account = o.account /\ o.account # Nobody.account
        BY <2>1, <2>5, <3>3, CpAssumption DEF Stored, Nobody
      <4>2. TakenOver(p.key, p.owner)
        BY <2>3, <3>3, <4>1 DEF TakenOver
      <4>3. o.org \in taken'
        BY <1>2, <2>3, <3>3, <4>2
      <4>4. resource'[OrgKey(o)] # Nobody
        BY <1>4, <2>2, <3>3
      <4> QED
        BY <4>3, <4>4 DEF Stored, OrgKey
    <3> QED
      BY <3>1, <3>2, <3>3
  <2> QED
    BY <2>3, <2>4, <2>5
<1>10. ASSUME NEW k \in ResourceIds, resource'[k] # Nobody
       PROVE  \E o \in Owners : /\ o = resource'[k]
                                /\ k[1] = "organization" => k = OrgKey(o) /\ Rightful(o)
                                /\ k[1] \in Under => Stored(o)'
  <2>1. CASE k = p.key
    BY <1>1, <1>4, <1>6, <1>8, <1>9, <2>1
  <2>2. CASE k # p.key
    <3>1. PICK o \in Owners : o = resource[k] /\ resource'[k] = o
      BY <1>4, <1>10, <2>2 DEF CpTypeOK
    <3>2. resource[k] # Nobody
      BY <1>4, <1>10, <2>2
    <3>3. /\ k[1] = "organization" => k = OrgKey(o) /\ Rightful(o)
          /\ k[1] \in Under => Stored(o)
      BY <3>1, <3>2 DEF OwnersSound
    <3> QED
      BY <1>9, <3>1, <3>3
  <2> QED
    BY <2>1, <2>2
<1>11. ASSUME NEW t \in Seq(Statement), PutsSound(t) PROVE PutsSound(t)'
  <2>1. \A i \in DOMAIN t : t[i].op = "put" => t[i].owner \in Owners
    BY ElementOfSeq, LenProperties, StatementTyped
  <2>2. ASSUME NEW i \in DOMAIN t, t[i].op = "put"
        PROVE  /\ t[i].key[1] = "organization" => t[i].key = OrgKey(t[i].owner) /\ Rightful(t[i].owner)
               /\ t[i].key[1] \in Under =>
                    \/ Stored(t[i].owner)'
                    \/ \E j \in DOMAIN t : /\ j < i /\ t[j].op = "put" /\ t[j].key = OrgKey(t[i].owner)
                                          /\ t[j].owner.account = t[i].owner.account
    BY <1>9, <1>11, <2>1, <2>2 DEF PutsSound
  <2> QED
    BY <2>2 DEF PutsSound, Stored
<1>12. PutsSound(Tail(s))'
  <2> SUFFICES ASSUME NEW i \in DOMAIN Tail(s), Tail(s)[i].op = "put"
               PROVE  /\ Tail(s)[i].key[1] = "organization" =>
                           Tail(s)[i].key = OrgKey(Tail(s)[i].owner) /\ Rightful(Tail(s)[i].owner)
                      /\ Tail(s)[i].key[1] \in Under =>
                           \/ Stored(Tail(s)[i].owner)'
                           \/ \E j \in DOMAIN Tail(s) : /\ j < i /\ Tail(s)[j].op = "put"
                                                        /\ Tail(s)[j].key = OrgKey(Tail(s)[i].owner)
                                                        /\ Tail(s)[j].owner.account = Tail(s)[i].owner.account
    BY DEF PutsSound, Stored
  <2>1. PICK q : /\ q = Tail(s)[i] /\ q = s[i + 1] /\ q.op = "put" /\ i + 1 \in DOMAIN s
                 /\ q.owner \in Owners
    <3>1. s[i + 1] \in Statement
      BY <1>1, <1>7, ElementOfSeq
    <3> QED
      BY <1>7, <3>1, StatementTyped
  <2>2. /\ q.key[1] = "organization" => q.key = OrgKey(q.owner) /\ Rightful(q.owner)
        /\ q.key[1] \in Under =>
             \/ Stored(q.owner)
             \/ \E j \in DOMAIN s : /\ j < i + 1 /\ s[j].op = "put" /\ s[j].key = OrgKey(q.owner)
                                   /\ s[j].owner.account = q.owner.account
    BY <1>1, <2>1 DEF PutsSound
  <2>3. ASSUME NEW j \in DOMAIN s, j < i + 1, s[j].op = "put", s[j].key = OrgKey(q.owner),
               s[j].owner.account = q.owner.account
        PROVE  \/ Stored(q.owner)'
               \/ \E k \in DOMAIN Tail(s) : /\ k < i /\ Tail(s)[k].op = "put"
                                            /\ Tail(s)[k].key = OrgKey(q.owner)
                                            /\ Tail(s)[k].owner.account = q.owner.account
    <3>1. CASE j = 1
      BY <1>1, <1>9, <2>1, <2>3, <3>1
    <3>2. CASE j # 1
      <4>1. j - 1 \in DOMAIN Tail(s) /\ Tail(s)[j - 1] = s[j] /\ j \in Nat /\ i \in Nat
        BY <1>7, <3>2
      <4>2. j - 1 < i
        BY <2>3, <4>1
      <4> QED
        BY <2>3, <4>1, <4>2
    <3> QED
      BY <3>1, <3>2
  <2>4. Stored(q.owner) => Stored(q.owner)'
    BY <1>9, <2>1
  <2> QED
    BY <2>1, <2>2, <2>3, <2>4
<1>13. \A d \in Calls : PutsSound(call[d])'
  <2>1. \A d \in Calls : PutsSound(call[d]) /\ call[d] \in Seq(Statement)
    BY DEF OwnersSound, CpTypeOK
  <2>2. ASSUME NEW d \in Calls PROVE PutsSound(call[d])'
    <3>1. PICK t : t = call'[d] /\ PutsSound(t)'
      <4>1. CASE d = c
        <5>1. PICK t : t = Tail(s) /\ PutsSound(t)'
          BY <1>12
        <5> QED
          BY <1>3, <4>1, <5>1
      <4>2. CASE d # c
        <5>1. PICK t \in Seq(Statement) : t = call[d] /\ PutsSound(t)
          BY <2>1
        <5> QED
          BY <1>3, <1>11, <4>2, <5>1
      <4> QED
        BY <4>1, <4>2
    <3> QED
      BY <3>1 DEF PutsSound, Stored
  <2> QED
    BY <2>2
<1>14. taken' \subseteq SharedIds
  <2>1. taken \subseteq SharedIds
    BY DEF OwnersSound
  <2>2. CASE ~TakenOver(p.key, p.owner)
    BY <1>2, <2>1, <2>2
  <2>3. CASE TakenOver(p.key, p.owner)
    <3>1. /\ p.key[1] = "organization" /\ resource[p.key].account # Nobody.account
          /\ resource[p.key].account # p.owner.account /\ resource[p.key] # Nobody
      BY <2>3 DEF TakenOver
    <3>2. p.key = OrgKey(p.owner) /\ Rightful(p.owner) /\ p.key[2] = p.owner.org
      BY <1>6, <3>1 DEF OrgKey
    <3>3. p.key = OrgKey(resource[p.key]) /\ Rightful(resource[p.key]) /\ p.key[2] = resource[p.key].org
      BY <1>1, <3>1 DEF OwnersSound, OrgKey
    <3>4. p.key[2] \in SharedIds
      BY <3>1, <3>2, <3>3 DEF Rightful
    <3> QED
      BY <1>2, <2>1, <2>3, <3>4
  <2> QED
    BY <2>2, <2>3
<1>15. OwnersSound'
  <2>1. ASSUME NEW k \in ResourceIds, resource'[k] # Nobody
        PROVE  (/\ k[1] = "organization" => k = OrgKey(resource[k]) /\ Rightful(resource[k])
                /\ k[1] \in Under => Stored(resource[k]))'
    BY <1>10, <2>1 DEF Stored, OrgKey, Rightful
  <2> QED
    BY <1>13, <1>14, <2>1 DEF OwnersSound
<1> QED
  BY <1>5, <1>15

(* The rows of the audit log.                                              *)
LEMMA RowTyped ==
    ASSUME CpTypeOK
    PROVE  /\ log \in Seq(Row) /\ DOMAIN log = 1 .. Len(log) /\ Len(log) \in Nat
           /\ \A i \in DOMAIN log :
                /\ log[i] \in Row /\ log[i].id \in Nat /\ log[i].account \in Accounts
                /\ log[i].body \in Bodies /\ log[i].prev \in Hashes /\ log[i].hash \in Hashes
                /\ Len(log[i].hash) \in Nat
<1>1. log \in Seq(Row)
  BY DEF CpTypeOK
<1>2. \A i \in 1 .. Len(log) : log[i] \in Row
  BY <1>1, ElementOfSeq
<1>3. \A h \in Hashes : Len(h) \in Nat
  BY LenProperties DEF Hashes
<1> QED
  BY <1>1, <1>2, <1>3, LenProperties DEF Row

(* The last row of an account is one, and its hash and id are typed.       *)
LEMMA LastRowTyped ==
    ASSUME CpTypeOK, NEW a, NEW row \in LastRows(a)
    PROVE  row.hash \in Hashes /\ row.id \in Nat
<1>1. CASE Own(a) = {}
  <2>1. row.hash = <<>> /\ row.id = 0
    BY <1>1 DEF LastRows
  <2> QED
    BY <2>1, EmptySeq DEF Hashes
<1>2. CASE Own(a) # {}
  BY <1>2, RowTyped DEF LastRows, Own
<1> QED
  BY <1>1, <1>2

(* An account has one newest row.                                          *)
LEMMA LastRowUnique ==
    ASSUME CpTypeOK, NEW a, NEW r \in LastRows(a), NEW s \in LastRows(a)
    PROVE  r = s
<1>1. CASE Own(a) = {}
  BY <1>1 DEF LastRows
<1>2. CASE Own(a) # {}
  <2>1. PICK i \in Own(a), j \in Own(a) :
           /\ r = log[i] /\ s = log[j]
           /\ \A k \in Own(a) : k <= i
           /\ \A k \in Own(a) : k <= j
    BY <1>2 DEF LastRows
  <2>2. i \in Nat /\ j \in Nat /\ i <= j /\ j <= i
    BY <2>1, RowTyped DEF Own
  <2> QED
    BY <2>1, <2>2
<1> QED
  BY <1>1, <1>2

(* An entry hash is longer than the one it follows, and ends in its entry. *)
LEMMA HashTyped ==
    ASSUME NEW prev \in Hashes, NEW a \in Accounts, NEW body \in Bodies
    PROVE  /\ EntryHash(prev, a, body) \in Hashes /\ EntryHash(prev, a, body) # <<>>
           /\ Len(EntryHash(prev, a, body)) = Len(prev) + 1 /\ Len(prev) \in Nat
           /\ EntryHash(prev, a, body)[Len(prev) + 1] = <<a, body>>
<1>1. <<a, body>> \in Accounts \X Bodies
  OBVIOUS
<1>2. prev \in Seq(Accounts \X Bodies)
  BY DEF Hashes
<1>3. /\ Append(prev, <<a, body>>) \in Seq(Accounts \X Bodies)
      /\ Len(Append(prev, <<a, body>>)) = Len(prev) + 1
      /\ Append(prev, <<a, body>>)[Len(prev) + 1] = <<a, body>>
      /\ Len(prev) \in Nat
  BY <1>1, <1>2, AppendProperties, LenProperties
<1>4. Append(prev, <<a, body>>) # <<>>
  BY <1>3, EmptySeq
<1> QED
  BY <1>3, <1>4 DEF EntryHash, Hashes

(* The row that AppendRow inserts.                                         *)
LEMMA NewRow ==
    ASSUME CpTypeOK, NEW c \in Calls, AppendRow(c), c \in snapshot
    PROVE  \E r \in Row, last \in LastRows(call[c][1].account) :
             /\ log' = Append(log, r) /\ r.id = nextRow /\ r.account = call[c][1].account
             /\ r.prev = tail[c] /\ r.hash = EntryHash(r.prev, r.account, r.body)
             /\ r.body \in Bodies
             /\ written' = Append(written, [body |-> r.body, after |-> last.id])
             /\ [body |-> r.body, after |-> last.id] \in [body : Bodies, after : Nat]
             /\ nextRow' = nextRow + 1 /\ snapshot' = {}
<1>1. PICK m \in Statement : m = Next1(c) /\ m = call[c][1] /\ m.account \in Accounts /\ m.body \in Bodies
  <2>1. call[c] # <<>> /\ Next1(c).op = "append"
    BY DEF AppendRow, Runs
  <2> QED
    BY <2>1, CallTyped, StatementTyped
<1>2. PICK r : r = [id |-> nextRow, account |-> m.account, body |-> m.body,
                    prev |-> tail[c], hash |-> EntryHash(tail[c], m.account, m.body)]
  OBVIOUS
<1>3. tail[c] \in Hashes /\ nextRow \in Nat
  BY DEF CpTypeOK
<1>4. r \in Row
  BY <1>1, <1>2, <1>3, HashTyped DEF Row
<1>5. /\ log' = Append(log, r) /\ nextRow' = nextRow + 1 /\ snapshot' = {}
      /\ \E row \in LastRows(m.account) : written' = Append(written, [body |-> m.body, after |-> row.id])
  BY <1>1, <1>2 DEF AppendRow, Commits
<1>6. PICK last \in LastRows(m.account) : written' = Append(written, [body |-> m.body, after |-> last.id])
  BY <1>5
<1>7. last.id \in Nat
  BY LastRowTyped
<1> QED
  BY <1>1, <1>2, <1>4, <1>5, <1>6, <1>7

\* Where the k-th element came from that is left without the i-th.
Shifted(i, k) == IF k < i THEN k ELSE k + 1

(* RemoveAt leaves each other element where Shifted says.                  *)
LEMMA Removed ==
    ASSUME NEW S, NEW s \in Seq(S), NEW i \in 1 .. Len(s)
    PROVE  /\ RemoveAt(s, i) \in Seq(S) /\ DOMAIN RemoveAt(s, i) = 1 .. Len(s) - 1
           /\ \A k \in 1 .. Len(s) - 1 : /\ Shifted(i, k) \in 1 .. Len(s)
                                        /\ RemoveAt(s, i)[k] = s[Shifted(i, k)]
<1>1. Len(s) \in Nat /\ i \in Nat /\ 1 <= i /\ i <= Len(s)
  BY LenProperties
<1>2. \A k \in 1 .. Len(s) : s[k] \in S
  BY ElementOfSeq
<1>3. PICK p \in Seq(S) :
         /\ p = SubSeq(s, 1, i - 1) /\ Len(p) = i - 1
         /\ \A k \in 1 .. i - 1 : p[k] = s[k]
  <2>1. \A k \in 1 .. i - 1 : s[k] \in S
    BY <1>1, <1>2
  <2>2. 1 \in Int /\ i - 1 \in Int
    BY <1>1
  <2>3. /\ SubSeq(s, 1, i - 1) \in Seq(S)
        /\ Len(SubSeq(s, 1, i - 1)) = IF 1 <= i - 1 THEN (i - 1) - 1 + 1 ELSE 0
        /\ \A k \in 1 .. (i - 1) - 1 + 1 : SubSeq(s, 1, i - 1)[k] = s[1 + k - 1]
    BY <2>1, <2>2, SubSeqProperties
  <2>4. Len(SubSeq(s, 1, i - 1)) = i - 1
    BY <1>1, <2>3
  <2>5. ASSUME NEW k \in 1 .. i - 1
        PROVE  SubSeq(s, 1, i - 1)[k] = s[k]
    <3>1. k \in 1 .. (i - 1) - 1 + 1 /\ 1 + k - 1 = k
      BY <1>1
    <3> QED
      BY <2>3, <3>1
  <2> QED
    BY <2>3, <2>4, <2>5
<1>4. PICK q \in Seq(S) :
         /\ q = SubSeq(s, i + 1, Len(s)) /\ Len(q) = Len(s) - i
         /\ \A k \in 1 .. Len(s) - i : q[k] = s[k + i]
  <2>1. \A k \in i + 1 .. Len(s) : s[k] \in S
    BY <1>1, <1>2
  <2>2. i + 1 \in Int /\ Len(s) \in Int
    BY <1>1
  <2>3. /\ SubSeq(s, i + 1, Len(s)) \in Seq(S)
        /\ Len(SubSeq(s, i + 1, Len(s))) = IF i + 1 <= Len(s) THEN Len(s) - (i + 1) + 1 ELSE 0
        /\ \A k \in 1 .. Len(s) - (i + 1) + 1 : SubSeq(s, i + 1, Len(s))[k] = s[i + 1 + k - 1]
    BY <2>1, <2>2, SubSeqProperties
  <2>4. Len(SubSeq(s, i + 1, Len(s))) = Len(s) - i
    BY <1>1, <2>3
  <2>5. ASSUME NEW k \in 1 .. Len(s) - i
        PROVE  SubSeq(s, i + 1, Len(s))[k] = s[k + i]
    <3>1. k \in 1 .. Len(s) - (i + 1) + 1 /\ i + 1 + k - 1 = k + i
      BY <1>1
    <3> QED
      BY <2>3, <3>1
  <2> QED
    BY <2>3, <2>4, <2>5
<1>5. PICK r \in Seq(S) :
         /\ r = p \o q /\ Len(r) = Len(p) + Len(q)
         /\ \A k \in 1 .. Len(p) + Len(q) : r[k] = IF k <= Len(p) THEN p[k] ELSE q[k - Len(p)]
  <2>1. p \o q \in Seq(S)
    BY ConcatProperties
  <2> QED
    BY <2>1, ConcatProperties
<1>6. r = RemoveAt(s, i)
  <2>1. RemoveAt(s, i) = SubSeq(s, 1, i - 1) \o SubSeq(s, i + 1, Len(s))
    BY DEF RemoveAt
  <2> QED
    BY <1>3, <1>4, <1>5, <2>1
<1>7. Len(p) = i - 1 /\ Len(q) = Len(s) - i /\ Len(r) = Len(p) + Len(q)
  BY <1>3, <1>4, <1>5
<1>8. Len(p) + Len(q) = Len(s) - 1
  <2>1. \A n, m \in Int : (m - 1) + (n - m) = n - 1
    OBVIOUS
  <2> QED
    BY <1>1, <1>7, <2>1
<1>9. DOMAIN r = 1 .. Len(s) - 1
  <2>1. Len(r) = Len(s) - 1
    BY <1>7, <1>8
  <2>2. DOMAIN r = 1 .. Len(r)
    BY LenProperties
  <2> QED
    BY <2>1, <2>2
<1>10. ASSUME NEW k \in 1 .. Len(s) - 1
      PROVE  Shifted(i, k) \in 1 .. Len(s) /\ r[k] = s[Shifted(i, k)]
  <2>1. k \in 1 .. Len(p) + Len(q)
    BY <1>8
  <2>2. r[k] = IF k <= Len(p) THEN p[k] ELSE q[k - Len(p)]
    <3>1. \A m \in 1 .. Len(p) + Len(q) : r[m] = IF m <= Len(p) THEN p[m] ELSE q[m - Len(p)]
      BY <1>5
    <3> QED
      BY <2>1, <3>1, Zenon
  <2>3. CASE k < i
    <3>1. k \in 1 .. i - 1 /\ k <= Len(p) /\ k \in 1 .. Len(s)
      BY <1>1, <1>3, <2>3
    <3>2. r[k] = p[k]
      BY <2>2, <3>1
    <3>3. p[k] = s[k]
      BY <1>3, <3>1
    <3> QED
      BY <2>3, <3>1, <3>2, <3>3 DEF Shifted
  <2>4. CASE ~(k < i)
    <3>1. /\ k - Len(p) \in 1 .. Len(s) - i /\ (k - Len(p)) + i = k + 1
          /\ ~(k <= Len(p)) /\ k + 1 \in 1 .. Len(s)
      <4>1. PICK n \in Int, m \in Int : n = Len(s) /\ m = Len(p) /\ m = i - 1
        BY <1>1, <1>7
      <4>2. k \in 1 .. n - 1 /\ ~(k < i)
        BY <2>4, <4>1
      <4> QED
        BY <1>1, <4>1, <4>2
    <3>2. r[k] = q[k - Len(p)]
      BY <2>2, <3>1
    <3>3. q[k - Len(p)] = s[(k - Len(p)) + i]
      BY <1>4, <3>1
    <3> QED
      BY <2>4, <3>1, <3>2, <3>3 DEF Shifted
  <2> QED
    BY <2>3, <2>4
<1> QED
  BY <1>6, <1>9, <1>10

(* A deleted row of the log leaves the others.                             *)
LEMMA RowRemoved ==
    ASSUME CpTypeOK, NEW i \in DOMAIN log
    PROVE  /\ RemoveAt(log, i) \in Seq(Row)
           /\ \A k \in DOMAIN RemoveAt(log, i) :
                /\ k \in Nat /\ i \in Nat /\ Shifted(i, k) \in DOMAIN log
                /\ RemoveAt(log, i)[k] = log[Shifted(i, k)]
  BY RowTyped, Removed

(* RunBootstrap, RunInsert and Crash: a call moves on or ends.             *)
LEMMA CallGoesOn ==
    ASSUME CpTypeOK, OwnersSound, NEW c \in Calls, RunBootstrap(c) \/ RunInsert(c) \/ Crash(c)
    PROVE  CpTypeOK' /\ OwnersSound'
<1>1. call[c] # <<>>
  BY DEF RunBootstrap, RunInsert, Crash, Runs
<1>2. Next1(c) \in Statement /\ PutsSound(<<>>) /\ <<>> \in Seq(Statement)
  BY <1>1, CallTyped DEF PutsSound
<1>3. call \in [Calls -> Seq(Statement)]
  BY DEF CpTypeOK
<1>4. /\ UNCHANGED <<resource, taken, log, written, tampers, nextRow, started>>
      /\ call' \in [Calls -> Seq(Statement)]
      /\ \A d \in Calls \ {c} : call'[d] = call[d]
      /\ PutsSound(call'[c])
  <2>1. CASE RunBootstrap(c)
    <3>1. Drop(c) /\ Next1(c).op # "put" /\ UNCHANGED <<resource, taken, log, written, tampers, nextRow, started>>
      BY <2>1 DEF RunBootstrap, Runs, Other
    <3> QED
      BY <1>1, <3>1, DropTyped, TailSound
  <2>2. CASE RunInsert(c) /\ Drop(c)
    <3>1. Next1(c).op # "put" /\ UNCHANGED <<resource, taken, log, written, tampers, nextRow, started>>
      BY <2>2 DEF RunInsert, Runs, Other
    <3> QED
      BY <1>1, <2>2, <3>1, DropTyped, TailSound
  <2>3. CASE /\ call' = [call EXCEPT ![c] = <<>>]
             /\ UNCHANGED <<resource, taken, log, written, tampers, nextRow, started>>
    BY <1>2, <1>3, <2>3
  <2> QED
    BY <2>1, <2>2, <2>3 DEF RunInsert, Crash, Other
<1>5. OwnersSound'
  BY <1>4, OwnersFrame
<1>6. activated' \subseteq Accounts /\ warehouse' \in [WarehouseNames -> Accounts \cup {"nobody"}]
  <2>1. activated \subseteq Accounts /\ warehouse \in [WarehouseNames -> Accounts \cup {"nobody"}]
    BY DEF CpTypeOK
  <2>2. CASE RunBootstrap(c)
    BY <1>2, <2>1, <2>2, StatementTyped DEF RunBootstrap, Runs
  <2>3. CASE RunInsert(c)
    BY <1>2, <2>1, <2>3, StatementTyped DEF RunInsert, Runs
  <2>4. CASE Crash(c)
    BY <2>1, <2>4 DEF Crash
  <2> QED
    BY <2>2, <2>3, <2>4
<1>7. snapshot' \subseteq Calls /\ tail' \in [Calls -> Hashes]
  <2>1. snapshot \subseteq Calls /\ tail \in [Calls -> Hashes] /\ <<>> \in Hashes
    BY EmptySeq DEF CpTypeOK, Hashes
  <2>2. CASE RunBootstrap(c)
    BY <2>1, <2>2 DEF RunBootstrap, Commits, Other
  <2>3. CASE RunInsert(c)
    BY <2>1, <2>3 DEF RunInsert, Commits, Other
  <2>4. CASE Crash(c)
    BY <2>1, <2>4 DEF Crash
  <2> QED
    BY <2>2, <2>3, <2>4
<1> QED
  BY <1>4, <1>5, <1>6, <1>7 DEF CpTypeOK

(* ReadTail.                                                               *)
LEMMA TailRead ==
    ASSUME CpTypeOK, OwnersSound, NEW c \in Calls, ReadTail(c)
    PROVE  /\ CpTypeOK' /\ OwnersSound'
           /\ call'[c] # <<>> /\ call'[c][1].op = "append" /\ call'[c][1].account = call[c][1].account
           /\ \A d \in Calls \ {c} : call'[d] = call[d] /\ tail'[d] = tail[d]
<1>1. call[c] # <<>> /\ Next1(c).op = "audit"
  BY DEF ReadTail, Runs
<1>2. PICK m \in Statement, s \in Seq(Statement) :
         /\ m = Next1(c) /\ m.op = "audit" /\ m \in Audits /\ s = call[c] /\ m = s[1]
         /\ Len(s) \in Nat /\ DOMAIN s = 1 .. Len(s) /\ 1 \in DOMAIN s /\ PutsSound(s)
  <2>1. PutsSound(call[c])
    BY DEF OwnersSound
  <2> QED
    BY <1>1, <2>1, CallTyped, StatementTyped
<1>3. PICK n \in Statement : n = [m EXCEPT !.op = "append"] /\ n.op = "append" /\ n.account = m.account
  <2>1. [m EXCEPT !.op = "append"] \in Audits
    BY <1>2 DEF Audits
  <2>2. [m EXCEPT !.op = "append"].op = "append" /\ [m EXCEPT !.op = "append"].account = m.account
    BY <1>2 DEF Audits
  <2> QED
    BY <2>1, <2>2 DEF Statement
<1>4. PICK t \in Seq(Statement) :
         /\ t = [s EXCEPT ![1] = n] /\ DOMAIN t = DOMAIN s /\ t[1] = n
         /\ \A i \in DOMAIN s : i # 1 => t[i] = s[i]
         /\ t # <<>>
  <2>1. /\ [s EXCEPT ![1] = n] \in Seq(Statement) /\ Len([s EXCEPT ![1] = n]) = Len(s)
        /\ \A i \in 1 .. Len(s) : [s EXCEPT ![1] = n][i] = IF i = 1 THEN n ELSE s[i]
    BY <1>2, ExceptSeq
  <2>2. DOMAIN [s EXCEPT ![1] = n] = DOMAIN s
    OBVIOUS
  <2>3. [s EXCEPT ![1] = n] # <<>>
    BY <1>2, <2>2
  <2> QED
    BY <1>2, <2>1, <2>2, <2>3
<1>5. /\ call' \in [Calls -> Seq(Statement)] /\ call'[c] = t
      /\ \A d \in Calls \ {c} : call'[d] = call[d]
  <2>1. call' = [call EXCEPT ![c] = t]
    BY <1>2, <1>3, <1>4 DEF ReadTail
  <2> QED
    BY <2>1 DEF CpTypeOK
<1>6. PutsSound(t)
  <2>1. \A i \in DOMAIN t : t[i].op = "put" => i \in DOMAIN s /\ t[i] = s[i] /\ i # 1
    BY <1>3, <1>4
  <2>2. \A i \in DOMAIN s : s[i].op = "put" => i \in DOMAIN t /\ t[i] = s[i]
    BY <1>2, <1>4
  <2> QED
    BY <1>2, <2>1, <2>2 DEF PutsSound
<1>7. OwnersSound'
  BY <1>5, <1>6, OwnersFrame DEF ReadTail
<1>8. tail' \in [Calls -> Hashes] /\ \A d \in Calls \ {c} : tail'[d] = tail[d]
  <2>1. PICK row \in LastRows(m.account) : tail' = [tail EXCEPT ![c] = row.hash]
    BY <1>2 DEF ReadTail
  <2>2. row.hash \in Hashes
    BY LastRowTyped
  <2> QED
    BY <2>1, <2>2 DEF CpTypeOK
<1>9. CpTypeOK'
  BY <1>5, <1>8 DEF CpTypeOK, ReadTail
<1> QED
  BY <1>2, <1>3, <1>4, <1>5, <1>7, <1>8, <1>9

(* AppendRow keeps the types and stores nothing.                           *)
LEMMA RowAppended ==
    ASSUME CpTypeOK, OwnersSound, NEW c \in Calls, AppendRow(c)
    PROVE  /\ CpTypeOK' /\ OwnersSound'
           /\ \A d \in Calls \ {c} : call'[d] = call[d] /\ tail'[d] = tail[d]
<1>1. call[c] # <<>> /\ Next1(c).op = "append" /\ Drop(c) /\ tail' = [tail EXCEPT ![c] = <<>>]
      /\ UNCHANGED <<resource, activated, warehouse, started, taken, tampers>>
  BY DEF AppendRow, Runs
<1>2. /\ call' \in [Calls -> Seq(Statement)] /\ call'[c] = Tail(call[c])
      /\ \A d \in Calls \ {c} : call'[d] = call[d]
  BY <1>1, DropTyped
<1>3. OwnersSound'
  BY <1>1, <1>2, TailSound, OwnersFrame
<1>4. tail' \in [Calls -> Hashes] /\ \A d \in Calls \ {c} : tail'[d] = tail[d]
  BY <1>1 DEF CpTypeOK, Hashes
<1>5. log' \in Seq(Row) /\ written' \in Seq([body : Bodies, after : Nat]) /\ nextRow' \in Nat
      /\ snapshot' \subseteq Calls
  <2>1. log \in Seq(Row) /\ written \in Seq([body : Bodies, after : Nat]) /\ nextRow \in Nat
        /\ snapshot \subseteq Calls
    BY DEF CpTypeOK
  <2>2. CASE c \in snapshot
    <3>1. PICK r \in Row, w \in [body : Bodies, after : Nat] :
             log' = Append(log, r) /\ written' = Append(written, w) /\ nextRow' = nextRow + 1 /\ snapshot' = {}
      BY <2>2, NewRow
    <3> QED
      BY <2>1, <3>1, AppendProperties
  <2>3. CASE c \notin snapshot
    BY <2>1, <2>3 DEF AppendRow
  <2> QED
    BY <2>2, <2>3
<1> QED
  BY <1>1, <1>2, <1>3, <1>4, <1>5 DEF CpTypeOK

(* An edit or deletion keeps the types and stores nothing.                 *)
LEMMA Tampered ==
    ASSUME CpTypeOK, OwnersSound, NEW i \in DOMAIN log, NEW edit \in BOOLEAN, Tamper(i, edit)
    PROVE  CpTypeOK' /\ OwnersSound'
<1>1. log' \in Seq(Row)
  <2>1. CASE edit
    <3>1. PICK r : r = [log[i] EXCEPT !.body = "edited"]
      OBVIOUS
    <3>2. r \in Row
      BY <3>1, RowTyped DEF Row, Bodies
    <3>3. log' = [log EXCEPT ![i] = r]
      BY <2>1, <3>1 DEF Tamper
    <3> QED
      BY <3>2, <3>3, RowTyped, ExceptSeq
  <2>2. CASE ~edit
    BY <2>2, RowRemoved DEF Tamper
  <2> QED
    BY <2>1, <2>2
<1>2. CpTypeOK'
  BY <1>1 DEF CpTypeOK, Tamper, Commits
<1>3. OwnersSound'
  BY DEF Tamper, OwnersSound, PutsSound, Stored
<1> QED
  BY <1>2, <1>3
-------------------------------------------------------------------------------
\* The audit log.

(* What leaves the log and the transactions that still stand alone.        *)
LEMMA AuditFrame ==
    ASSUME AuditSound, UNCHANGED <<log, written, nextRow, tampers>>,
           \A d \in snapshot' : d \in snapshot /\ call'[d] = call[d] /\ tail'[d] = tail[d]
    PROVE  AuditSound'
<1>1. LogSound'
  BY DEF AuditSound, LogSound, EntryHash
<1>2. TailsSound'
  <2>1. \A d \in snapshot' : /\ call'[d] # <<>> /\ call'[d][1].op = "append"
                             /\ \A row \in LastRows(call[d][1].account) : tail'[d] = row.hash
    BY DEF AuditSound, TailsSound
  <2> QED
    BY <2>1 DEF TailsSound, LastRows, Own
<1>3. (tampers = 0 => \A a \in Accounts : VerifyAuditChain(a))'
  BY DEF AuditSound, VerifyAuditChain, HashHolds, EntryHash, Follows, Hashed, Own
<1> QED
  BY <1>1, <1>2, <1>3 DEF AuditSound

(* A request that starts and a statement that commits end every older read.*)
LEMMA CommitSound ==
    ASSUME AuditSound, UNCHANGED <<log, written, nextRow, tampers>>, snapshot' = {}
    PROVE  AuditSound'
  BY AuditFrame

(* Bootstrap, put, insert and crash leave the log alone.                   *)
LEMMA StatementSound ==
    ASSUME CpTypeOK, AuditSound, NEW c \in Calls,
           RunBootstrap(c) \/ RunPut(c) \/ RunInsert(c) \/ Crash(c)
    PROVE  AuditSound'
<1>1. CASE RunBootstrap(c) \/ RunPut(c)
  BY <1>1, CommitSound DEF RunBootstrap, RunPut, Commits, Other
<1>2. CASE RunInsert(c) /\ snapshot' = {}
  BY <1>2, CommitSound DEF RunInsert, Other
<1>3. CASE RunInsert(c) /\ UNCHANGED snapshot /\ call' = [call EXCEPT ![c] = <<>>]
  <2>1. call[c] # <<>> /\ Next1(c).op = "insert" /\ UNCHANGED <<log, written, nextRow, tampers, tail>>
    BY <1>3 DEF RunInsert, Runs, Other
  <2>2. call[c][1].op = "insert"
    BY <2>1, CallTyped
  <2>3. \A d \in snapshot : d \in Calls /\ d # c
    BY <2>2 DEF AuditSound, TailsSound, CpTypeOK
  <2>4. \A d \in snapshot : call'[d] = call[d]
    BY <1>3, <2>3 DEF CpTypeOK
  <2> QED
    BY <1>3, <2>1, <2>4, AuditFrame
<1>4. CASE Crash(c)
  <2>1. /\ UNCHANGED <<log, written, nextRow, tampers>> /\ snapshot' = snapshot \ {c}
        /\ call' = [call EXCEPT ![c] = <<>>] /\ tail' = [tail EXCEPT ![c] = <<>>]
    BY <1>4 DEF Crash
  <2>2. \A d \in snapshot' : d \in snapshot /\ call'[d] = call[d] /\ tail'[d] = tail[d]
    BY <2>1 DEF CpTypeOK
  <2> QED
    BY <2>1, <2>2, AuditFrame
<1>5. RunInsert(c) => \/ snapshot' = {}
                      \/ UNCHANGED snapshot /\ call' = [call EXCEPT ![c] = <<>>]
  BY DEF RunInsert, Commits
<1> QED
  BY <1>1, <1>2, <1>3, <1>4, <1>5

(* ReadTail: the request now holds the newest hash.                        *)
LEMMA ReadSound ==
    ASSUME CpTypeOK, OwnersSound, AuditSound, NEW c \in Calls, ReadTail(c)
    PROVE  AuditSound'
<1>1. UNCHANGED <<log, written, nextRow, tampers>> /\ snapshot' = snapshot \cup {c}
  BY DEF ReadTail
<1>2. LogSound'
  BY <1>1 DEF AuditSound, LogSound, EntryHash
<1>3. (tampers = 0 => \A a \in Accounts : VerifyAuditChain(a))'
  BY <1>1 DEF AuditSound, VerifyAuditChain, HashHolds, EntryHash, Follows, Hashed, Own
<1>4. PICK a : a = call[c][1].account
  OBVIOUS
<1>5. call'[c] # <<>> /\ call'[c][1].op = "append" /\ call'[c][1].account = a
      /\ \A d \in Calls \ {c} : call'[d] = call[d] /\ tail'[d] = tail[d]
  BY <1>4, TailRead
<1>6. \A row \in LastRows(a) : tail'[c] = row.hash
  <2>1. Next1(c).account = a
    BY <1>4, CallTyped DEF ReadTail, Runs
  <2>2. PICK last \in LastRows(a) : tail' = [tail EXCEPT ![c] = last.hash]
    BY <2>1 DEF ReadTail
  <2>3. tail'[c] = last.hash
    BY <2>2 DEF CpTypeOK
  <2> QED
    BY <2>3, LastRowUnique
<1>7. \A d \in snapshot \ {c} : /\ call'[d] # <<>> /\ call'[d][1].op = "append"
                                /\ \A row \in LastRows(call[d][1].account) : tail'[d] = row.hash
                                /\ call'[d] = call[d]
  BY <1>5 DEF AuditSound, TailsSound, CpTypeOK
<1>8. TailsSound'
  <2>1. \A d \in snapshot' : d = c \/ d \in snapshot \ {c}
    BY <1>1
  <2> QED
    BY <1>1, <1>5, <1>6, <1>7, <2>1 DEF TailsSound, LastRows, Own
<1> QED
  BY <1>2, <1>3, <1>8 DEF AuditSound
(* The row that is appended follows the newest row of its account, which   *)
(* has a hash as soon as one of them has.                                  *)
LEMMA NewestRow ==
    ASSUME CpTypeOK, AuditSound, NEW a, NEW last \in LastRows(a), NEW i \in Own(a), log[i].hash # <<>>
    PROVE  \E l \in Hashed(a) : last = log[l] /\ i <= l /\ l \in DOMAIN log
<1>1. PICK l \in Own(a) : last = log[l] /\ \A k \in Own(a) : k <= l
  BY DEF LastRows
<1>2. /\ i <= l /\ i \in Nat /\ l \in Nat /\ 1 <= i /\ l \in DOMAIN log
  BY <1>1, RowTyped DEF Own
<1>3. log[l].hash # <<>>
  <2>1. log[l].hash = <<>> => l = 1
    BY <1>2 DEF AuditSound, LogSound
  <2> QED
    BY <1>2, <2>1
<1> QED
  BY <1>1, <1>2, <1>3 DEF Hashed

(* append_audit_event inserts after the newest row, if it read that one.   *)
LEMMA AppendSound ==
    ASSUME CpTypeOK, OwnersSound, AuditSound, NEW c \in Calls, AppendRow(c)
    PROVE  AuditSound'
<1>1. CASE c \notin snapshot
  <2>1. /\ UNCHANGED <<log, written, nextRow, tampers, snapshot>>
        /\ \A d \in snapshot : d \in Calls \ {c}
    BY <1>1 DEF AppendRow, CpTypeOK
  <2> QED
    BY <2>1, RowAppended, AuditFrame
<1>2. CASE c \in snapshot
  <2>1. PICK a : a = call[c][1].account
    OBVIOUS
  <2>2. PICK r \in Row, last \in LastRows(a) :
           /\ log' = Append(log, r) /\ r.id = nextRow /\ r.account = a
           /\ r.prev = tail[c] /\ r.hash = EntryHash(r.prev, r.account, r.body)
           /\ written' = Append(written, [body |-> r.body, after |-> last.id])
           /\ [body |-> r.body, after |-> last.id] \in [body : Bodies, after : Nat]
           /\ nextRow' = nextRow + 1 /\ snapshot' = {}
    BY <1>2, <2>1, NewRow
  <2>3. PICK w \in [body : Bodies, after : Nat] :
           /\ w = [body |-> r.body, after |-> last.id] /\ w.body = r.body /\ w.after = last.id
    BY <2>2
  <2>4. PICK n \in Nat : n = Len(log) + 1
    BY RowTyped
  <2>5. /\ DOMAIN log' = 1 .. n /\ DOMAIN log = 1 .. n - 1
        /\ \A i \in DOMAIN log : log'[i] = log[i] /\ i \in Nat /\ 1 <= i /\ i < n /\ i \in DOMAIN log'
        /\ log'[n] = r
        /\ \A i \in DOMAIN log' : i = n \/ i \in DOMAIN log
    <3>1. log \in Seq(Row) /\ Len(log) \in Nat /\ DOMAIN log = 1 .. Len(log)
      BY RowTyped
    <3>2. /\ log' \in Seq(Row) /\ Len(log') = Len(log) + 1 /\ log'[Len(log) + 1] = r
          /\ \A i \in 1 .. Len(log) : log'[i] = log[i]
      BY <2>2, <3>1, AppendProperties
    <3>3. DOMAIN log' = 1 .. Len(log')
      BY <3>2, LenProperties
    <3> QED
      BY <2>4, <3>1, <3>2, <3>3
  <2>6. /\ \A k \in DOMAIN written : written'[k] = written[k] /\ k \in DOMAIN written'
        /\ nextRow \in DOMAIN written' /\ written'[nextRow] = w
        /\ nextRow' = Len(written') + 1
    <3>1. written \in Seq([body : Bodies, after : Nat]) /\ nextRow = Len(written) + 1
      BY DEF CpTypeOK, AuditSound, LogSound
    <3>2. Len(written) \in Nat /\ DOMAIN written = 1 .. Len(written)
      BY <3>1, LenProperties
    <3>3. written' = Append(written, w)
      BY <2>2, <2>3
    <3>4. /\ written' \in Seq([body : Bodies, after : Nat]) /\ Len(written') = Len(written) + 1
          /\ written'[Len(written) + 1] = w
          /\ \A i \in 1 .. Len(written) : written'[i] = written[i]
      BY <3>1, <3>3, AppendProperties
    <3>5. DOMAIN written' = 1 .. Len(written')
      BY <3>4, LenProperties
    <3> QED
      BY <2>2, <3>1, <3>2, <3>4, <3>5
  <2>7. r.prev = last.hash
    BY <1>2, <2>1, <2>2 DEF AuditSound, TailsSound
  <2>8. /\ r.hash # <<>> /\ Len(r.hash) = Len(r.prev) + 1 /\ Len(r.prev) \in Nat
    <3>1. r.prev \in Hashes /\ r.account \in Accounts /\ r.body \in Bodies
      BY DEF Row
    <3> QED
      BY <2>2, <3>1, HashTyped
  <2>9. LogSound /\ tampers' = tampers
    BY DEF AuditSound, AppendRow
  (* An older row of the account with a hash: the newest one has one too.   *)
  <2>10. ASSUME NEW i \in DOMAIN log, log[i].account = a, log[i].hash # <<>>
         PROVE  /\ Len(log[i].hash) < Len(r.hash)
                /\ r.prev = log[i].hash => last.id = log[i].id
                /\ \E l \in Hashed(a) : r.prev = log[l].hash /\ i <= l /\ l \in DOMAIN log
    <3>1. PICK l \in Hashed(a) : last = log[l] /\ i <= l /\ l \in DOMAIN log
      BY <2>10, NewestRow DEF Own
    <3>2. log[l].account = a /\ log[l].hash # <<>>
      BY <3>1 DEF Hashed, Own
    <3>3. i \in Nat /\ l \in Nat /\ Len(log[i].hash) \in Nat /\ Len(log[l].hash) \in Nat
      BY <3>1, RowTyped
    <3>4. i < l => Len(log[i].hash) < Len(log[l].hash)
      BY <2>9, <2>10, <3>1, <3>2 DEF LogSound
    <3>5. Len(r.prev) = Len(log[l].hash) /\ r.prev = log[l].hash
      BY <2>7, <3>1
    <3>6. Len(log[i].hash) <= Len(r.prev)
      BY <3>1, <3>3, <3>4, <3>5
    <3>7. r.prev = log[i].hash => i = l
      BY <3>1, <3>3, <3>4, <3>5
    <3>8. Len(log[i].hash) < Len(r.hash)
      BY <2>8, <3>3, <3>6
    <3> QED
      BY <3>1, <3>5, <3>7, <3>8
  <2>11. LogSound'
    <3>1. ASSUME NEW i \in DOMAIN log'
          PROVE  IF log'[i].hash = <<>> THEN i = 1
                 ELSE /\ log'[i].id \in DOMAIN written'
                      /\ log'[i].hash = EntryHash(log'[i].prev, log'[i].account, written'[log'[i].id].body)
      <4>1. CASE i = n
        BY <2>2, <2>3, <2>5, <2>6, <2>8, <4>1
      <4>2. CASE i \in DOMAIN log
        BY <2>5, <2>6, <2>9, <4>2 DEF LogSound, EntryHash
      <4> QED
        BY <2>5, <4>1, <4>2
    <3>2. ASSUME NEW i \in DOMAIN log', NEW j \in DOMAIN log', i < j,
                 log'[i].account = log'[j].account, log'[i].hash # <<>>, log'[j].hash # <<>>
          PROVE  /\ Len(log'[i].hash) < Len(log'[j].hash)
                 /\ log'[j].prev = log'[i].hash => written'[log'[j].id].after = log'[i].id
      <4>1. i \in DOMAIN log /\ log'[i] = log[i]
        BY <2>5, <3>2
      <4>2. CASE j = n
        BY <2>2, <2>3, <2>5, <2>6, <2>10, <3>2, <4>1, <4>2
      <4>3. CASE j \in DOMAIN log
        <5>1. log'[j] = log[j] /\ written'[log[j].id] = written[log[j].id]
          BY <2>5, <2>6, <2>9, <3>2, <4>3 DEF LogSound
        <5> QED
          BY <2>9, <3>2, <4>1, <4>3, <5>1 DEF LogSound
      <4> QED
        BY <2>5, <4>2, <4>3
    <3> QED
      BY <2>6, <3>1, <3>2 DEF LogSound, EntryHash
  <2>12. ASSUME tampers' = 0, NEW b \in Accounts
         PROVE  VerifyAuditChain(b)'
    <3>1. VerifyAuditChain(b)
      BY <2>9, <2>12 DEF AuditSound
    <3>2. \A i : i \in DOMAIN log' /\ log'[i].account = b /\ log'[i].hash # <<>> =>
                   log'[i].hash = EntryHash(log'[i].prev, log'[i].account, log'[i].body)
      BY <2>2, <2>5, <3>1 DEF VerifyAuditChain, HashHolds, Hashed, Own
    <3>3. ASSUME NEW i \in DOMAIN log', NEW j \in DOMAIN log', i < j,
                 log'[i].account = b, log'[i].hash # <<>>, log'[j].account = b, log'[j].hash # <<>>,
                 \A k : k \in DOMAIN log' /\ log'[k].account = b /\ log'[k].hash # <<>> => ~(i < k /\ k < j)
          PROVE  log'[j].prev = log'[i].hash
      <4>1. i \in DOMAIN log /\ log'[i] = log[i]
        BY <2>5, <3>3
      <4>2. CASE j = n
        <5>1. PICK l \in Hashed(a) : r.prev = log[l].hash /\ i <= l /\ l \in DOMAIN log
          BY <2>2, <2>5, <2>10, <3>3, <4>1, <4>2
        <5>2. log[l].account = a /\ log[l].hash # <<>> /\ log'[l] = log[l] /\ a = b /\ l \in DOMAIN log' /\ l < n
          BY <2>2, <2>5, <3>3, <4>2, <5>1 DEF Hashed, Own
        <5>3. ~(i < l)
          BY <3>3, <4>2, <5>2
        <5>4. i = l
          BY <2>5, <4>1, <5>1, <5>3
        <5> QED
          BY <2>5, <4>1, <4>2, <5>1, <5>4
      <4>3. CASE j \in DOMAIN log
        <5>1. log'[j] = log[j] /\ i \in Hashed(b) /\ j \in Hashed(b)
          BY <2>5, <3>3, <4>1, <4>3 DEF Hashed, Own
        <5>2. \A k \in Hashed(b) : ~(i < k /\ k < j)
          BY <2>5, <3>3 DEF Hashed, Own
        <5>3. Follows(b, i, j)
          BY <3>3, <5>2 DEF Follows
        <5> QED
          BY <3>1, <4>1, <5>1, <5>3 DEF VerifyAuditChain
      <4> QED
        BY <2>5, <4>2, <4>3
    <3> QED
      BY <3>2, <3>3 DEF VerifyAuditChain, HashHolds, Follows, Hashed, Own, EntryHash
  <2>13. TailsSound'
    BY <2>2 DEF TailsSound
  <2> QED
    BY <2>11, <2>12, <2>13 DEF AuditSound
<1> QED
  BY <1>1, <1>2
(* An edit leaves all but the body, a deletion the order of what is left.  *)
Moved(i, edit, k) == IF edit THEN k ELSE Shifted(i, k)

(* Each row that is left has the id, link and hash it had, in the old      *)
(* order.                                                                  *)
LEMMA RowsMoved ==
    ASSUME CpTypeOK, NEW i \in DOMAIN log, NEW edit \in BOOLEAN, Tamper(i, edit)
    PROVE  /\ \A k \in DOMAIN log' :
                /\ k \in Nat /\ 1 <= k /\ Moved(i, edit, k) \in DOMAIN log
                /\ Moved(i, edit, k) = 1 => k = 1
                /\ log'[k].id = log[Moved(i, edit, k)].id
                /\ log'[k].account = log[Moved(i, edit, k)].account
                /\ log'[k].prev = log[Moved(i, edit, k)].prev
                /\ log'[k].hash = log[Moved(i, edit, k)].hash
           /\ \A j, k \in DOMAIN log' : j < k => Moved(i, edit, j) < Moved(i, edit, k)
<1>1. i \in Nat /\ 1 <= i /\ i <= Len(log) /\ Len(log) \in Nat /\ DOMAIN log = 1 .. Len(log)
  BY RowTyped
<1>2. CASE edit
  <2>1. PICK r : r = [log[i] EXCEPT !.body = "edited"]
    OBVIOUS
  <2>2. r.id = log[i].id /\ r.account = log[i].account /\ r.prev = log[i].prev /\ r.hash = log[i].hash
    BY <2>1, RowTyped DEF Row
  <2>3. log' = [log EXCEPT ![i] = r]
    BY <1>2, <2>1 DEF Tamper
  <2>4. DOMAIN log' = DOMAIN log /\ \A k \in DOMAIN log : log'[k] = IF k = i THEN r ELSE log[k]
    BY <2>3
  <2>5. \A k : Moved(i, edit, k) = k
    BY <1>2 DEF Moved
  <2> QED
    BY <1>1, <2>2, <2>4, <2>5
<1>3. CASE ~edit
  <2>1. log' = RemoveAt(log, i)
    BY <1>3 DEF Tamper
  <2>2. /\ DOMAIN log' = 1 .. Len(log) - 1
        /\ \A k \in 1 .. Len(log) - 1 : Shifted(i, k) \in 1 .. Len(log) /\ log'[k] = log[Shifted(i, k)]
    BY <1>1, <2>1, RowTyped, Removed
  <2>3. \A k : Moved(i, edit, k) = Shifted(i, k)
    BY <1>3 DEF Moved
  <2>4. \A j, k \in 1 .. Len(log) - 1 : j < k => Shifted(i, j) < Shifted(i, k)
    BY <1>1 DEF Shifted
  <2>5. \A k \in 1 .. Len(log) - 1 : k \in Nat /\ 1 <= k /\ (Shifted(i, k) = 1 => k = 1)
    BY <1>1 DEF Shifted
  <2> QED
    BY <1>1, <2>2, <2>3, <2>4, <2>5
<1> QED
  BY <1>2, <1>3

(* Neither edit nor deletion makes a broken chain whole.                   *)
LEMMA TamperSound ==
    ASSUME CpTypeOK, AuditSound, NEW i \in DOMAIN log, NEW edit \in BOOLEAN, Tamper(i, edit)
    PROVE  AuditSound'
<1>1. UNCHANGED <<written, nextRow>> /\ snapshot' = {} /\ tampers' = tampers + 1 /\ tampers \in Nat
  BY DEF Tamper, Commits, CpTypeOK
<1>2. LogSound
  BY DEF AuditSound
<1>3. LogSound'
  <2>1. ASSUME NEW k \in DOMAIN log'
        PROVE  IF log'[k].hash = <<>> THEN k = 1
               ELSE /\ log'[k].id \in DOMAIN written'
                    /\ log'[k].hash = EntryHash(log'[k].prev, log'[k].account, written'[log'[k].id].body)
    <3>1. PICK m \in DOMAIN log :
             /\ m = 1 => k = 1
             /\ log'[k].id = log[m].id /\ log'[k].account = log[m].account
             /\ log'[k].prev = log[m].prev /\ log'[k].hash = log[m].hash
      BY RowsMoved
    <3> QED
      BY <1>1, <1>2, <3>1 DEF LogSound, EntryHash
  <2>2. ASSUME NEW j \in DOMAIN log', NEW k \in DOMAIN log', j < k,
               log'[j].account = log'[k].account, log'[j].hash # <<>>, log'[k].hash # <<>>
        PROVE  /\ Len(log'[j].hash) < Len(log'[k].hash)
               /\ log'[k].prev = log'[j].hash => written'[log'[k].id].after = log'[j].id
    <3>1. PICK l \in DOMAIN log, m \in DOMAIN log :
             /\ l < m
             /\ log'[j].id = log[l].id /\ log'[j].account = log[l].account
             /\ log'[j].prev = log[l].prev /\ log'[j].hash = log[l].hash
             /\ log'[k].id = log[m].id /\ log'[k].account = log[m].account
             /\ log'[k].prev = log[m].prev /\ log'[k].hash = log[m].hash
      BY <2>2, RowsMoved
    <3> QED
      BY <1>1, <1>2, <2>2, <3>1 DEF LogSound
  <2> QED
    BY <1>1, <1>2, <2>1, <2>2 DEF LogSound, EntryHash
<1>4. TailsSound'
  BY <1>1 DEF TailsSound
<1>5. tampers' # 0
  BY <1>1
<1> QED
  BY <1>3, <1>4, <1>5 DEF AuditSound

(* The log starts with a row from before hashes.                           *)
LEMMA CpInitInv == CpInit => CpInv
<1> SUFFICES ASSUME CpInit PROVE CpInv
  OBVIOUS
<1>1. PICK a \in Accounts :
         log = <<[id |-> 0, account |-> a, body |-> "legacy", prev |-> <<>>, hash |-> <<>>]>>
  BY CpAssumption DEF CpInit
<1>2. PICK r \in Row : log = <<r>> /\ r.hash = <<>>
  <2>1. PICK r : r = [id |-> 0, account |-> a, body |-> "legacy", prev |-> <<>>, hash |-> <<>>]
    OBVIOUS
  <2>2. <<>> \in Hashes /\ "legacy" \in Bodies
    BY EmptySeq DEF Hashes, Bodies
  <2>3. r \in Row /\ r.hash = <<>>
    BY <2>1, <2>2 DEF Row
  <2> QED
    BY <1>1, <2>1, <2>3
<1>3. log \in Seq(Row) /\ DOMAIN log = {1} /\ log[1] = r
  BY <1>2
<1>4. /\ written = <<>> /\ nextRow = 1 /\ snapshot = {}
      /\ resource = [k \in ResourceIds |-> Nobody]
      /\ call = [c \in Calls |-> <<>>] /\ tail = [c \in Calls |-> <<>>]
  BY DEF CpInit
<1>8. taken = {}
  BY DEF CpInit
<1>5. CpTypeOK
  <2>1. written \in Seq([body : Bodies, after : Nat])
    BY <1>4, EmptySeq
  <2>2. call \in [Calls -> Seq(Statement)] /\ tail \in [Calls -> Hashes]
    BY <1>4, EmptySeq DEF Hashes
  <2>3. /\ activated \subseteq Accounts /\ warehouse \in [WarehouseNames -> Accounts \cup {"nobody"}]
        /\ started \in Nat /\ tampers \in Nat
    BY DEF CpInit
  <2>4. resource \in [ResourceIds -> Owners \cup {Nobody}]
    BY <1>4
  <2> QED
    BY <1>3, <1>4, <2>1, <2>2, <2>3, <2>4 DEF CpTypeOK
<1>6. OwnersSound
  <2>1. \A c \in Calls : PutsSound(call[c])
    BY <1>4 DEF PutsSound
  <2> QED
    BY <1>4, <1>8, <2>1 DEF OwnersSound
<1>7. AuditSound
  <2>1. LogSound
    <3>1. nextRow = Len(written) + 1
      BY <1>4
    <3>2. \A i \in DOMAIN log : i = 1 /\ log[i].hash = <<>>
      BY <1>2, <1>3
    <3> QED
      BY <3>1, <3>2 DEF LogSound
  <2>2. TailsSound
    BY <1>4 DEF TailsSound
  <2>3. \A b \in Accounts : VerifyAuditChain(b)
    BY <1>2, <1>3 DEF VerifyAuditChain, Hashed, Own
  <2> QED
    BY <2>1, <2>2, <2>3 DEF AuditSound
<1> QED
  BY <1>5, <1>6, <1>7 DEF CpInv
(* Every step of the control plane keeps its invariant.                    *)
LEMMA CpStep == CpInv /\ [CpNext]_cpVars => CpInv'
<1> SUFFICES ASSUME CpInv, [CpNext]_cpVars PROVE CpInv'
  OBVIOUS
<1>1. CpTypeOK /\ OwnersSound /\ AuditSound
  BY DEF CpInv
<1>2. CASE UNCHANGED cpVars
  <2>1. CpTypeOK'
    BY <1>1, <1>2 DEF CpTypeOK, cpVars
  <2>2. OwnersSound'
    BY <1>1, <1>2 DEF OwnersSound, PutsSound, Stored, cpVars
  <2>3. AuditSound'
    BY <1>1, <1>2, AuditFrame DEF cpVars
  <2> QED
    BY <2>1, <2>2, <2>3 DEF CpInv
<1>3. ASSUME NEW c \in Calls, Fresh(c), StatementsWait, CpTypeOK', OwnersSound'
      PROVE  CpInv'
  <2>1. AuditSound'
    BY <1>1, <1>3, CommitSound DEF Fresh, StatementsWait
  <2> QED
    BY <1>3, <2>1 DEF CpInv
<1>4. DefaultSlug \in AllSlugs /\ \A s \in Slugs : s \in AllSlugs
  BY DEF AllSlugs
<1>5. CASE CpNext
  <2>1. PICK c \in Calls :
      \/ \E a \in Accounts : CreateAccount(c, a)
      \/ \E actor \in Accounts, glass \in BOOLEAN :
           \/ \E a \in Accounts, slug \in Slugs : CreateOrganization(c, actor, a, slug, glass)
           \/ \E org \in OrgIds, slug \in Slugs, kind \in {"workspace", "binding"} :
                CreateUnderOrganization(c, actor, kind, org, slug, glass)
           \/ \E org \in OrgIds : \/ UpsertAuditExport(c, actor, org, glass)
                                 \/ GetAuditExport(c, actor, org, glass)
           \/ \E ws \in OrgIds, slug \in Slugs : CreateUnderWorkspace(c, actor, ws, slug, glass)
      \/ \E a \in Accounts, entitlement \in Entitlements :
           \/ RegisterEnterprise(c, a, entitlement)
           \/ \E name \in WarehouseNames : CreateWarehouse(c, a, name, entitlement)
      \/ RunBootstrap(c) \/ RunPut(c) \/ RunInsert(c)
      \/ ReadTail(c) \/ AppendRow(c) \/ Crash(c)
      \/ \E i \in 1 .. MaxLog, edit \in BOOLEAN : Tamper(i, edit)
    BY <1>5 DEF CpNext
  <2>2. ASSUME NEW a \in Accounts, CreateAccount(c, a) PROVE CpInv'
    BY <1>1, <1>3, <2>2, AccountBegins DEF CreateAccount, Quiet
  <2>3. ASSUME NEW actor \in Accounts, NEW a \in Accounts, NEW glass \in BOOLEAN, NEW slug \in Slugs,
               CreateOrganization(c, actor, a, slug, glass)
        PROVE  CpInv'
    BY <1>1, <1>3, <2>3, OrganizationBegins DEF CreateOrganization, Quiet
  <2>4. ASSUME NEW actor \in Accounts, NEW glass \in BOOLEAN, NEW org \in OrgIds,
               NEW slug \in Slugs, NEW kind \in {"workspace", "binding"},
               CreateUnderOrganization(c, actor, kind, org, slug, glass)
        PROVE  CpInv'
    <3>1. CpTypeOK' /\ OwnersSound'
      BY <1>1, <1>4, <2>4, UnderOrganizationBegins
    <3> QED
      BY <1>3, <2>4, <3>1 DEF CreateUnderOrganization, Quiet
  <2>5. ASSUME NEW actor \in Accounts, NEW glass \in BOOLEAN, NEW org \in OrgIds,
               UpsertAuditExport(c, actor, org, glass)
        PROVE  CpInv'
    <3>1. CreateUnderOrganization(c, actor, "export", org, DefaultSlug, glass)
      BY <2>5 DEF UpsertAuditExport
    <3>2. CpTypeOK' /\ OwnersSound'
      BY <1>1, <1>4, <3>1, UnderOrganizationBegins
    <3> QED
      BY <1>3, <3>1, <3>2 DEF CreateUnderOrganization, Quiet
  <2>6. ASSUME NEW actor \in Accounts, NEW glass \in BOOLEAN, NEW org \in OrgIds,
               GetAuditExport(c, actor, org, glass)
        PROVE  CpInv'
    BY <1>1, <1>3, <2>6, ExportReadBegins DEF GetAuditExport, Quiet
  <2>7. ASSUME NEW actor \in Accounts, NEW glass \in BOOLEAN, NEW ws \in OrgIds,
               NEW slug \in Slugs, CreateUnderWorkspace(c, actor, ws, slug, glass)
        PROVE  CpInv'
    BY <1>1, <1>3, <2>7, UnderWorkspaceBegins DEF CreateUnderWorkspace, Quiet
  <2>8. ASSUME NEW a \in Accounts, NEW entitlement, RegisterEnterprise(c, a, entitlement) PROVE CpInv'
    BY <1>1, <1>3, <2>8, ActivationBegins DEF RegisterEnterprise, Quiet
  <2>9. ASSUME NEW a \in Accounts, NEW entitlement, NEW name \in WarehouseNames,
               CreateWarehouse(c, a, name, entitlement)
        PROVE  CpInv'
    BY <1>1, <1>3, <2>9, ActivationBegins DEF CreateWarehouse
  <2>10. CASE RunBootstrap(c) \/ RunInsert(c) \/ Crash(c)
    BY <1>1, <2>10, CallGoesOn, StatementSound DEF CpInv
  <2>11. CASE RunPut(c)
    BY <1>1, <2>11, PutRuns, StatementSound DEF CpInv
  <2>12. CASE ReadTail(c)
    BY <1>1, <2>12, TailRead, ReadSound DEF CpInv
  <2>13. CASE AppendRow(c)
    BY <1>1, <2>13, RowAppended, AppendSound DEF CpInv
  <2>14. ASSUME NEW i, NEW edit \in BOOLEAN, Tamper(i, edit) PROVE CpInv'
    <3>1. i \in DOMAIN log
      BY <2>14 DEF Tamper
    <3> QED
      BY <1>1, <2>14, <3>1, Tampered, TamperSound DEF CpInv
  <2> QED
    BY <2>1, <2>2, <2>3, <2>4, <2>5, <2>6, <2>7, <2>8, <2>9, <2>10, <2>11, <2>12, <2>13, <2>14
<1> QED
  BY <1>2, <1>5

(* What is sound is what the two properties say.                           *)
LEMMA OwnersChained ==
    ASSUME CpTypeOK, OwnersSound
    PROVE  OwnerChain
<1>1. ASSUME NEW k \in ResourceIds, k[1] \in Under, resource[k] # Nobody
      PROVE  /\ resource[<<"organization", resource[k].org>>] # Nobody
             /\ \/ resource[<<"organization", resource[k].org>>].account = resource[k].account
                \/ resource[k].org \in taken
  <2>1. Stored(resource[k])
    BY <1>1, OwnerRead
  <2> QED
    BY <2>1 DEF Stored, OrgKey
<1>2. taken \subseteq SharedIds
  BY DEF OwnersSound
<1> QED
  BY <1>1, <1>2 DEF OwnerChain, Under

(* The invariant says what VerifiedIsGenuine says: hashes do not collide.  *)
LEMMA AuditVerified ==
    ASSUME CpTypeOK, AuditSound
    PROVE  VerifiedIsGenuine
<1>1. ASSUME NEW a \in Accounts, VerifyAuditChain(a), NEW i \in Hashed(a)
      PROVE  log[i].body = written[log[i].id].body
  <2>1. i \in DOMAIN log /\ log[i].hash # <<>>
    BY DEF Hashed, Own
  <2>2. /\ log[i].id \in DOMAIN written
        /\ log[i].hash = EntryHash(log[i].prev, log[i].account, written[log[i].id].body)
    BY <2>1 DEF AuditSound, LogSound
  <2>3. log[i].hash = EntryHash(log[i].prev, log[i].account, log[i].body)
    BY <1>1 DEF VerifyAuditChain, HashHolds
  <2>4. log[i].prev \in Hashes /\ log[i].account \in Accounts /\ log[i].body \in Bodies
    BY <2>1, RowTyped
  <2>5. written[log[i].id].body \in Bodies
    <3>1. written \in Seq([body : Bodies, after : Nat])
      BY DEF CpTypeOK
    <3>2. log[i].id \in 1 .. Len(written)
      BY <2>2, <3>1, LenProperties
    <3>3. written[log[i].id] \in [body : Bodies, after : Nat]
      BY <3>1, <3>2, ElementOfSeq
    <3> QED
      BY <3>3
  <2>6. \A p \in Hashes, b \in Accounts, x, y \in Bodies : EntryHash(p, b, x) = EntryHash(p, b, y) => x = y
    <3>1. ASSUME NEW p \in Hashes, NEW b \in Accounts, NEW x \in Bodies, NEW y \in Bodies,
                 EntryHash(p, b, x) = EntryHash(p, b, y)
          PROVE  x = y
      <4>1. EntryHash(p, b, x)[Len(p) + 1] = <<b, x>>
        BY HashTyped
      <4>2. EntryHash(p, b, y)[Len(p) + 1] = <<b, y>>
        BY HashTyped
      <4>3. <<b, x>> = <<b, y>>
        BY <3>1, <4>1, <4>2
      <4> QED
        BY <4>3
    <3> QED
      BY <3>1
  <2> QED
    BY <2>2, <2>3, <2>4, <2>5, <2>6
<1>2. ASSUME NEW a \in Accounts, VerifyAuditChain(a), NEW i \in Hashed(a), NEW j \in Hashed(a), Follows(a, i, j)
      PROVE  written[log[j].id].after = log[i].id
  <2>1. log[j].prev = log[i].hash
    BY <1>2 DEF VerifyAuditChain
  <2>2. i \in DOMAIN log /\ j \in DOMAIN log /\ i < j /\ log[i].account = log[j].account
        /\ log[i].hash # <<>> /\ log[j].hash # <<>>
    BY <1>2 DEF Hashed, Own, Follows
  <2> QED
    BY <2>1, <2>2 DEF AuditSound, LogSound
<1> QED
  BY <1>1, <1>2 DEF VerifiedIsGenuine, AuditSound

-------------------------------------------------------------------------------
\* Warehouses within the entitlement.

(* An insert is the first statement of its request; of an account of which *)
(* no two requests counted at once, one request inserts and has its place. *)
NoInsert(s) == \A i \in DOMAIN s : s[i].op # "insert"
LimitSound ==
    /\ \A c \in Calls : \A i \in DOMAIN call[c] : call[c][i].op = "insert" => i = 1
    /\ \A a \in Accounts \ raced :
         /\ \A c, d \in Calls : Inserting(c, a) /\ Inserting(d, a) => c = d
         /\ CountWarehouses(a) <= Limit
         /\ (\E c \in Calls : Inserting(c, a)) => CountWarehouses(a) + 1 <= Limit

(* Who inserts nothing and brings no insert keeps every account's limit.   *)
LEMMA LimitFrame ==
    ASSUME LimitSound, CpTypeOK', UNCHANGED <<warehouse, raced>>,
           \A d \in Calls : call'[d] = call[d] \/ NoInsert(call'[d])
    PROVE  LimitSound'
<1>1. ASSUME NEW d \in Calls, NoInsert(call'[d]), NEW a PROVE ~Inserting(d, a)'
  <2>1. call'[d] \in Seq(Statement)
    BY DEF CpTypeOK
  <2>2. SUFFICES ASSUME call'[d] # <<>> PROVE Head(call'[d]).op # "insert"
    BY DEF Inserting, Runs, Next1
  <2>3. Head(call'[d]) = call'[d][1] /\ 1 \in DOMAIN call'[d]
    BY <2>1, <2>2, HeadTailProperties, LenProperties, EmptySeq
  <2> QED
    BY <1>1, <2>3 DEF NoInsert
<1>2. ASSUME NEW d \in Calls, NEW a PROVE Inserting(d, a)' => Inserting(d, a)
  <2>1. CASE call'[d] = call[d]
    BY <2>1 DEF Inserting, Runs, Next1
  <2> QED
    BY <1>1, <2>1
<1>3. \A a : CountWarehouses(a)' = CountWarehouses(a)
  BY DEF CountWarehouses
<1>4. \A c \in Calls : \A i \in DOMAIN call'[c] : call'[c][i].op = "insert" => i = 1
  BY DEF LimitSound, NoInsert
<1>5. ASSUME NEW a \in Accounts \ raced
      PROVE  /\ \A c, d \in Calls : Inserting(c, a)' /\ Inserting(d, a)' => c = d
             /\ CountWarehouses(a)' <= Limit
             /\ (\E c \in Calls : Inserting(c, a)') => CountWarehouses(a)' + 1 <= Limit
  BY <1>2, <1>3 DEF LimitSound
<1> QED
  BY <1>4, <1>5 DEF LimitSound

(* What is left of a request inserts nothing.                              *)
LEMMA RestNoInsert ==
    ASSUME CpTypeOK, LimitSound, NEW c \in Calls, call[c] # <<>>
    PROVE  NoInsert(Tail(call[c]))
<1>1. /\ \A i \in DOMAIN Tail(call[c]) : i + 1 \in DOMAIN call[c] /\ Tail(call[c])[i] = call[c][i + 1]
      /\ Tail(call[c]) \in Seq(Statement)
  BY CallTyped
<1>2. \A i \in DOMAIN Tail(call[c]) : i \in Nat /\ i >= 1
  BY <1>1, LenProperties
<1> QED
  BY <1>1, <1>2 DEF NoInsert, LimitSound

(* A request that only stores resources or is refused inserts nothing.     *)
LEMMA StoringNoInsert ==
    /\ NoInsert(<<>>)
    /\ \A a, body : NoInsert(<<Audit(a, body)>>)
    /\ \A kind, id, a, org, body : NoInsert(<<Put(kind, id, a, org), Audit(a, body)>>)
    /\ \A a, id, org, body : NoInsert(<<[op |-> "bootstrap", account |-> a],
                                    Put("account", id, a, org), Put("organization", id, a, org),
                                    Put("workspace", id, a, org), Audit(a, body)>>)
<1>1. \A a, body : Audit(a, body).op = "audit"
  BY DEF Audit
<1>2. \A kind, id, a, org : Put(kind, id, a, org).op = "put"
  BY DEF Put
<1>3. \A a : [op |-> "bootstrap", account |-> a].op = "bootstrap"
  OBVIOUS
<1>4. \A m : m.op # "insert" => NoInsert(<<m>>)
  BY DEF NoInsert
<1>5. \A p, m : p.op # "insert" /\ m.op # "insert" => NoInsert(<<p, m>>)
  BY DEF NoInsert
<1>6. ASSUME NEW b, NEW p, NEW q, NEW r, NEW m, b.op # "insert", p.op # "insert", q.op # "insert",
             r.op # "insert", m.op # "insert"
      PROVE  NoInsert(<<b, p, q, r, m>>)
  <2>1. PICK s : s = <<b, p, q, r, m>>
    OBVIOUS
  <2>2. DOMAIN s = 1 .. 5 /\ s[1] = b /\ s[2] = p /\ s[3] = q /\ s[4] = r /\ s[5] = m
    BY <2>1
  <2>3. \A i \in 1 .. 5 : i = 1 \/ i = 2 \/ i = 3 \/ i = 4 \/ i = 5
    OBVIOUS
  <2>4. NoInsert(s)
    BY <1>6, <2>2, <2>3 DEF NoInsert
  <2> QED
    BY <2>1, <2>4
<1>7. NoInsert(<<>>)
  BY DEF NoInsert
<1>8. \A a, id, org, body : NoInsert(<<[op |-> "bootstrap", account |-> a],
                                    Put("account", id, a, org), Put("organization", id, a, org),
                                    Put("workspace", id, a, org), Audit(a, body)>>)
  BY <1>1, <1>2, <1>3, <1>6
<1> QED
  BY <1>1, <1>2, <1>4, <1>5, <1>7, <1>8

(* A request of the control plane, and an activation, bring no insert.     *)
LEMMA BeginsNoInsert ==
    ASSUME NEW c \in Calls, CpTypeOK,
           \/ \E a \in Accounts : CreateAccount(c, a)
           \/ \E actor \in Accounts, glass \in BOOLEAN :
                \/ \E a \in Accounts, slug \in Slugs : CreateOrganization(c, actor, a, slug, glass)
                \/ \E org \in OrgIds, slug \in Slugs, kind \in {"workspace", "binding"} :
                     CreateUnderOrganization(c, actor, kind, org, slug, glass)
                \/ \E org \in OrgIds : \/ UpsertAuditExport(c, actor, org, glass)
                                      \/ GetAuditExport(c, actor, org, glass)
                \/ \E ws \in OrgIds, slug \in Slugs : CreateUnderWorkspace(c, actor, ws, slug, glass)
           \/ \E a \in Accounts, e \in Entitlements : RegisterEnterprise(c, a, e)
    PROVE  /\ UNCHANGED <<warehouse, raced>>
           /\ \A d \in Calls : call'[d] = call[d] \/ NoInsert(call'[d])
<1>1. ASSUME NEW s, NoInsert(s), call' = [call EXCEPT ![c] = s], Quiet
      PROVE  /\ UNCHANGED <<warehouse, raced>>
             /\ \A d \in Calls : call'[d] = call[d] \/ NoInsert(call'[d])
  BY <1>1 DEF CpTypeOK, Quiet, StatementsWait
<1>2. ASSUME NEW a \in Accounts, CreateAccount(c, a)
      PROVE  /\ UNCHANGED <<warehouse, raced>>
             /\ \A d \in Calls : call'[d] = call[d] \/ NoInsert(call'[d])
  <2>1. PICK s : s = <<[op |-> "bootstrap", account |-> a], Put("account", Main(a), a, Main(a)),
                       Put("organization", Main(a), a, Main(a)), Put("workspace", Main(a), a, Main(a)),
                       Audit(a, "allowed")>>
    OBVIOUS
  <2>2. NoInsert(s)
    BY <2>1, StoringNoInsert
  <2> QED
    BY <1>1, <1>2, <2>1, <2>2 DEF CreateAccount
<1>3. ASSUME NEW actor, NEW a, NEW slug, NEW glass, CreateOrganization(c, actor, a, slug, glass)
      PROVE  /\ UNCHANGED <<warehouse, raced>>
             /\ \A d \in Calls : call'[d] = call[d] \/ NoInsert(call'[d])
  <2>1. PICK s : s = IF May(actor, a, glass)
                     THEN <<Put("organization", OrgId(a, slug), a, OrgId(a, slug)), Audit(a, "allowed")>>
                     ELSE Denied(a)
    OBVIOUS
  <2>2. NoInsert(s)
    BY <2>1, StoringNoInsert DEF Denied
  <2> QED
    BY <1>1, <1>3, <2>1, <2>2 DEF CreateOrganization
<1>4. ASSUME NEW actor, NEW kind, NEW org, NEW slug, NEW glass,
             CreateUnderOrganization(c, actor, kind, org, slug, glass)
      PROVE  /\ UNCHANGED <<warehouse, raced>>
             /\ \A d \in Calls : call'[d] = call[d] \/ NoInsert(call'[d])
  <2>1. PICK owner : owner = resource[<<"organization", org>>].account
    OBVIOUS
  <2>2. PICK s : s = IF May(actor, owner, glass)
                     THEN <<Put(kind, NewId(kind, owner, org, slug), owner, org), Audit(owner, "allowed")>>
                     ELSE Denied(owner)
    OBVIOUS
  <2>3. NoInsert(s)
    BY <2>2, StoringNoInsert DEF Denied
  <2> QED
    BY <1>1, <1>4, <2>1, <2>2, <2>3 DEF CreateUnderOrganization
<1>5. ASSUME NEW actor, NEW org, NEW glass, GetAuditExport(c, actor, org, glass)
      PROVE  /\ UNCHANGED <<warehouse, raced>>
             /\ \A d \in Calls : call'[d] = call[d] \/ NoInsert(call'[d])
  <2>1. PICK owner : owner = resource[<<"organization", org>>].account
    OBVIOUS
  <2>2. PICK s : s = IF May(actor, owner, glass) THEN <<>> ELSE Denied(owner)
    OBVIOUS
  <2>3. NoInsert(s)
    BY <2>2, StoringNoInsert DEF Denied
  <2> QED
    BY <1>1, <1>5, <2>1, <2>2, <2>3 DEF GetAuditExport
<1>6. ASSUME NEW actor, NEW ws, NEW slug, NEW glass, CreateUnderWorkspace(c, actor, ws, slug, glass)
      PROVE  /\ UNCHANGED <<warehouse, raced>>
             /\ \A d \in Calls : call'[d] = call[d] \/ NoInsert(call'[d])
  <2>1. PICK owner : owner = resource[<<"workspace", ws>>]
    OBVIOUS
  <2>2. PICK s : s = IF May(actor, owner.account, glass)
                     THEN <<Put("binding", <<"any", slug>>, owner.account, owner.org),
                            Audit(owner.account, "allowed")>>
                     ELSE Denied(owner.account)
    OBVIOUS
  <2>3. NoInsert(s)
    BY <2>2, StoringNoInsert DEF Denied
  <2> QED
    BY <1>1, <1>6, <2>1, <2>2, <2>3 DEF CreateUnderWorkspace
<1>7. ASSUME NEW a \in Accounts, NEW e, RegisterEnterprise(c, a, e)
      PROVE  /\ UNCHANGED <<warehouse, raced>>
             /\ \A d \in Calls : call'[d] = call[d] \/ NoInsert(call'[d])
  <2>1. PICK b, m : b = [op |-> "bootstrap", account |-> a] /\ m = Audit(a, "allowed")
    OBVIOUS
  <2>2. b.op = "bootstrap" /\ m.op = "audit"
    BY <2>1 DEF Audit
  <2>3. <<b>> \o <<m>> = <<b, m>>
    BY PairJoined
  <2>4. NoInsert(<<b, m>>)
    BY <2>2 DEF NoInsert
  <2>5. NoInsert(AuditActivation(a, DenialReason(e)))
    BY StoringNoInsert DEF AuditActivation
  <2>6. PICK s : s = IF Entitled(e)
                     THEN <<[op |-> "bootstrap", account |-> a]>> \o AuditActivation(a, "allowed")
                     ELSE AuditActivation(a, DenialReason(e))
    OBVIOUS
  <2>7. NoInsert(s)
    BY <2>1, <2>3, <2>4, <2>5, <2>6 DEF AuditActivation
  <2> QED
    BY <1>1, <1>7, <2>6, <2>7 DEF RegisterEnterprise
<1> QED
  BY <1>2, <1>3, <1>4, <1>5, <1>6, <1>7 DEF UpsertAuditExport

(* create_enterprise_warehouse counts: with nobody else on the way to the  *)
(* same account, the place it saw is still there.                          *)
LEMMA CountedSound ==
    ASSUME CpTypeOK, CpTypeOK', LimitSound, NEW c \in Calls, NEW a \in Accounts,
           NEW name \in WarehouseNames, NEW e, CreateWarehouse(c, a, name, e)
    PROVE  LimitSound'
<1>1. UNCHANGED warehouse /\ call[c] = <<>>
  BY DEF CreateWarehouse, Fresh, StatementsWait
<1>2. PICK allowed \in BOOLEAN :
         /\ allowed <=> Entitled(e) /\ CountWarehouses(a) + 1 <= Limit
         /\ call' = [call EXCEPT ![c] =
                       IF allowed THEN <<Insert(name, a)>> \o AuditActivation(a, "allowed")
                       ELSE AuditActivation(a, DenialReason(e))]
         /\ raced' = IF allowed /\ \E d \in Calls : Inserting(d, a) THEN raced \cup {a} ELSE raced
  BY DEF CreateWarehouse
<1>3. CASE ~allowed
  <2>1. PICK s : s = AuditActivation(a, DenialReason(e)) /\ NoInsert(s)
    BY StoringNoInsert DEF AuditActivation
  <2>2. call' = [call EXCEPT ![c] = s]
    BY <1>2, <1>3, <2>1
  <2>3. \A d \in Calls : call'[d] = call[d] \/ NoInsert(call'[d])
    BY <2>1, <2>2 DEF CpTypeOK
  <2> QED
    BY <1>1, <1>2, <1>3, <2>3, LimitFrame
<1>4. CASE allowed
  <2>1. PICK b, m : b = Insert(name, a) /\ m = Audit(a, "allowed")
    OBVIOUS
  <2>2. b.op = "insert" /\ b.account = a /\ m.op = "audit"
    BY <2>1 DEF Audit, Insert
  <2>3. PICK s : s = <<b, m>>
    OBVIOUS
  <2>4. s # <<>> /\ DOMAIN s = {1, 2} /\ s[1] = b /\ s[2] = m /\ Head(s) = b
    BY <2>3
  <2>5. <<b>> \o <<m>> = s
    BY <2>3, PairJoined
  <2>6. call' = [call EXCEPT ![c] = s]
    BY <1>2, <1>4, <2>1, <2>5 DEF AuditActivation
  <2>7. call'[c] = s /\ \A d \in Calls \ {c} : call'[d] = call[d]
    BY <2>6 DEF CpTypeOK
  <2>8. \A d \in Calls : \A i \in DOMAIN call'[d] : call'[d][i].op = "insert" => i = 1
    BY <2>2, <2>4, <2>7 DEF LimitSound
  <2>9. \A d \in Calls : \A x : Inserting(d, x)' <=> IF d = c THEN x = a ELSE Inserting(d, x)
    BY <2>2, <2>4, <2>7 DEF Inserting, Runs, Next1
  <2>10. \A x : CountWarehouses(x)' = CountWarehouses(x)
    BY <1>1 DEF CountWarehouses
  <2>11. ASSUME NEW x \in Accounts \ raced'
         PROVE  /\ \A d, f \in Calls : Inserting(d, x)' /\ Inserting(f, x)' => d = f
                /\ CountWarehouses(x)' <= Limit
                /\ (\E d \in Calls : Inserting(d, x)') => CountWarehouses(x)' + 1 <= Limit
    <3>1. x \in Accounts \ raced
      BY <1>2, <2>11
    <3>2. CASE x = a
      <4>1. ~\E d \in Calls : Inserting(d, a)
        BY <1>2, <1>4, <2>11, <3>2
      <4>2. \A d \in Calls : Inserting(d, a)' => d = c
        BY <2>9, <4>1
      <4>3. CountWarehouses(x)' <= Limit /\ CountWarehouses(x)' + 1 <= Limit
        BY <1>2, <1>4, <2>10, <3>1, <3>2 DEF LimitSound
      <4> QED
        BY <3>2, <4>2, <4>3
    <3>3. CASE x # a
      <4>1. \A d \in Calls : Inserting(d, x)' => Inserting(d, x)
        BY <2>9, <3>3
      <4> QED
        BY <2>10, <3>1, <4>1 DEF LimitSound
    <3> QED
      BY <3>2, <3>3
  <2> QED
    BY <2>8, <2>11 DEF LimitSound
<1> QED
  BY <1>3, <1>4

(* The INSERT takes the place its request has.                             *)
LEMMA InsertedSound ==
    ASSUME CpTypeOK, CpTypeOK', LimitSound, NEW c \in Calls, RunInsert(c)
    PROVE  LimitSound'
<1>1. PICK name \in WarehouseNames, a \in Accounts :
         /\ name = Next1(c).name /\ a = Next1(c).account
         /\ call[c] # <<>> /\ Next1(c).op = "insert" /\ UNCHANGED raced
  <2>1. call[c] # <<>> /\ Next1(c).op = "insert" /\ UNCHANGED raced
    BY DEF RunInsert, Runs, Other
  <2> QED
    BY <2>1, CallTyped, StatementTyped
<1>2. call \in [Calls -> Seq(Statement)] /\ NoInsert(<<>>) /\ NoInsert(Tail(call[c]))
  BY <1>1, RestNoInsert, StoringNoInsert DEF CpTypeOK
<1>3. CASE warehouse[name] # "nobody"
  <2>1. UNCHANGED warehouse /\ call' = [call EXCEPT ![c] = <<>>]
    BY <1>1, <1>3 DEF RunInsert
  <2>2. \A d \in Calls : call'[d] = call[d] \/ NoInsert(call'[d])
    BY <1>2, <2>1
  <2> QED
    BY <1>1, <2>1, <2>2, LimitFrame
<1>4. CASE warehouse[name] = "nobody"
  <2>1. warehouse' = [warehouse EXCEPT ![name] = a] /\ Drop(c)
    BY <1>1, <1>4 DEF RunInsert
  <2>2. call'[c] = Tail(call[c]) /\ \A d \in Calls \ {c} : call'[d] = call[d]
    BY <1>2, <2>1 DEF Drop
  <2>3. \A d \in Calls : \A i \in DOMAIN call'[d] : call'[d][i].op = "insert" => i = 1
    BY <1>2, <2>2 DEF LimitSound, NoInsert
  <2>4. \A x : ~Inserting(c, x)'
    <3>1. call'[c] \in Seq(Statement) /\ NoInsert(call'[c])
      BY <1>2, <2>2 DEF CpTypeOK
    <3>2. call'[c] # <<>> => Head(call'[c]).op # "insert"
      <4>1. call'[c] # <<>> => Head(call'[c]) = call'[c][1] /\ 1 \in DOMAIN call'[c]
        BY <3>1, HeadTailProperties, LenProperties, EmptySeq
      <4> QED
        BY <3>1, <4>1 DEF NoInsert
    <3> QED
      BY <3>2 DEF Inserting, Runs, Next1
  <2>5. \A d \in Calls \ {c} : \A x : Inserting(d, x)' <=> Inserting(d, x)
    BY <2>2 DEF Inserting, Runs, Next1
  <2>6. Inserting(c, a)
    BY <1>1 DEF Inserting, Runs
  <2>7. \A x \in Accounts : CountWarehouses(x)' = IF x = a THEN CountWarehouses(a) + 1
                                                 ELSE CountWarehouses(x)
    <3> DEFINE Has(x) == {w \in WarehouseNames : warehouse[w] = x}
    <3>1. warehouse \in [WarehouseNames -> Accounts \cup {"nobody"}]
      BY DEF CpTypeOK
    <3>2. IsFiniteSet(Has(a)) /\ name \notin Has(a)
      <4>1. Has(a) \subseteq WarehouseNames
        OBVIOUS
      <4>2. IsFiniteSet(Has(a))
        BY <4>1, CpAssumption, FS_Subset
      <4> QED
        BY <1>4, <4>2, CpAssumption
    <3>3. {w \in WarehouseNames : warehouse'[w] = a} = Has(a) \cup {name}
      BY <2>1, <3>1
    <3>4. Cardinality(Has(a) \cup {name}) = Cardinality(Has(a)) + 1
      BY <3>2, FS_AddElement
    <3>5. \A x \in Accounts : x # a => {w \in WarehouseNames : warehouse'[w] = x} = Has(x)
      BY <1>4, <2>1, <3>1, CpAssumption
    <3> QED
      BY <3>3, <3>4, <3>5 DEF CountWarehouses
  <2>8. ASSUME NEW x \in Accounts \ raced
        PROVE  /\ \A d, f \in Calls : Inserting(d, x)' /\ Inserting(f, x)' => d = f
               /\ CountWarehouses(x)' <= Limit
               /\ (\E d \in Calls : Inserting(d, x)') => CountWarehouses(x)' + 1 <= Limit
    <3>1. CASE x = a
      <4>1. \A d \in Calls : ~Inserting(d, a)'
        BY <2>4, <2>5, <2>6, <3>1 DEF LimitSound
      <4>2. CountWarehouses(a)' <= Limit
        BY <2>6, <2>7, <3>1 DEF LimitSound
      <4> QED
        BY <3>1, <4>1, <4>2
    <3>2. CASE x # a
      BY <2>4, <2>5, <2>7, <3>2 DEF LimitSound
    <3> QED
      BY <3>1, <3>2
  <2> QED
    BY <1>1, <2>3, <2>8 DEF LimitSound
<1> QED
  BY <1>3, <1>4

(* The other statements, a crash and an edit of the log insert nothing.    *)
LEMMA RunsNoInsert ==
    ASSUME CpTypeOK, CpTypeOK', LimitSound, NEW c \in Calls,
           \/ RunBootstrap(c) \/ RunPut(c) \/ ReadTail(c) \/ AppendRow(c) \/ Crash(c)
           \/ \E i, edit : Tamper(i, edit)
    PROVE  LimitSound'
<1>1. call \in [Calls -> Seq(Statement)]
  BY DEF CpTypeOK
<1>2. CASE RunBootstrap(c) \/ RunPut(c) \/ AppendRow(c)
  <2>1. UNCHANGED <<warehouse, raced>> /\ Drop(c) /\ call[c] # <<>>
    BY <1>2 DEF RunBootstrap, RunPut, AppendRow, Runs, Other
  <2>2. NoInsert(Tail(call[c]))
    BY <2>1, RestNoInsert
  <2>3. \A d \in Calls : call'[d] = call[d] \/ NoInsert(call'[d])
    BY <1>1, <2>1, <2>2 DEF Drop
  <2> QED
    BY <2>1, <2>3, LimitFrame
<1>3. CASE ReadTail(c)
  <2>1. call[c] # <<>> /\ Next1(c).op = "audit" /\ UNCHANGED <<warehouse, raced>>
    BY <1>3 DEF ReadTail, Runs
  <2>2. PICK m, n : m = Next1(c) /\ m \in Audits /\ n = [m EXCEPT !.op = "append"]
    BY <2>1, CallTyped, StatementTyped
  <2>3. n.op = "append"
    BY <2>2 DEF Audits
  <2>4. PICK s : s = call[c] /\ s \in Seq(Statement) /\ 1 \in DOMAIN s
    BY <2>1, CallTyped
  <2>5. call' = [call EXCEPT ![c] = [s EXCEPT ![1] = n]]
    BY <1>3, <2>2, <2>4 DEF ReadTail
  <2>6. call'[c] = [s EXCEPT ![1] = n] /\ \A d \in Calls \ {c} : call'[d] = call[d]
    BY <1>1, <2>5
  <2>7. \A i \in DOMAIN s : s[i].op = "insert" => i = 1
    BY <2>4 DEF LimitSound
  <2>8. NoInsert([s EXCEPT ![1] = n])
    BY <2>3, <2>4, <2>7 DEF NoInsert
  <2>9. \A d \in Calls : call'[d] = call[d] \/ NoInsert(call'[d])
    BY <2>6, <2>8
  <2> QED
    BY <2>1, <2>9, LimitFrame
<1>4. CASE Crash(c)
  <2>1. UNCHANGED <<warehouse, raced>> /\ call' = [call EXCEPT ![c] = <<>>]
    BY <1>4 DEF Crash
  <2>2. \A d \in Calls : call'[d] = call[d] \/ NoInsert(call'[d])
    BY <1>1, <2>1, StoringNoInsert
  <2> QED
    BY <2>1, <2>2, LimitFrame
<1>5. CASE \E i, edit : Tamper(i, edit)
  <2>1. UNCHANGED <<warehouse, raced, call>>
    BY <1>5 DEF Tamper
  <2> QED
    BY <2>1, LimitFrame
<1> QED
  BY <1>2, <1>3, <1>4, <1>5

(* At the start nobody has a warehouse.                                    *)
LEMMA LimitInit == CpInit => LimitSound
<1> SUFFICES ASSUME CpInit PROVE LimitSound
  OBVIOUS
<1>1. \A c \in Calls : call[c] = <<>>
  BY DEF CpInit
<1>2. \A a \in Accounts : {w \in WarehouseNames : warehouse[w] = a} = {}
  BY CpAssumption DEF CpInit
<1>3. \A a \in Accounts : CountWarehouses(a) = 0
  BY <1>2, FS_EmptySet DEF CountWarehouses
<1> QED
  BY <1>1, <1>3, CpAssumption DEF LimitSound, Inserting, Runs

(* Every step keeps the limits.                                            *)
LEMMA LimitStep == CpTypeOK /\ CpTypeOK' /\ LimitSound /\ [CpNext]_cpVars => LimitSound'
<1> SUFFICES ASSUME CpTypeOK, CpTypeOK', LimitSound, [CpNext]_cpVars PROVE LimitSound'
  OBVIOUS
<1>1. CASE UNCHANGED cpVars
  BY <1>1, LimitFrame DEF cpVars
<1>2. CASE CpNext
  <2>1. PICK c \in Calls :
      \/ \E a \in Accounts : CreateAccount(c, a)
      \/ \E actor \in Accounts, glass \in BOOLEAN :
           \/ \E a \in Accounts, slug \in Slugs : CreateOrganization(c, actor, a, slug, glass)
           \/ \E org \in OrgIds, slug \in Slugs, kind \in {"workspace", "binding"} :
                CreateUnderOrganization(c, actor, kind, org, slug, glass)
           \/ \E org \in OrgIds : \/ UpsertAuditExport(c, actor, org, glass)
                                 \/ GetAuditExport(c, actor, org, glass)
           \/ \E ws \in OrgIds, slug \in Slugs : CreateUnderWorkspace(c, actor, ws, slug, glass)
      \/ \E a \in Accounts, e \in Entitlements :
           \/ RegisterEnterprise(c, a, e)
           \/ \E name \in WarehouseNames : CreateWarehouse(c, a, name, e)
      \/ RunBootstrap(c) \/ RunPut(c) \/ RunInsert(c)
      \/ ReadTail(c) \/ AppendRow(c) \/ Crash(c)
      \/ \E i \in 1 .. MaxLog, edit \in BOOLEAN : Tamper(i, edit)
    BY <1>2 DEF CpNext
  <2>2. CASE \E a \in Accounts, e \in Entitlements, name \in WarehouseNames :
               CreateWarehouse(c, a, name, e)
    BY <2>2, CountedSound
  <2>3. CASE RunInsert(c)
    BY <2>3, InsertedSound
  <2>4. CASE \/ RunBootstrap(c) \/ RunPut(c) \/ ReadTail(c) \/ AppendRow(c) \/ Crash(c)
             \/ \E i \in 1 .. MaxLog, edit \in BOOLEAN : Tamper(i, edit)
    BY <2>4, RunsNoInsert
  <2>5. CASE /\ ~\E a \in Accounts, e \in Entitlements, name \in WarehouseNames :
                    CreateWarehouse(c, a, name, e)
             /\ ~RunInsert(c)
             /\ ~(\/ RunBootstrap(c) \/ RunPut(c) \/ ReadTail(c) \/ AppendRow(c) \/ Crash(c)
                  \/ \E i \in 1 .. MaxLog, edit \in BOOLEAN : Tamper(i, edit))
    <3>1. /\ UNCHANGED <<warehouse, raced>>
          /\ \A d \in Calls : call'[d] = call[d] \/ NoInsert(call'[d])
      BY <2>1, <2>5, BeginsNoInsert
    <3> QED
      BY <3>1, LimitFrame
  <2> QED
    BY <2>2, <2>3, <2>4, <2>5
<1> QED
  BY <1>1, <1>2

(* Whatever crashed between two statements or interleaved, for any         *)
(* accounts, names, organizations and requests: what is stored lies under a*)
(* stored organization, of its own account unless another with the same id *)
(* took it over; and an account keeps to its limit of warehouses unless two*)
(* requests counted at once (auth.rs: the *_control_plane handlers and     *)
(* create_enterprise_warehouse; upsert_control_plane_resource).            *)
THEOREM OwnersStand == CpSpec => []HoldingsStand
<1>1. CpInit => CpInv /\ LimitSound
  BY CpInitInv, LimitInit
<1>2. CpInv /\ LimitSound /\ [CpNext]_cpVars => (CpInv /\ LimitSound)'
  BY CpStep, LimitStep DEF CpInv
<1>3. CpInv /\ LimitSound => HoldingsStand
  <2>1. LimitSound => WithinLimit
    BY DEF LimitSound, WithinLimit
  <2> QED
    BY <2>1, OwnersChained DEF CpInv, HoldingsStand
<1> QED
  BY <1>1, <1>2, <1>3, PTL DEF CpSpec

(* Appends that race never break the chain of an account, and a chain that *)
(* verifies is the one that was written, whatever body was edited or row   *)
(* deleted (append_audit_event, verify_audit_chain), for any number of rows.*)
THEOREM AuditGenuine == CpSpec => []VerifiedIsGenuine
<1>1. CpInv => VerifiedIsGenuine
  BY AuditVerified DEF CpInv
<1> QED
  BY CpInitInv, CpStep, <1>1, PTL DEF CpSpec
================================================================================
