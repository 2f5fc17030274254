------------------------------ MODULE JobQueue ------------------------------
(***************************************************************************)
(* The Redis job queue of opensnow-queue: handlers push query jobs, warm   *)
(* workers pop them with BRPOP, run them and publish their status.         *)
(*                                                                         *)
(* A step is one Redis command or one decision of a worker between two     *)
(* awaits.  Redis executes the commands of one connection in order, so a   *)
(* BRPOP that blocks holds back every later command of that connection.    *)
(***************************************************************************)
EXTENDS Naturals, Sequences, FiniteSets

CONSTANTS
    NoJob,           \* what a worker without a job holds
    Job,             \* jobs; each is pushed once, by a handler of its own
    Warehouse,       \* warehouse names, one Redis list each
    WarehouseOf,     \* QueryJob.warehouse
    QueueWorker,     \* warm workers
    WarehousesOf,    \* WarmPoolConfig.warehouses, a sequence per worker
    Connection,      \* Redis connections (a JobQueue and its clones share one)
    HandlerConn,     \* the connection of the handlers' JobQueue
    WorkerConn,      \* [QueueWorker -> the connection of its JobQueue]
    PopTimeout,      \* pop_timeout_secs; 0 = block forever
    MaxCommandFaults,    \* bound: Redis commands that report an error
    MaxWorkerCrashes,    \* bound: crashes of a worker's process
    MaxExpiries,     \* bound: statuses that reach their TTL
    MaxTroubles      \* bound: these three together

ASSUME QueueAssumption ==
    /\ NoJob \notin Job
    /\ WarehouseOf \in [Job -> Warehouse]
    /\ WarehousesOf \in [QueueWorker -> Seq(Warehouse)]
    /\ HandlerConn \in Connection
    /\ WorkerConn \in [QueueWorker -> Connection]
    /\ {PopTimeout, MaxCommandFaults, MaxWorkerCrashes, MaxExpiries,
        MaxTroubles} \subseteq Nat

VARIABLES
    queue,     \* Redis lists; LPUSH appends, BRPOP takes the head
    status,    \* Redis opensnow:status:<job>; "none" = absent or expired
    push,      \* where the handler of a job is in JobQueue::push
    stage,     \* where a worker's task is
    job,       \* the job a worker holds, NoJob if none
    outcome,   \* what the executor returned for the job a worker holds
    readyFlag, \* ReadyFlag of a worker's process
    shutdown,  \* WarmWorkerHandle.shutdown
    commandFaults, workerCrashes, expiries

\* History: per warehouse the jobs in the order pushed and in the order
\* popped; how often a job ran and with what result; jobs popped and never
\* run.
VARIABLES pushed, popped, runs, result, lost

redisVars  == <<queue, status>>
consumerVars == <<stage, job, outcome>>
envVars    == <<shutdown, workerCrashes, expiries>>
histVars   == <<pushed, popped, runs, result, lost>>
queueVars == <<redisVars, push, consumerVars, readyFlag, envVars, commandFaults, histVars>>

Terminal == {"done", "failed"}

QueueTypeOK ==
    /\ queue \in [Warehouse -> Seq(Job)]
    /\ status \in [Job -> {"none", "queued", "running"} \cup Terminal]
    /\ push \in [Job -> {"idle", "pushed", "ok", "err"}]
    /\ stage \in [QueueWorker -> {"gating", "top", "waiting", "popped", "executing",
                          "finishing", "stopped"}]
    /\ job \in [QueueWorker -> Job \cup {NoJob}]
    /\ outcome \in [QueueWorker -> Terminal]
    /\ readyFlag \in [QueueWorker -> BOOLEAN]
    /\ shutdown \in [QueueWorker -> BOOLEAN]
    /\ pushed \in [Warehouse -> Seq(Job)] /\ popped \in [Warehouse -> Seq(Job)]
    /\ runs \in [Job -> Nat]
    /\ result \in [Job -> {"none"} \cup Terminal]
    /\ lost \subseteq Job
    /\ commandFaults \in Nat /\ workerCrashes \in Nat /\ expiries \in Nat

QueueInit ==
    /\ queue = [h \in Warehouse |-> <<>>]
    /\ status = [j \in Job |-> "none"]
    /\ push = [j \in Job |-> "idle"]
    /\ stage = [w \in QueueWorker |-> "gating"]
    /\ job = [w \in QueueWorker |-> NoJob]
    /\ outcome = [w \in QueueWorker |-> "failed"]
    /\ readyFlag = [w \in QueueWorker |-> FALSE]
    /\ shutdown = [w \in QueueWorker |-> FALSE]
    /\ commandFaults = 0 /\ workerCrashes = 0 /\ expiries = 0
    /\ pushed = [h \in Warehouse |-> <<>>]
    /\ popped = [h \in Warehouse |-> <<>>]
    /\ runs = [j \in Job |-> 0]
    /\ result = [j \in Job |-> "none"]
    /\ lost = {}

\* A connection answers unless a BRPOP sent on it is still waiting.
Answers(c) == \A w \in QueueWorker : ~(stage[w] = "waiting" /\ WorkerConn[w] = c)

\* All bounds of what can go wrong.
MoreTrouble == commandFaults + workerCrashes + expiries < MaxTroubles

\* One more command reports an error.
CommandFails == /\ commandFaults < MaxCommandFaults /\ MoreTrouble
                /\ commandFaults' = commandFaults + 1

-----------------------------------------------------------------------------
(* Producer: JobQueue::push. *)

\* RPUSH: the job goes where BRPOP takes.
Enqueue_Front(j) ==
    /\ queue' = [queue EXCEPT ![WarehouseOf[j]] = <<j>> \o @]
    /\ pushed' = [pushed EXCEPT ![WarehouseOf[j]] = Append(@, j)]

Enqueue(j) ==
    /\ queue' = [queue EXCEPT ![WarehouseOf[j]] = Append(@, j)]
    /\ pushed' = [pushed EXCEPT ![WarehouseOf[j]] = Append(@, j)]

LPush(j) ==
    /\ push[j] = "idle" /\ Answers(HandlerConn)
    /\ \/ Enqueue(j) /\ push' = [push EXCEPT ![j] = "pushed"] /\ UNCHANGED commandFaults
       \* The command or its reply is lost: push returns the error.
       \/ /\ CommandFails
          /\ push' = [push EXCEPT ![j] = "err"]
          /\ Enqueue(j) \/ UNCHANGED <<queue, pushed>>
    /\ UNCHANGED <<status, consumerVars, readyFlag, envVars,
                   popped, runs, result, lost>>

\* set_status: SET EX takes effect, or reports an error with or without it.
SetStatus(j, s) ==
    \/ status' = [status EXCEPT ![j] = s] /\ UNCHANGED commandFaults
    \/ CommandFails /\ (status' = [status EXCEPT ![j] = s] \/ UNCHANGED status)

InitialStatus(j) ==
    /\ push[j] = "pushed" /\ Answers(HandlerConn)
    /\ SetStatus(j, "queued")
    /\ push' = [push EXCEPT ![j] = IF commandFaults' = commandFaults THEN "ok" ELSE "err"]
    /\ UNCHANGED <<queue, consumerVars, readyFlag, envVars, histVars>>

\* STATUS_TTL_SECS pass without another set_status.
StatusExpires(j) ==
    /\ status[j] # "none" /\ expiries < MaxExpiries /\ MoreTrouble
    /\ expiries' = expiries + 1
    /\ status' = [status EXCEPT ![j] = "none"]
    /\ UNCHANGED <<queue, push, consumerVars, readyFlag, shutdown, commandFaults,
                   workerCrashes,
                   histVars>>

-----------------------------------------------------------------------------
(* Warm-up: run_warmup repeats the checks until they pass. *)

WarmupPasses(w) ==
    /\ stage[w] = "gating" /\ ~readyFlag[w]
    /\ readyFlag' = [readyFlag EXCEPT ![w] = TRUE]
    /\ UNCHANGED <<redisVars, push, consumerVars, envVars, commandFaults, histVars>>

-----------------------------------------------------------------------------
(* Consumer: the poll loop of spawn_warm_worker. *)

StartPolling(w) ==
    /\ stage[w] = "gating" /\ readyFlag[w]
    /\ stage' = [stage EXCEPT ![w] = "top"]
    /\ UNCHANGED <<redisVars, push, job, outcome, readyFlag, envVars, commandFaults, histVars>>

\* The head of the loop: leave if shutdown was requested, else send BRPOP.
CheckShutdown(w) ==
    /\ stage[w] = "top"
    /\ \/ shutdown[w] /\ stage' = [stage EXCEPT ![w] = "stopped"]
       \/ ~shutdown[w] /\ Answers(WorkerConn[w]) /\ stage' = [stage EXCEPT ![w] = "waiting"]
    /\ UNCHANGED <<redisVars, push, job, outcome, readyFlag, envVars, commandFaults, histVars>>

\* The first of the worker's lists that is not empty.
FirstNonEmpty(w, h) ==
    /\ queue[h] # <<>>
    /\ \E i \in DOMAIN WarehousesOf[w] :
         /\ WarehousesOf[w][i] = h
         /\ \A k \in 1 .. (i - 1) : queue[WarehousesOf[w][k]] = <<>>

AllEmpty(w) == \A i \in DOMAIN WarehousesOf[w] : queue[WarehousesOf[w][i]] = <<>>

\* The job stays in the list until someone removes it.
Dequeue_Peek(h) ==
    /\ UNCHANGED queue
    /\ popped' = [popped EXCEPT ![h] = Append(@, Head(queue[h]))]

\* Redis removes the job from the list when it answers BRPOP.
Dequeue(h) ==
    /\ queue' = [queue EXCEPT ![h] = Tail(@)]
    /\ popped' = [popped EXCEPT ![h] = Append(@, Head(queue[h]))]

PopFrom(w, h) ==
    /\ stage[w] = "waiting" /\ FirstNonEmpty(w, h)
    /\ Dequeue(h)
    /\ \/ /\ stage' = [stage EXCEPT ![w] = "popped"]
          /\ job' = [job EXCEPT ![w] = Head(queue[h])]
          /\ UNCHANGED <<commandFaults, lost>>
       \* The answer is lost with the connection: pop reports an error.
       \/ /\ CommandFails
          /\ stage' = [stage EXCEPT ![w] = "top"]
          /\ lost' = lost \cup {Head(queue[h])}
          /\ UNCHANGED job
    /\ UNCHANGED <<status, push, outcome, readyFlag, envVars, pushed, runs, result>>

PopJob(w) == \E h \in Warehouse : PopFrom(w, h)

\* A pop that reports an error ends the loop.
PopNothing_Exits(w) ==
    /\ stage[w] = "waiting"
    /\ \/ /\ PopTimeout # 0 /\ AllEmpty(w) /\ UNCHANGED commandFaults
          /\ stage' = [stage EXCEPT ![w] = "top"]
       \/ CommandFails /\ stage' = [stage EXCEPT ![w] = "stopped"]
    /\ UNCHANGED <<redisVars, push, job, outcome, readyFlag, envVars, histVars>>

\* BRPOP times out, or fails before it takes anything: back to the loop.
PopNothing(w) ==
    /\ stage[w] = "waiting"
    /\ \/ PopTimeout # 0 /\ AllEmpty(w) /\ UNCHANGED commandFaults
       \/ CommandFails
    /\ stage' = [stage EXCEPT ![w] = "top"]
    /\ UNCHANGED <<redisVars, push, job, outcome, readyFlag, envVars, histVars>>

\* An error of either set_status is logged, and the loop goes on.
MarkRunning(w) ==
    /\ stage[w] = "popped" /\ Answers(WorkerConn[w])
    /\ SetStatus(job[w], "running")
    /\ stage' = [stage EXCEPT ![w] = "executing"]
    /\ UNCHANGED <<queue, push, job, outcome, readyFlag, envVars, histVars>>

Execute(w) ==
    /\ stage[w] = "executing"
    /\ \E r \in Terminal :
        /\ outcome' = [outcome EXCEPT ![w] = r]
        /\ result' = [result EXCEPT ![job[w]] = r]
    /\ runs' = [runs EXCEPT ![job[w]] = @ + 1]
    /\ stage' = [stage EXCEPT ![w] = "finishing"]
    /\ UNCHANGED <<redisVars, push, job, readyFlag, envVars, commandFaults,
                   pushed, popped, lost>>

\* Whatever the executor returned, the job is reported done.
MarkFinished_Done(w) ==
    /\ stage[w] = "finishing" /\ Answers(WorkerConn[w])
    /\ SetStatus(job[w], "done")
    /\ stage' = [stage EXCEPT ![w] = "top"]
    /\ job' = [job EXCEPT ![w] = NoJob]
    /\ UNCHANGED <<queue, push, outcome, readyFlag, envVars, histVars>>

MarkFinished(w) ==
    /\ stage[w] = "finishing" /\ Answers(WorkerConn[w])
    /\ SetStatus(job[w], outcome[w])
    /\ stage' = [stage EXCEPT ![w] = "top"]
    /\ job' = [job EXCEPT ![w] = NoJob]
    /\ UNCHANGED <<queue, push, outcome, readyFlag, envVars, histVars>>

\* WarmWorkerHandle::shutdown, or the handle is dropped.
RequestShutdown(w) ==
    /\ ~shutdown[w]
    /\ shutdown' = [shutdown EXCEPT ![w] = TRUE]
    /\ UNCHANGED <<redisVars, push, consumerVars, readyFlag, commandFaults, workerCrashes,
                   expiries,
                   histVars>>

\* The process dies and is started again; a job it held is gone.
WorkerCrash(w) ==
    /\ workerCrashes < MaxWorkerCrashes /\ MoreTrouble /\ stage[w] # "stopped"
    /\ workerCrashes' = workerCrashes + 1
    /\ lost' = IF stage[w] \in {"popped", "executing"} THEN lost \cup {job[w]} ELSE lost
    /\ stage' = [stage EXCEPT ![w] = "gating"]
    /\ job' = [job EXCEPT ![w] = NoJob]
    /\ readyFlag' = [readyFlag EXCEPT ![w] = FALSE]
    /\ shutdown' = [shutdown EXCEPT ![w] = FALSE]
    /\ UNCHANGED <<redisVars, push, outcome, commandFaults, expiries, pushed, popped, runs,
                   result>>

Handler(j) == LPush(j) \/ InitialStatus(j)
Poll(w) == \/ StartPolling(w) \/ CheckShutdown(w) \/ PopJob(w) \/ PopNothing(w)
           \/ MarkRunning(w) \/ Execute(w) \/ MarkFinished(w)

QueueNext ==
    \/ \E j \in Job : Handler(j) \/ StatusExpires(j)
    \/ \E w \in QueueWorker : \/ WarmupPasses(w) \/ Poll(w)
                         \/ RequestShutdown(w) \/ WorkerCrash(w)

\* Handlers and poll loops are tokio tasks that keep running; Redis answers a
\* BRPOP for a list that is not empty, so a pop that can succeed does.  No
\* fairness for warm-up checks to pass, shutdowns, expiry or faults.
QueueFairness ==
    /\ \A j \in Job : WF_queueVars(Handler(j))
    /\ \A w \in QueueWorker : WF_queueVars(Poll(w)) /\ SF_queueVars(PopJob(w))

\* Warm-up checks pass in the end: the catalog and the engine do come up.
FairWarmup == \A w \in QueueWorker : WF_queueVars(WarmupPasses(w))

QueueSpec == QueueInit /\ [][QueueNext]_queueVars
QueueFairSpec == QueueSpec /\ QueueFairness /\ FairWarmup

-----------------------------------------------------------------------------
(* Properties. *)

JobsIn(s) == {s[i] : i \in DOMAIN s}
Held == {job[w] : w \in {v \in QueueWorker : stage[v] \in {"popped", "executing"}}}

\* Every job in a list was pushed and not popped, in the order of the pushes:
\* a warehouse's jobs start in the order they were accepted, whichever worker
\* takes them (LPUSH with BRPOP).
FirstInFirstOut == \A h \in Warehouse : pushed[h] = popped[h] \o queue[h]

\* A job runs at most once, and one that was popped is with a live worker, has
\* run, or is lost (a crash or a lost answer): never two of these, so neither
\* a slow worker nor a restart makes a query with side effects run twice.
RunAtMostOnce ==
    /\ \A j \in Job : runs[j] <= 1
    /\ \A j \in Job : runs[j] = 1 => j \notin lost \cup Held
    /\ \A h \in Warehouse : JobsIn(popped[h]) \subseteq
            Held \cup lost \cup {j \in Job : runs[j] = 1}

\* The jobs of a warehouse are popped in the order of their LPUSH, and each runs
\* at most once, with several workers, lost answers and restarts (push, pop).
InOrderAtMostOnce == FirstInFirstOut /\ RunAtMostOnce

\* What get_status reports was so: "done" or "failed" is what the executor
\* returned, and a job that is "running" has left its list.
StatusTruthful ==
    \A j \in Job :
        /\ status[j] \in Terminal => result[j] = status[j]
        /\ status[j] = "running" => j \notin JobsIn(queue[WarehouseOf[j]])

\* Several workers, connections, failed commands and restarts change nothing of
\* what a list of jobs promises: started in order and once at most, and nothing
\* but its own answer reported of a job (push, pop, set_status, the poll loop).
Log == INSTANCE JobLog WITH
    waiting  <- queue,
    running  <- Held,
    answer   <- result,
    gone     <- lost,
    reported <- [j \in Job |-> IF status[j] \in Terminal THEN status[j] ELSE "none"],
    Answer   <- Terminal
ImplementsJobLog == Log!JobLogSpec

\* A terminal status is final until it expires (JobStatus::is_terminal).
TerminalStays ==
    [][\A j \in Job : status[j] \in Terminal => status'[j] \in {status[j], "none"}]_queueVars

\* A job in a list is popped as long as one worker of its warehouse keeps
\* running: nobody waits for a command that can never be answered.  And a
\* worker asked to shut down stops, unless its process is restarted.
QueueProgress ==
    /\ \A j \in Job :
        (j \in JobsIn(queue[WarehouseOf[j]]))
            ~> (\/ j \notin JobsIn(queue[WarehouseOf[j]])
                \/ \A w \in QueueWorker :
                        WarehouseOf[j] \in JobsIn(WarehousesOf[w]) => shutdown[w])
    /\ \A w \in QueueWorker : shutdown[w] ~> (stage[w] = "stopped" \/ ~shutdown[w])
=============================================================================
