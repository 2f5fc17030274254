-------------------------------- MODULE JobLog --------------------------------
(***************************************************************************)
(* What the job queue promises whoever pushes a job, without commands,     *)
(* connections and workers.  The jobs of a warehouse are started one after *)
(* the other in the order they were accepted; each is started once at      *)
(* most, and then ends with one answer or is gone; what is reported of a   *)
(* job is its answer, or nothing.  JobQueue implements this.               *)
(***************************************************************************)
EXTENDS Sequences

CONSTANTS Job, Warehouse,
          WarehouseOf,  \* the warehouse of each job
          Answer        \* how a job can end

VARIABLES
    waiting,    \* per warehouse the jobs accepted and not started, in order
    running,    \* jobs that were started and have not ended
    answer,     \* how a job ended, "none" before
    gone,       \* jobs accepted that will never run, or not to their end
    reported    \* what a client is told of the answer, "none" if nothing

jobLogVars == <<waiting, running, answer, gone, reported>>

JobLogInit ==
    /\ waiting = [h \in Warehouse |-> <<>>]
    /\ running = {} /\ gone = {}
    /\ answer = [j \in Job |-> "none"] /\ reported = answer

Waiting(j) == \E h \in Warehouse : \E i \in DOMAIN waiting[h] : waiting[h][i] = j

Accept(j) ==
    /\ ~Waiting(j) /\ j \notin running \cup gone /\ answer[j] = "none"
    /\ waiting' = [waiting EXCEPT ![WarehouseOf[j]] = Append(@, j)]
    /\ UNCHANGED <<running, answer, gone, reported>>

\* The first job of a warehouse is started, or is lost on its way to a worker.
Take(h) ==
    /\ waiting[h] # <<>>
    /\ waiting' = [waiting EXCEPT ![h] = Tail(@)]
    /\ \/ running' = running \cup {Head(waiting[h])} /\ UNCHANGED gone
       \/ gone' = gone \cup {Head(waiting[h])} /\ UNCHANGED running
    /\ UNCHANGED <<answer, reported>>

End(j) ==
    /\ j \in running /\ running' = running \ {j}
    /\ \E a \in Answer : answer' = [answer EXCEPT ![j] = a]
    /\ UNCHANGED <<waiting, gone, reported>>

Abandon(j) ==
    /\ j \in running /\ running' = running \ {j}
    /\ gone' = gone \cup {j}
    /\ UNCHANGED <<waiting, answer, reported>>

Report(j) ==
    /\ \E a \in {"none", answer[j]} : reported' = [reported EXCEPT ![j] = a]
    /\ UNCHANGED <<waiting, running, answer, gone>>

JobLogNext ==
    \/ \E j \in Job : Accept(j) \/ End(j) \/ Abandon(j) \/ Report(j)
    \/ \E h \in Warehouse : Take(h)

JobLogSpec == JobLogInit /\ [][JobLogNext]_jobLogVars
=============================================================================
