--------------------------- MODULE JobQueue_proofs ---------------------------
(***************************************************************************)
(* Proofs about the job queue, for any jobs, warehouses and workers: its   *)
(* types, that a warehouse's jobs are popped in order and run at most      *)
(* once, that a reported status was so, and that it implements JobLog.     *)
(***************************************************************************)
EXTENDS JobQueue, SequenceTheorems, TLAPS

USE QueueAssumption

Distinct(s) == \A i, k \in DOMAIN s : s[i] = s[k] => i = k

(* A worker has a job between its pop and its last set_status.             *)
Busy == {"popped", "executing", "finishing"}
Holds(w, j) == stage[w] \in Busy /\ job[w] = j

(* A job that nobody has popped yet.                                       *)
Untouched(j) == runs[j] = 0 /\ j \notin lost /\ \A w \in QueueWorker : ~Holds(w, j)

(* Each list holds jobs of its own, once each, which are untouched; a job  *)
(* that was not pushed is in none.                                         *)
ListsSound ==
    /\ \A h \in Warehouse : Distinct(queue[h])
    /\ \A h \in Warehouse : \A j \in JobsIn(queue[h]) :
         WarehouseOf[j] = h /\ push[j] # "idle" /\ Untouched(j) /\ status[j] \in {"none", "queued"}
    /\ \A j \in Job : push[j] = "idle" => Untouched(j) /\ status[j] = "none"

(* A job has one holder at most, and has run when its holder reports it.   *)
HoldersSound ==
    /\ \A w \in QueueWorker : stage[w] \in Busy =>
         /\ job[w] \in Job \ lost
         /\ IF stage[w] = "finishing" THEN runs[job[w]] = 1 /\ result[job[w]] = outcome[w]
                                      ELSE runs[job[w]] = 0
    /\ \A w, v \in QueueWorker :
         stage[w] \in Busy /\ stage[v] \in Busy /\ job[w] = job[v] => w = v

(* A result is that of the one run.                                        *)
RunsSound ==
    /\ \A j \in Job : runs[j] \in {0, 1} /\ (runs[j] = 0 => result[j] = "none")
    /\ \A j \in lost : runs[j] = 0
    /\ \A j \in Job : status[j] \in Terminal => result[j] = status[j]

(* What was popped is held, lost, or has run.                              *)
PoppedSound ==
    \A h \in Warehouse : \A j \in JobsIn(popped[h]) :
        j \in lost \/ runs[j] = 1 \/ \E w \in QueueWorker : Holds(w, j)

QueueInv == QueueTypeOK /\ ListsSound /\ HoldersSound /\ RunsSound /\ PoppedSound
            /\ FirstInFirstOut

-------------------------------------------------------------------------------
\* Sequences of jobs.

\* A job put at the end of a list is in it, once if it was not there.
LEMMA AppendJobs ==
    ASSUME NEW s \in Seq(Job), NEW j \in Job
    PROVE  /\ Append(s, j) \in Seq(Job)
           /\ JobsIn(Append(s, j)) = JobsIn(s) \cup {j}
           /\ Distinct(s) /\ j \notin JobsIn(s) => Distinct(Append(s, j))
<1>1. Len(s) \in Nat /\ DOMAIN s = 1 .. Len(s)
  BY LenProperties
<1>2. /\ Append(s, j) \in Seq(Job) /\ Len(Append(s, j)) = Len(s) + 1
      /\ \A i \in 1 .. Len(s) : Append(s, j)[i] = s[i]
      /\ Append(s, j)[Len(s) + 1] = j
  BY AppendProperties
<1>3. DOMAIN Append(s, j) = 1 .. (Len(s) + 1)
  BY <1>2, LenProperties
<1>4. 1 .. (Len(s) + 1) = (1 .. Len(s)) \cup {Len(s) + 1}
  BY <1>1
<1>5. JobsIn(Append(s, j)) = JobsIn(s) \cup {j}
  BY <1>1, <1>2, <1>3, <1>4 DEF JobsIn
<1>6. ASSUME Distinct(s), j \notin JobsIn(s) PROVE Distinct(Append(s, j))
  BY <1>1, <1>2, <1>3, <1>4, <1>6 DEF JobsIn, Distinct
<1> QED
  BY <1>2, <1>5, <1>6

\* The head of a list is a job that its tail does not hold again.
LEMMA TailJobs ==
    ASSUME NEW s \in Seq(Job), s # <<>>
    PROVE  /\ Head(s) \in Job /\ Tail(s) \in Seq(Job)
           /\ JobsIn(s) = JobsIn(Tail(s)) \cup {Head(s)}
           /\ Distinct(s) => Distinct(Tail(s)) /\ Head(s) \notin JobsIn(Tail(s))
<1>1. Len(s) \in Nat \ {0} /\ DOMAIN s = 1 .. Len(s)
  BY LenProperties, EmptySeq
<1>2. /\ Head(s) \in Job /\ Tail(s) \in Seq(Job) /\ Len(Tail(s)) = Len(s) - 1
      /\ \A i \in 1 .. Len(Tail(s)) : Tail(s)[i] = s[i + 1]
  BY HeadTailProperties
<1>3. Head(s) = s[1]
  OBVIOUS
<1>4. DOMAIN Tail(s) = 1 .. (Len(s) - 1)
  BY <1>2, LenProperties
<1>5. \A i \in DOMAIN s : i = 1 \/ i - 1 \in DOMAIN Tail(s)
  BY <1>1, <1>4
<1>6. \A i \in DOMAIN Tail(s) : i + 1 \in DOMAIN s /\ i + 1 # 1 /\ Tail(s)[i] = s[i + 1]
  BY <1>1, <1>2, <1>4
<1>7. \A i \in DOMAIN s : i # 1 => i - 1 \in DOMAIN Tail(s) /\ Tail(s)[i - 1] = s[i]
  BY <1>1, <1>2, <1>4
<1>8. JobsIn(s) = JobsIn(Tail(s)) \cup {Head(s)}
  <2>1. JobsIn(Tail(s)) \subseteq JobsIn(s)
    BY <1>6 DEF JobsIn
  <2>2. Head(s) \in JobsIn(s)
    BY <1>1, <1>3 DEF JobsIn
  <2>3. JobsIn(s) \subseteq JobsIn(Tail(s)) \cup {Head(s)}
    <3>1. ASSUME NEW i \in DOMAIN s PROVE s[i] \in JobsIn(Tail(s)) \cup {Head(s)}
      BY <1>3, <1>7 DEF JobsIn
    <3> QED
      BY <3>1 DEF JobsIn
  <2> QED
    BY <2>1, <2>2, <2>3
<1>9. ASSUME Distinct(s) PROVE Distinct(Tail(s)) /\ Head(s) \notin JobsIn(Tail(s))
  <2>1. Head(s) \notin JobsIn(Tail(s))
    BY <1>1, <1>3, <1>6, <1>9 DEF JobsIn, Distinct
  <2>2. ASSUME NEW i \in DOMAIN Tail(s), NEW k \in DOMAIN Tail(s), Tail(s)[i] = Tail(s)[k]
        PROVE  i = k
    <3>1. i + 1 = k + 1
      BY <1>6, <1>9, <2>2 DEF Distinct
    <3> QED
      BY <1>4, <3>1
  <2> QED
    BY <2>1, <2>2 DEF Distinct
<1> QED
  BY <1>2, <1>8, <1>9

(* Popping the head and pushing at the end keep the order of acceptance.   *)
LEMMA OrderKept ==
    ASSUME NEW p \in Seq(Job), NEW q \in Seq(Job), NEW j \in Job
    PROVE  /\ Append(p \o q, j) = p \o Append(q, j)
           /\ q # <<>> => p \o q = Append(p, Head(q)) \o Tail(q)
<1>1. Append(p \o q, j) = p \o Append(q, j)
  <2>1. p \o q \in Seq(Job) /\ <<j>> \in Seq(Job)
    BY ConcatProperties
  <2>2. Append(p \o q, j) = (p \o q) \o <<j>> /\ Append(q, j) = q \o <<j>>
    BY <2>1, AppendIsConcat
  <2> QED
    BY <2>1, <2>2, ConcatAssociative, SMTT(60)
<1>2. ASSUME q # <<>> PROVE p \o q = Append(p, Head(q)) \o Tail(q)
  <2>1. Head(q) \in Job /\ Tail(q) \in Seq(Job) /\ <<Head(q)>> \in Seq(Job)
    BY <1>2, HeadTailProperties
  <2>2. Append(p, Head(q)) = p \o <<Head(q)>>
    BY <2>1, AppendIsConcat
  <2>3. q = <<Head(q)>> \o Tail(q)
    <3>1. <<Head(q)>> \o Tail(q) \in Seq(Job) /\ Len(<<Head(q)>> \o Tail(q)) = Len(q)
      BY <1>2, <2>1, ConcatProperties, HeadTailProperties, LenProperties
    <3>2. \A i \in 1 .. Len(q) : q[i] = (<<Head(q)>> \o Tail(q))[i]
      BY <1>2, <2>1, ConcatProperties, HeadTailProperties, LenProperties
    <3> QED
      BY <3>1, <3>2, SeqEqual
  <2>4. (p \o <<Head(q)>>) \o Tail(q) = p \o (<<Head(q)>> \o Tail(q))
    BY <2>1, ConcatAssociative
  <2> QED
    BY <2>2, <2>3, <2>4
<1> QED
  BY <1>1, <1>2


\* The lists of the warehouses hold jobs.
LEMMA InLists == ASSUME QueueTypeOK, NEW h \in Warehouse PROVE JobsIn(queue[h]) \subseteq Job
<1>1. queue[h] \in Seq(Job)
  BY DEF QueueTypeOK
<1> QED
  BY <1>1, LenProperties, ElementOfSeq DEF JobsIn

-------------------------------------------------------------------------------
\* Types.

\* Initially every variable has its type.
LEMMA TypeInit == ASSUME QueueInit PROVE QueueTypeOK
  BY DEF QueueInit, QueueTypeOK, Terminal

\* A failed command is counted.
LEMMA FaultType == ASSUME QueueTypeOK, CommandFails PROVE commandFaults' \in Nat
  BY DEF QueueTypeOK, CommandFails

(* set_status of a known status.                                           *)
LEMMA StatusType ==
    ASSUME QueueTypeOK, NEW j \in Job, NEW s \in {"queued", "running"} \cup Terminal,
           SetStatus(j, s)
    PROVE  /\ status' \in [Job -> {"none", "queued", "running"} \cup Terminal]
           /\ commandFaults' \in Nat
<1>1. \/ status' = [status EXCEPT ![j] = s]
      \/ status' = status
  BY DEF SetStatus
<1>2. commandFaults' = commandFaults \/ CommandFails
  BY DEF SetStatus
<1>3. commandFaults' \in Nat
  <2>1. commandFaults \in Nat
    BY DEF QueueTypeOK
  <2> QED
    BY <1>2, <2>1, FaultType
<1>4. status' \in [Job -> {"none", "queued", "running"} \cup Terminal]
  <2>1. status \in [Job -> {"none", "queued", "running"} \cup Terminal]
    BY DEF QueueTypeOK
  <2> QED
    BY <1>1, <2>1
<1> QED
  BY <1>3, <1>4

\* A handler's push keeps the types.
LEMMA HandlerType == ASSUME QueueTypeOK, NEW j \in Job, Handler(j) PROVE QueueTypeOK'
<1>1. CASE LPush(j)
  <2>1. WarehouseOf[j] \in Warehouse
    OBVIOUS
  <2>2. Enqueue(j) => /\ queue' \in [Warehouse -> Seq(Job)]
                      /\ pushed' \in [Warehouse -> Seq(Job)]
    BY <2>1, AppendProperties DEF Enqueue, QueueTypeOK
  <2>3. /\ queue' \in [Warehouse -> Seq(Job)] /\ pushed' \in [Warehouse -> Seq(Job)]
        /\ push' \in [Job -> {"idle", "pushed", "ok", "err"}] /\ commandFaults' \in Nat
    BY <1>1, <2>2, FaultType DEF LPush, QueueTypeOK
  <2> QED
    BY <1>1, <2>3 DEF LPush, QueueTypeOK, consumerVars, envVars
<1>2. CASE InitialStatus(j)
  <2>1. /\ status' \in [Job -> {"none", "queued", "running"} \cup Terminal]
        /\ commandFaults' \in Nat
    BY <1>2, StatusType DEF InitialStatus
  <2> QED
    BY <1>2, <2>1 DEF InitialStatus, QueueTypeOK, consumerVars, envVars, histVars
<1> QED
  BY <1>1, <1>2 DEF Handler

(* Whoever answers or reports has a job that is one.                       *)
LEMMA PollType ==
    ASSUME QueueTypeOK, NEW w \in QueueWorker, Poll(w),
           stage[w] \in Busy => job[w] \in Job
    PROVE  QueueTypeOK'
<1> USE DEF QueueTypeOK, redisVars, consumerVars, envVars, histVars
<1>1. CASE StartPolling(w)
  BY <1>1 DEF StartPolling
<1>2. CASE CheckShutdown(w)
  BY <1>2 DEF CheckShutdown
<1>3. ASSUME NEW h \in Warehouse, PopFrom(w, h) PROVE QueueTypeOK'
  <2>1. queue[h] \in Seq(Job) /\ queue[h] # <<>> /\ popped[h] \in Seq(Job)
    BY <1>3 DEF PopFrom, FirstNonEmpty
  <2>2. Head(queue[h]) \in Job /\ Tail(queue[h]) \in Seq(Job)
    BY <2>1, TailJobs
  <2>3. Append(popped[h], Head(queue[h])) \in Seq(Job)
    BY <2>1, <2>2, AppendProperties
  <2>4. queue' \in [Warehouse -> Seq(Job)] /\ popped' \in [Warehouse -> Seq(Job)]
    BY <1>3, <2>2, <2>3 DEF PopFrom, Dequeue
  <2>5. /\ job' \in [QueueWorker -> Job \cup {NoJob}] /\ lost' \subseteq Job
        /\ stage' \in [QueueWorker -> {"gating", "top", "waiting", "popped", "executing",
                                       "finishing", "stopped"}]
        /\ commandFaults' \in Nat
    BY <1>3, <2>2, FaultType DEF PopFrom
  <2> QED
    BY <1>3, <2>4, <2>5 DEF PopFrom
<1>4. CASE PopNothing(w)
  BY <1>4, FaultType DEF PopNothing
<1>5. CASE MarkRunning(w)
  <2>1. /\ status' \in [Job -> {"none", "queued", "running"} \cup Terminal]
        /\ commandFaults' \in Nat
    BY <1>5, StatusType DEF MarkRunning, Busy
  <2> QED
    BY <1>5, <2>1 DEF MarkRunning
<1>6. CASE Execute(w)
  BY <1>6 DEF Execute, Busy
<1>7. CASE MarkFinished(w)
  <2>1. /\ status' \in [Job -> {"none", "queued", "running"} \cup Terminal]
        /\ commandFaults' \in Nat
    BY <1>7, StatusType DEF MarkFinished, Busy
  <2> QED
    BY <1>7, <2>1 DEF MarkFinished
<1> QED
  BY <1>1, <1>2, <1>3, <1>4, <1>5, <1>6, <1>7 DEF Poll, PopJob

\* Every step keeps the types, when busy workers hold jobs.
LEMMA TypeStep ==
    ASSUME QueueTypeOK, [QueueNext]_queueVars,
           \A w \in QueueWorker : stage[w] \in Busy => job[w] \in Job
    PROVE  QueueTypeOK'
<1>1. CASE UNCHANGED queueVars
  BY <1>1 DEF queueVars, QueueTypeOK, redisVars, consumerVars, envVars, histVars
<1>2. ASSUME NEW j \in Job, StatusExpires(j) PROVE QueueTypeOK'
  BY <1>2 DEF StatusExpires, QueueTypeOK, consumerVars, histVars
<1>3. ASSUME NEW w \in QueueWorker, WarmupPasses(w) PROVE QueueTypeOK'
  BY <1>3 DEF WarmupPasses, QueueTypeOK, redisVars, consumerVars, envVars, histVars
<1>4. ASSUME NEW w \in QueueWorker, RequestShutdown(w) PROVE QueueTypeOK'
  BY <1>4 DEF RequestShutdown, QueueTypeOK, redisVars, consumerVars, histVars
<1>5. ASSUME NEW w \in QueueWorker, WorkerCrash(w) PROVE QueueTypeOK'
  BY <1>5, SMTT(30) DEF WorkerCrash, MoreTrouble, QueueTypeOK, redisVars, Busy
<1> QED
  BY <1>1, <1>2, <1>3, <1>4, <1>5, HandlerType, PollType DEF QueueNext

-------------------------------------------------------------------------------
\* The invariant.

(* QueueInv without the types and the order.                               *)
Sound == ListsSound /\ HoldersSound /\ RunsSound /\ PoppedSound

\* Initially the lists are empty, and so in order.
LEMMA SoundInit == ASSUME QueueInit PROVE Sound /\ FirstInFirstOut
<1>1. \A h \in Warehouse : JobsIn(queue[h]) = {} /\ JobsIn(popped[h]) = {}
  BY DEF QueueInit, JobsIn
<1>2. <<>> \o <<>> = <<>>
  OBVIOUS
<1> QED
  BY <1>1, <1>2 DEF QueueInit, Sound, ListsSound, HoldersSound, RunsSound, PoppedSound,
     FirstInFirstOut, Untouched, Holds, Distinct, Busy, Terminal

(* Nobody's job changes but by being set free after its run, and a status  *)
(* only becomes what its place in the queue or its holder allows.          *)
Holder(w) ==
    \/ stage'[w] \notin Busy /\ (stage[w] \in Busy => stage[w] = "finishing")
    \/ stage'[w] = stage[w] /\ job'[w] = job[w] /\ outcome'[w] = outcome[w]
    \/ stage[w] = "popped" /\ stage'[w] = "executing" /\ job'[w] = job[w]
Reported(j) ==
    \/ status'[j] = status[j]
    \/ status'[j] = "none"
    \/ status'[j] = "queued" /\ push[j] # "idle"
    \/ \E w \in QueueWorker : Holds(w, j) /\ (status'[j] = "running" \/ status'[j] = result[j])

\* A step that moves no job keeps the order and the runs.
LEMMA CalmStep ==
    ASSUME QueueTypeOK, Sound,
           UNCHANGED <<queue, popped, runs, result, lost>>,
           \A w \in QueueWorker : Holder(w),
           \A j \in Job : Reported(j) /\ (push'[j] = "idle" => push[j] = "idle")
    PROVE  Sound'
<1>1. \A w \in QueueWorker, j \in Job : Holds(w, j)' => Holds(w, j)
  BY DEF Holder, Holds, Busy
<1>2. \A j \in Job : Untouched(j) => Untouched(j)'
  BY <1>1 DEF Untouched
<1>3. ListsSound'
  <2>1. ASSUME NEW j \in Job, Untouched(j)
        PROVE  \/ status'[j] \in {status[j], "none"}
               \/ status'[j] = "queued" /\ push[j] # "idle"
    BY <2>1 DEF Reported, Untouched
  <2>2. \A h \in Warehouse : Distinct(queue'[h])
    BY DEF Sound, ListsSound
  <2>3. ASSUME NEW h \in Warehouse, NEW j \in JobsIn(queue'[h])
        PROVE  /\ WarehouseOf[j] = h /\ push'[j] # "idle" /\ Untouched(j)'
               /\ status'[j] \in {"none", "queued"}
    <3>1. j \in Job /\ j \in JobsIn(queue[h])
      BY <2>3, InLists
    <3> QED
      BY <1>2, <2>1, <3>1 DEF Sound, ListsSound
  <2>4. \A j \in Job : push'[j] = "idle" => Untouched(j)' /\ status'[j] = "none"
    BY <1>2, <2>1 DEF Sound, ListsSound
  <2> QED
    BY <2>2, <2>3, <2>4 DEF ListsSound
<1>4. HoldersSound'
  <2>1. ASSUME NEW w \in QueueWorker, stage'[w] \in Busy
        PROVE  /\ job'[w] = job[w] /\ stage[w] \in Busy
               /\ stage[w] = "finishing" <=> stage'[w] = "finishing"
               /\ stage'[w] = "finishing" => outcome'[w] = outcome[w]
    BY <2>1 DEF Holder, Busy
  <2> QED
    BY <2>1 DEF Sound, HoldersSound
<1>5. RunsSound'
  <2>1. ASSUME NEW j \in Job, status'[j] \in Terminal PROVE result'[j] = status'[j]
    <3>1. status'[j] \notin {"none", "queued", "running"}
      BY <2>1 DEF Terminal
    <3> QED
      BY <2>1, <3>1 DEF Sound, RunsSound, Reported
  <2> QED
    BY <2>1 DEF Sound, RunsSound
<1>6. PoppedSound'
  <2>1. ASSUME NEW h \in Warehouse, NEW j \in JobsIn(popped[h]), NEW w \in QueueWorker,
               Holds(w, j)
        PROVE  runs[j] = 1 \/ Holds(w, j)'
    BY <2>1 DEF Holder, Holds, Busy, Sound, HoldersSound
  <2> QED
    BY <2>1 DEF Sound, PoppedSound
<1> QED
  BY <1>3, <1>4, <1>5, <1>6 DEF Sound
(* A command that is about the job of a worker at its last set_status, or  *)
(* about one that is being pushed.                                         *)
LEMMA SetStatusReports ==
    ASSUME QueueTypeOK, NEW j \in Job, NEW s, SetStatus(j, s),
           \/ s = "queued" /\ push[j] # "idle"
           \/ \E w \in QueueWorker : Holds(w, j) /\ (s = "running" \/ s = result[j])
    PROVE  \A i \in Job : Reported(i)
<1>1. \A i \in Job : status'[i] = status[i] \/ (i = j /\ status'[i] = s)
  BY DEF SetStatus, QueueTypeOK
<1> QED
  BY <1>1 DEF Reported

(* Pushing puts an untouched job at the end of its list.                   *)
LEMMA PushStep ==
    ASSUME QueueTypeOK, Sound, FirstInFirstOut, NEW j \in Job, LPush(j)
    PROVE  Sound' /\ FirstInFirstOut'
<1> DEFINE h == WarehouseOf[j]
<1>1. /\ push[j] = "idle" /\ push'[j] # "idle"
      /\ \A i \in Job : push'[i] = "idle" => push[i] = "idle"
      /\ UNCHANGED <<status, stage, job, outcome, popped, runs, result, lost>>
      /\ Enqueue(j) \/ UNCHANGED <<queue, pushed>>
  BY DEF LPush, QueueTypeOK, consumerVars
<1>2. h \in Warehouse
  OBVIOUS
<1>3. \A i : Untouched(i)' <=> Untouched(i)
  BY <1>1 DEF Untouched, Holds
<1>4. Untouched(j) /\ status[j] = "none" /\ \A g \in Warehouse : j \notin JobsIn(queue[g])
  BY <1>1 DEF Sound, ListsSound
<1>5. CASE UNCHANGED <<queue, pushed>>
  <2>1. \A w \in QueueWorker : Holder(w)
    BY <1>1 DEF Holder, Busy
  <2>2. \A i \in Job : Reported(i)
    BY <1>1 DEF Reported
  <2> QED
    BY <1>1, <1>5, <2>1, <2>2, CalmStep DEF FirstInFirstOut
<1>6. CASE Enqueue(j)
  <2>1. queue[h] \in Seq(Job) /\ popped[h] \in Seq(Job)
    BY <1>2 DEF QueueTypeOK
  <2>2. /\ queue'[h] = Append(queue[h], j) /\ pushed'[h] = Append(pushed[h], j)
        /\ \A g \in Warehouse : g # h => queue'[g] = queue[g] /\ pushed'[g] = pushed[g]
    BY <1>2, <1>6 DEF Enqueue, QueueTypeOK
  <2>3. /\ JobsIn(queue'[h]) = JobsIn(queue[h]) \cup {j}
        /\ Distinct(queue[h]) => Distinct(queue'[h])
    BY <1>2, <1>4, <2>1, <2>2, AppendJobs
  <2>4. ListsSound'
    <3>1. \A g \in Warehouse : Distinct(queue'[g])
      BY <1>2, <2>2, <2>3 DEF Sound, ListsSound
    <3>2. ASSUME NEW g \in Warehouse, NEW i \in JobsIn(queue'[g])
          PROVE  /\ WarehouseOf[i] = g /\ push'[i] # "idle" /\ Untouched(i)'
                 /\ status'[i] \in {"none", "queued"}
      <4>1. CASE g = h /\ i = j
        BY <1>1, <1>3, <1>4, <4>1
      <4>2. CASE i \in JobsIn(queue[g])
        <5>1. i \in Job
          BY <4>2, InLists
        <5> QED
          BY <1>1, <1>3, <4>2, <5>1 DEF Sound, ListsSound
      <4> QED
        BY <2>2, <2>3, <3>2, <4>1, <4>2
    <3>3. \A i \in Job : push'[i] = "idle" => Untouched(i)' /\ status'[i] = "none"
      BY <1>1, <1>3 DEF Sound, ListsSound
    <3> QED
      BY <3>1, <3>2, <3>3 DEF ListsSound
  <2>5. HoldersSound' /\ RunsSound' /\ PoppedSound'
    BY <1>1 DEF Sound, HoldersSound, RunsSound, PoppedSound, Holds
  <2>6. FirstInFirstOut'
    <3>1. Append(popped[h] \o queue[h], j) = popped[h] \o Append(queue[h], j)
      BY <2>1, OrderKept
    <3> QED
      BY <1>1, <1>2, <2>2, <3>1 DEF FirstInFirstOut
  <2> QED
    BY <2>4, <2>5, <2>6 DEF Sound
<1> QED
  BY <1>1, <1>5, <1>6
(* Popping takes the first job of a list: an untouched one, which is in no *)
(* other list, and now held or lost.                                       *)
LEMMA PopStep ==
    ASSUME QueueTypeOK, Sound, FirstInFirstOut, NEW w \in QueueWorker, NEW h \in Warehouse,
           PopFrom(w, h), NEW j, j = Head(queue[h])
    PROVE  Sound' /\ FirstInFirstOut'
<1>1. queue[h] \in Seq(Job) /\ queue[h] # <<>> /\ popped[h] \in Seq(Job)
  BY DEF PopFrom, FirstNonEmpty, QueueTypeOK
<1>2. /\ j \in Job /\ Tail(queue[h]) \in Seq(Job)
      /\ JobsIn(queue[h]) = JobsIn(Tail(queue[h])) \cup {j}
      /\ Distinct(queue[h]) => Distinct(Tail(queue[h])) /\ j \notin JobsIn(Tail(queue[h]))
  BY <1>1, TailJobs
<1>3. /\ UNCHANGED <<status, push, outcome, pushed, runs, result>>
      /\ queue'[h] = Tail(queue[h]) /\ popped'[h] = Append(popped[h], j)
      /\ \A g \in Warehouse : g # h => queue'[g] = queue[g] /\ popped'[g] = popped[g]
      /\ stage[w] = "waiting"
      /\ \A v \in QueueWorker : v # w => stage'[v] = stage[v] /\ job'[v] = job[v]
  BY DEF PopFrom, Dequeue, QueueTypeOK
<1>4. \/ stage'[w] = "popped" /\ job'[w] = j /\ lost' = lost
      \/ stage'[w] = "top" /\ lost' = lost \cup {j}
  BY DEF PopFrom, QueueTypeOK
<1>5. JobsIn(popped'[h]) = JobsIn(popped[h]) \cup {j}
  BY <1>1, <1>2, <1>3, AppendJobs
<1>6. Untouched(j) /\ WarehouseOf[j] = h /\ push[j] # "idle"
  BY <1>2 DEF Sound, ListsSound
<1>7. \A g \in Warehouse : JobsIn(queue'[g]) \subseteq JobsIn(queue[g]) \ {j}
  <2>1. Distinct(queue[h])
    BY DEF Sound, ListsSound
  <2>2. \A g \in Warehouse : j \in JobsIn(queue[g]) => WarehouseOf[j] = g
    BY DEF Sound, ListsSound
  <2>3. JobsIn(queue'[h]) \subseteq JobsIn(queue[h]) \ {j}
    BY <1>2, <1>3, <2>1
  <2>4. ASSUME NEW g \in Warehouse, g # h PROVE JobsIn(queue'[g]) \subseteq JobsIn(queue[g]) \ {j}
    BY <1>3, <1>6, <2>2, <2>4
  <2> QED
    BY <2>3, <2>4
<1>8. \A v \in QueueWorker, i \in Job \ {j} : Holds(v, i)' <=> Holds(v, i)
  BY <1>3, <1>4 DEF Holds, Busy
<1>9. \A i \in Job \ {j} : Untouched(i) => Untouched(i)'
  BY <1>3, <1>4, <1>8 DEF Untouched
<1>10. ListsSound'
  <2>1. \A g \in Warehouse : Distinct(queue'[g])
    BY <1>2, <1>3 DEF Sound, ListsSound
  <2>2. ASSUME NEW g \in Warehouse, NEW i \in JobsIn(queue'[g])
        PROVE  /\ WarehouseOf[i] = g /\ push'[i] # "idle" /\ Untouched(i)'
               /\ status'[i] \in {"none", "queued"}
    <3>1. i \in JobsIn(queue[g]) /\ i \in Job \ {j}
      BY <1>7, <2>2, InLists
    <3> QED
      BY <1>3, <1>9, <3>1 DEF Sound, ListsSound
  <2>3. \A i \in Job : push'[i] = "idle" => Untouched(i)' /\ status'[i] = "none"
    BY <1>3, <1>6, <1>9 DEF Sound, ListsSound
  <2> QED
    BY <2>1, <2>2, <2>3 DEF ListsSound
<1>11. HoldersSound'
  <2>1. \A v \in QueueWorker : stage[v] \in Busy => job[v] # j /\ v # w
    BY <1>3, <1>6 DEF Untouched, Holds, Busy
  <2>2. runs[j] = 0 /\ j \notin lost
    BY <1>6 DEF Untouched
  <2>3. ASSUME NEW v \in QueueWorker, stage'[v] \in Busy
        PROVE  /\ job'[v] \in Job \ lost'
               /\ IF stage'[v] = "finishing"
                  THEN runs'[job'[v]] = 1 /\ result'[job'[v]] = outcome'[v]
                  ELSE runs'[job'[v]] = 0
    <3>1. CASE v = w
      BY <1>2, <1>4, <2>2, <2>3, <3>1, <1>3 DEF Busy
    <3>2. CASE v # w
      BY <1>3, <1>4, <2>1, <2>3, <3>2 DEF Sound, HoldersSound
    <3> QED
      BY <3>1, <3>2
  <2>4. ASSUME NEW u \in QueueWorker, NEW v \in QueueWorker,
               stage'[u] \in Busy, stage'[v] \in Busy, job'[u] = job'[v]
        PROVE  u = v
    <3>1. ASSUME NEW x \in QueueWorker, stage'[x] \in Busy
          PROVE  IF x = w THEN job'[x] = j ELSE stage[x] \in Busy /\ job'[x] = job[x]
      BY <1>3, <1>4, <3>1 DEF Busy
    <3>2. CASE u # w /\ v # w
      BY <2>4, <3>1, <3>2 DEF Sound, HoldersSound
    <3>3. CASE u = w \/ v = w
      BY <2>1, <2>4, <3>1, <3>3
    <3> QED
      BY <3>2, <3>3
  <2> QED
    BY <2>3, <2>4 DEF HoldersSound
<1>12. RunsSound'
  BY <1>3, <1>4, <1>6 DEF Sound, RunsSound, Untouched
<1>13. PoppedSound'
  <2>1. j \in lost' \/ Holds(w, j)'
    BY <1>4 DEF Holds, Busy
  <2>2. \A v \in QueueWorker : \A i : Holds(v, i) => Holds(v, i)'
    BY <1>3 DEF Holds, Busy
  <2> QED
    BY <1>3, <1>4, <1>5, <2>1, <2>2 DEF Sound, PoppedSound
<1>14. FirstInFirstOut'
  <2>1. popped[h] \o queue[h] = Append(popped[h], j) \o Tail(queue[h])
    BY <1>1, <1>2, OrderKept
  <2> QED
    BY <1>3, <2>1 DEF FirstInFirstOut
<1> QED
  BY <1>10, <1>11, <1>12, <1>13, <1>14 DEF Sound

(* A job runs in the hands of its one holder, once.                        *)
LEMMA ExecuteStep ==
    ASSUME QueueTypeOK, Sound, NEW w \in QueueWorker, Execute(w)
    PROVE  Sound'
<1>1. PICK r \in Terminal : /\ outcome' = [outcome EXCEPT ![w] = r]
                            /\ result' = [result EXCEPT ![job[w]] = r]
  BY DEF Execute
<1>2. /\ stage[w] = "executing" /\ stage' = [stage EXCEPT ![w] = "finishing"]
      /\ runs' = [runs EXCEPT ![job[w]] = @ + 1]
      /\ UNCHANGED <<queue, status, push, job, popped, lost>>
  BY DEF Execute, redisVars
<1>3. job[w] \in Job \ lost /\ runs[job[w]] = 0
  BY <1>2 DEF Sound, HoldersSound, Busy
<1>4. \A v \in QueueWorker : v # w /\ stage[v] \in Busy => job[v] # job[w]
  BY <1>2 DEF Sound, HoldersSound, Busy
<1>5. /\ stage'[w] = "finishing" /\ outcome'[w] = r
      /\ \A v \in QueueWorker : v # w => stage'[v] = stage[v] /\ outcome'[v] = outcome[v]
      /\ runs'[job[w]] = 1 /\ result'[job[w]] = r
      /\ \A i \in Job : i # job[w] => runs'[i] = runs[i] /\ result'[i] = result[i]
  BY <1>1, <1>2, <1>3 DEF QueueTypeOK
<1>6. \A v \in QueueWorker : \A i : Holds(v, i)' <=> Holds(v, i)
  BY <1>2, <1>5 DEF Holds, Busy
<1>7. \A i \in Job : Untouched(i) => i # job[w] /\ Untouched(i)'
  BY <1>2, <1>5, <1>6 DEF Untouched, Holds, Busy
<1>8. ListsSound'
  <2>1. ASSUME NEW g \in Warehouse, NEW i \in JobsIn(queue'[g])
        PROVE  /\ WarehouseOf[i] = g /\ push'[i] # "idle" /\ Untouched(i)'
               /\ status'[i] \in {"none", "queued"}
    <3>1. i \in JobsIn(queue[g]) /\ i \in Job
      BY <1>2, <2>1, InLists
    <3> QED
      BY <1>2, <1>7, <3>1 DEF Sound, ListsSound
  <2> QED
    BY <1>2, <1>7, <2>1 DEF Sound, ListsSound
<1>9. HoldersSound'
  <2>1. ASSUME NEW v \in QueueWorker, stage'[v] \in Busy
        PROVE  /\ job'[v] \in Job \ lost'
               /\ IF stage'[v] = "finishing"
                  THEN runs'[job'[v]] = 1 /\ result'[job'[v]] = outcome'[v]
                  ELSE runs'[job'[v]] = 0
    <3>1. CASE v = w
      BY <1>2, <1>3, <1>5, <3>1
    <3>2. CASE v # w
      <4>1. stage[v] \in Busy /\ job[v] # job[w] /\ job[v] \in Job \ lost
        BY <1>4, <1>5, <2>1, <3>2 DEF Sound, HoldersSound
      <4> QED
        BY <1>2, <1>5, <2>1, <3>2, <4>1, SMTT(30) DEF Sound, HoldersSound
    <3> QED
      BY <3>1, <3>2
  <2>2. \A u, v \in QueueWorker :
            stage'[u] \in Busy /\ stage'[v] \in Busy /\ job'[u] = job'[v] => u = v
    BY <1>2, <1>5 DEF Sound, HoldersSound, Busy
  <2> QED
    BY <2>1, <2>2 DEF HoldersSound
<1>10. RunsSound'
  <2>1. status[job[w]] \notin Terminal
    BY <1>3 DEF Sound, RunsSound, Terminal
  <2> QED
    BY <1>2, <1>3, <1>5, <2>1 DEF Sound, RunsSound
<1>11. PoppedSound'
  <2>1. ASSUME NEW h \in Warehouse, NEW i \in JobsIn(popped[h]), runs[i] = 1, i # job[w]
        PROVE  runs'[i] = 1
    BY <1>2, <2>1 DEF QueueTypeOK
  <2> QED
    BY <1>2, <1>3, <1>5, <1>6, <2>1 DEF Sound, PoppedSound
<1> QED
  BY <1>8, <1>9, <1>10, <1>11 DEF Sound

(* A worker that dies loses its job, unless that has run.                  *)
LEMMA CrashStep ==
    ASSUME QueueTypeOK, Sound, NEW w \in QueueWorker, WorkerCrash(w)
    PROVE  Sound'
<1>1. /\ UNCHANGED <<queue, status, push, outcome, popped, runs, result>>
      /\ stage'[w] = "gating"
      /\ \A v \in QueueWorker : v # w => stage'[v] = stage[v] /\ job'[v] = job[v]
      /\ IF stage[w] \in {"popped", "executing"} THEN lost' = lost \cup {job[w]}
                                                 ELSE lost' = lost
  BY DEF WorkerCrash, QueueTypeOK, redisVars
<1>2. \A v \in QueueWorker : v # w /\ stage[v] \in Busy /\ stage[w] \in Busy
                                => job[v] # job[w]
  BY DEF Sound, HoldersSound
<1>3. stage[w] \in {"popped", "executing"} => job[w] \in Job /\ runs[job[w]] = 0
  BY DEF Sound, HoldersSound, Busy
<1>4. \A v \in QueueWorker : \A i : Holds(v, i)' => Holds(v, i) /\ v # w
  BY <1>1 DEF Holds, Busy
<1>5. \A i \in Job : Untouched(i) => Untouched(i)'
  BY <1>1, <1>4 DEF Untouched, Holds, Busy
<1>6. ListsSound'
  <2>1. ASSUME NEW g \in Warehouse, NEW i \in JobsIn(queue'[g])
        PROVE  /\ WarehouseOf[i] = g /\ push'[i] # "idle" /\ Untouched(i)'
               /\ status'[i] \in {"none", "queued"}
    <3>1. i \in JobsIn(queue[g]) /\ i \in Job
      BY <1>1, <2>1, InLists
    <3> QED
      BY <1>1, <1>5, <3>1 DEF Sound, ListsSound
  <2> QED
    BY <1>1, <1>5, <2>1 DEF Sound, ListsSound
<1>7. HoldersSound'
  <2>1. ASSUME NEW v \in QueueWorker, stage'[v] \in Busy
        PROVE  v # w /\ stage[v] \in Busy /\ job'[v] = job[v] /\ job[v] \notin lost'
    <3>1. v # w
      BY <1>1, <2>1 DEF Busy
    <3>2. job[v] \notin lost
      BY <1>1, <2>1, <3>1 DEF Sound, HoldersSound
    <3> QED
      BY <1>1, <1>2, <2>1, <3>1, <3>2 DEF Busy
  <2> QED
    BY <1>1, <2>1 DEF Sound, HoldersSound
<1>8. RunsSound'
  BY <1>1, <1>3 DEF Sound, RunsSound
<1>9. PoppedSound'
  <2>1. ASSUME NEW v \in QueueWorker, NEW i, Holds(v, i)
        PROVE  i \in lost' \/ runs[i] = 1 \/ Holds(v, i)'
    BY <1>1, <2>1 DEF Holds, Busy, Sound, HoldersSound
  <2> QED
    BY <1>1, <2>1 DEF Sound, PoppedSound
<1> QED
  BY <1>6, <1>7, <1>8, <1>9 DEF Sound
(* The steps that neither move a job nor run one.                          *)
LEMMA CalmSteps ==
    ASSUME QueueTypeOK, Sound,
           \/ \E j \in Job : InitialStatus(j) \/ StatusExpires(j)
           \/ \E w \in QueueWorker :
                \/ WarmupPasses(w) \/ RequestShutdown(w) \/ StartPolling(w)
                \/ CheckShutdown(w) \/ PopNothing(w) \/ MarkRunning(w) \/ MarkFinished(w)
    PROVE  Sound'
<1>1. ASSUME UNCHANGED <<status, push>> PROVE \A j \in Job : Reported(j) /\ push'[j] = push[j]
  BY <1>1 DEF Reported
<1>2. ASSUME UNCHANGED consumerVars PROVE \A w \in QueueWorker : Holder(w)
  BY <1>2 DEF Holder, consumerVars
<1>3. ASSUME NEW j \in Job, InitialStatus(j) PROVE Sound'
  <2>1. push[j] # "idle" /\ \A i \in Job : push'[i] = "idle" => push[i] = "idle"
    BY <1>3 DEF InitialStatus, QueueTypeOK
  <2>2. \A i \in Job : Reported(i)
    BY <1>3, <2>1, SetStatusReports DEF InitialStatus
  <2> QED
    BY <1>2, <1>3, <2>1, <2>2, CalmStep DEF InitialStatus, histVars
<1>4. ASSUME NEW j \in Job, StatusExpires(j) PROVE Sound'
  <2>1. \A i \in Job : Reported(i)
    BY <1>4 DEF StatusExpires, Reported, QueueTypeOK
  <2> QED
    BY <1>2, <1>4, <2>1, CalmStep DEF StatusExpires, histVars
<1>5. ASSUME NEW w \in QueueWorker, WarmupPasses(w) \/ RequestShutdown(w) PROVE Sound'
  BY <1>1, <1>2, <1>5, CalmStep DEF WarmupPasses, RequestShutdown, redisVars, histVars
<1>6. ASSUME NEW w \in QueueWorker, StartPolling(w) \/ CheckShutdown(w) \/ PopNothing(w)
      PROVE  Sound'
  <2>1. \A v \in QueueWorker : Holder(v)
    BY <1>6 DEF StartPolling, CheckShutdown, PopNothing, Holder, Busy, QueueTypeOK
  <2> QED
    BY <1>1, <1>6, <2>1, CalmStep DEF StartPolling, CheckShutdown, PopNothing, redisVars, histVars
<1>7. ASSUME NEW w \in QueueWorker, MarkRunning(w) PROVE Sound'
  <2>1. stage[w] = "popped" /\ job[w] \in Job /\ Holds(w, job[w])
    BY <1>7 DEF MarkRunning, Sound, HoldersSound, Holds, Busy
  <2>2. \A j \in Job : Reported(j)
    BY <1>7, <2>1, SetStatusReports DEF MarkRunning
  <2>3. \A v \in QueueWorker : Holder(v)
    BY <1>7 DEF MarkRunning, Holder, QueueTypeOK
  <2> QED
    BY <1>7, <2>2, <2>3, CalmStep DEF MarkRunning, histVars
<1>8. ASSUME NEW w \in QueueWorker, MarkFinished(w) PROVE Sound'
  <2>1. /\ stage[w] = "finishing" /\ job[w] \in Job /\ Holds(w, job[w])
        /\ result[job[w]] = outcome[w]
    BY <1>8 DEF MarkFinished, Sound, HoldersSound, Holds, Busy
  <2>2. \A j \in Job : Reported(j)
    BY <1>8, <2>1, SetStatusReports DEF MarkFinished
  <2>3. \A v \in QueueWorker : Holder(v)
    BY <1>8 DEF MarkFinished, Holder, Busy, QueueTypeOK
  <2> QED
    BY <1>8, <2>2, <2>3, CalmStep DEF MarkFinished, histVars
<1> QED
  BY <1>3, <1>4, <1>5, <1>6, <1>7, <1>8

\* Initially the whole invariant holds.
LEMMA InvInit == ASSUME QueueInit PROVE QueueInv
  BY TypeInit, SoundInit DEF QueueInv, Sound

\* Every step keeps the whole invariant.
LEMMA InvStep == ASSUME QueueInv, [QueueNext]_queueVars PROVE QueueInv'
<1>1. QueueTypeOK /\ Sound /\ FirstInFirstOut
  BY DEF QueueInv, Sound
<1>2. QueueTypeOK'
  BY <1>1, TypeStep DEF Sound, HoldersSound
<1>3. CASE UNCHANGED queueVars
  <2>1. \A w \in QueueWorker : Holder(w)
    BY <1>3 DEF queueVars, consumerVars, Holder
  <2>2. \A j \in Job : Reported(j) /\ push'[j] = push[j]
    BY <1>3 DEF queueVars, redisVars, Reported
  <2>3. Sound'
    BY <1>1, <1>3, <2>1, <2>2, CalmStep DEF queueVars, redisVars, histVars
  <2>4. FirstInFirstOut'
    BY <1>1, <1>3 DEF queueVars, redisVars, histVars, FirstInFirstOut
  <2> QED
    BY <1>2, <2>3, <2>4 DEF QueueInv, Sound
<1>4. ASSUME NEW j \in Job, LPush(j) PROVE QueueInv'
  BY <1>1, <1>2, <1>4, PushStep DEF QueueInv, Sound
<1>5. ASSUME NEW w \in QueueWorker, NEW h \in Warehouse, PopFrom(w, h) PROVE QueueInv'
  BY <1>1, <1>2, <1>5, PopStep DEF QueueInv, Sound
<1>6. ASSUME NEW w \in QueueWorker, Execute(w) \/ WorkerCrash(w) PROVE QueueInv'
  <2>1. Sound'
    BY <1>1, <1>6, ExecuteStep, CrashStep
  <2>2. FirstInFirstOut'
    BY <1>1, <1>6 DEF Execute, WorkerCrash, redisVars, FirstInFirstOut
  <2> QED
    BY <1>2, <2>1, <2>2 DEF QueueInv, Sound
<1>7. ASSUME \/ \E j \in Job : InitialStatus(j) \/ StatusExpires(j)
             \/ \E w \in QueueWorker :
                  \/ WarmupPasses(w) \/ RequestShutdown(w) \/ StartPolling(w)
                  \/ CheckShutdown(w) \/ PopNothing(w) \/ MarkRunning(w) \/ MarkFinished(w)
      PROVE  QueueInv'
  <2>1. Sound'
    BY <1>1, <1>7, CalmSteps
  <2>2. UNCHANGED <<queue, pushed, popped>>
    BY <1>7 DEF InitialStatus, StatusExpires, WarmupPasses, RequestShutdown, StartPolling,
       CheckShutdown, PopNothing, MarkRunning, MarkFinished, redisVars, histVars
  <2>3. FirstInFirstOut'
    BY <1>1, <2>2 DEF FirstInFirstOut
  <2> QED
    BY <1>2, <2>1, <2>3 DEF QueueInv, Sound
<1> QED
  BY <1>3, <1>4, <1>5, <1>6, <1>7 DEF QueueNext, Handler, Poll, PopJob

\* The invariant holds in every reachable state.
LEMMA Invariant == QueueSpec => []QueueInv
  BY InvInit, InvStep, PTL DEF QueueSpec

(* Every reachable state of queues, workers and statuses is well typed     *)
(* (QueryJob, JobStatus, the poll loop of spawn_warm_worker).              *)
THEOREM TypeCorrect == QueueSpec => []QueueTypeOK
<1>1. QueueInv => QueueTypeOK
  BY DEF QueueInv
<1> QED
  BY <1>1, Invariant, PTL

-------------------------------------------------------------------------------
\* Order, runs and reports.

\* The invariant says that a job runs at most once.
LEMMA AtMostOnce == ASSUME QueueInv PROVE RunAtMostOnce
<1>1. Held = {job[w] : w \in {v \in QueueWorker : stage[v] \in {"popped", "executing"}}}
  BY DEF Held
<1>2. \A j \in Job : runs[j] <= 1
  BY DEF QueueInv, RunsSound
<1>3. \A j \in Job : runs[j] = 1 => j \notin lost \cup Held
  <2>1. \A j \in Held : runs[j] = 0
    BY <1>1 DEF QueueInv, HoldersSound, Busy
  <2> QED
    BY <2>1 DEF QueueInv, RunsSound
<1>4. ASSUME NEW h \in Warehouse, NEW j \in JobsIn(popped[h])
      PROVE  j \in Held \cup lost \cup {i \in Job : runs[i] = 1}
  <2>1. j \in Job
    <3>1. popped[h] \in Seq(Job)
      BY DEF QueueInv, QueueTypeOK
    <3> QED
      BY <1>4, <3>1, LenProperties, ElementOfSeq DEF JobsIn
  <2>2. ASSUME NEW w \in QueueWorker, Holds(w, j) PROVE j \in Held \/ runs[j] = 1
    BY <1>1, <2>1, <2>2 DEF Holds, Busy, QueueInv, HoldersSound
  <2> QED
    BY <1>4, <2>1, <2>2 DEF QueueInv, PoppedSound
<1> QED
  BY <1>2, <1>3, <1>4 DEF RunAtMostOnce

(* With any number of handlers, workers, lost answers and crashes, the     *)
(* jobs of a warehouse are popped in the order of their LPUSH and a job    *)
(* runs at most once (JobQueue::push, pop and the poll loop).              *)
THEOREM OrderAndRuns == QueueSpec => []InOrderAtMostOnce
<1>1. QueueInv => InOrderAtMostOnce
  BY AtMostOnce DEF QueueInv, InOrderAtMostOnce
<1> QED
  BY <1>1, Invariant, PTL

(* A status that says done or failed is what the executor returned, and a  *)
(* job whose status says running has left its list (set_status).           *)
THEOREM ReportsAreTrue == QueueSpec => []StatusTruthful
<1>1. QueueInv => StatusTruthful
  BY DEF QueueInv, RunsSound, ListsSound, StatusTruthful
<1> QED
  BY <1>1, Invariant, PTL

-------------------------------------------------------------------------------
\* The queue implements the log of jobs, step by step.

(* What a job says of its answer, as the log has it.                       *)
Told(j) == IF status[j] \in Terminal THEN status[j] ELSE "none"
AllTold == [j \in Job |-> Told(j)]

(* An empty queue is an empty log.                                         *)
LEMMA LogInit == ASSUME QueueInit PROVE Log!JobLogInit
<1>1. Held = {} /\ \A j \in Job : Told(j) = "none"
  BY DEF QueueInit, Held, Told, Terminal
<1>2. AllTold = [j \in Job |-> "none"]
  BY <1>1 DEF AllTold
<1> QED
  BY <1>1, <1>2 DEF QueueInit, Log!JobLogInit, AllTold, Told

(* Those who hold a job that has not run, one by one.                      *)
LEMMA HeldIs ==
    \A j : j \in Held <=> \E w \in QueueWorker : stage[w] \in {"popped", "executing"} /\ job[w] = j
  BY DEF Held

(* A job nobody has popped is new to the log.                              *)
LEMMA UntouchedIsNew ==
    ASSUME QueueInv, NEW j \in Job, Untouched(j)
    PROVE  j \notin Held \cup lost /\ result[j] = "none"
<1>1. j \notin Held
  BY HeldIs DEF Untouched, Holds, Busy
<1> QED
  BY <1>1 DEF Untouched, QueueInv, RunsSound

(* Pushing a job is accepting it, or nothing when the command was lost.    *)
LEMMA PushLogs ==
    ASSUME QueueInv, NEW j \in Job, LPush(j)
    PROVE  Log!Accept(j) \/ UNCHANGED Log!jobLogVars
<1>1. /\ push[j] = "idle" /\ UNCHANGED <<status, stage, job, result, lost>>
      /\ Enqueue(j) \/ UNCHANGED queue
  BY DEF LPush, consumerVars
<1>2. UNCHANGED <<Held, AllTold>>
  BY <1>1 DEF Held, AllTold, Told
<1>3. Untouched(j) /\ ~Log!Waiting(j)
  BY <1>1 DEF QueueInv, ListsSound, Log!Waiting, JobsIn
<1>4. CASE Enqueue(j)
  BY <1>1, <1>2, <1>3, <1>4, UntouchedIsNew DEF Enqueue, Log!Accept, AllTold, Told
<1>5. CASE UNCHANGED queue
  BY <1>1, <1>2, <1>5 DEF Log!jobLogVars, AllTold, Told
<1> QED
  BY <1>1, <1>4, <1>5

(* Popping a job takes it from its list, for a worker or for nobody.       *)
LEMMA PopLogs ==
    ASSUME QueueInv, NEW w \in QueueWorker, NEW h \in Warehouse, PopFrom(w, h)
    PROVE  Log!Take(h)
<1> DEFINE j == Head(queue[h])
<1>1. /\ stage[w] = "waiting" /\ queue[h] # <<>>
      /\ queue' = [queue EXCEPT ![h] = Tail(queue[h])]
      /\ UNCHANGED <<status, result>>
  BY DEF PopFrom, FirstNonEmpty, Dequeue
<1>2. UNCHANGED AllTold
  BY <1>1 DEF AllTold, Told
<1>3. \A v \in QueueWorker : v # w => stage'[v] = stage[v] /\ job'[v] = job[v]
  BY DEF PopFrom, QueueInv, QueueTypeOK
<1>4. \/ stage'[w] = "popped" /\ job'[w] = j /\ lost' = lost
      \/ stage'[w] = "top" /\ lost' = lost \cup {j}
  BY DEF PopFrom, QueueInv, QueueTypeOK
<1>5. \A v \in QueueWorker : v # w =>
          (stage'[v] \in {"popped", "executing"} <=> stage[v] \in {"popped", "executing"})
  BY <1>3
<1>6. CASE stage'[w] = "popped" /\ job'[w] = j /\ lost' = lost
  <2>1. Held' = Held \cup {j}
    BY <1>1, <1>3, <1>5, <1>6 DEF Held
  <2> QED
    BY <1>1, <1>2, <1>6, <2>1 DEF Log!Take, AllTold, Told
<1>7. CASE stage'[w] = "top" /\ lost' = lost \cup {j}
  <2>1. Held' = Held
    BY <1>1, <1>3, <1>5, <1>7 DEF Held
  <2> QED
    BY <1>1, <1>2, <1>7, <2>1 DEF Log!Take, AllTold, Told
<1> QED
  BY <1>4, <1>6, <1>7

(* A holder that leaves its job takes it from what is held, nothing else.  *)
LEMMA HolderLeaves ==
    ASSUME QueueInv, NEW w \in QueueWorker, stage[w] \in {"popped", "executing"},
           stage'[w] \notin {"popped", "executing"},
           \A v \in QueueWorker : v # w => stage'[v] = stage[v] /\ job'[v] = job[v]
    PROVE  job[w] \in Job /\ job[w] \in Held /\ Held' = Held \ {job[w]}
<1>1. job[w] \in Job /\ job[w] \in Held
  BY DEF Held, QueueInv, HoldersSound, Busy
<1>2. \A v \in QueueWorker : v # w /\ stage[v] \in {"popped", "executing"} => job[v] # job[w]
  BY DEF QueueInv, HoldersSound, Busy
<1>3. ASSUME NEW i, i \in Held' PROVE i \in Held \ {job[w]}
  BY <1>2, <1>3 DEF Held
<1>4. ASSUME NEW i, i \in Held \ {job[w]} PROVE i \in Held'
  BY <1>4 DEF Held
<1> QED
  BY <1>1, <1>3, <1>4

(* The executor returns: the job has its answer.                           *)
LEMMA ExecuteLogs ==
    ASSUME QueueInv, NEW w \in QueueWorker, Execute(w)
    PROVE  Log!End(job[w])
<1>1. /\ stage[w] = "executing" /\ stage'[w] = "finishing"
      /\ \A v \in QueueWorker : v # w => stage'[v] = stage[v] /\ job'[v] = job[v]
      /\ UNCHANGED <<queue, status, lost>>
      /\ \E r \in Terminal : result' = [result EXCEPT ![job[w]] = r]
  BY DEF Execute, redisVars, QueueInv, QueueTypeOK
<1>2. job[w] \in Held /\ Held' = Held \ {job[w]}
  BY <1>1, HolderLeaves
<1>3. UNCHANGED AllTold
  BY <1>1 DEF AllTold, Told
<1> QED
  BY <1>1, <1>2, <1>3 DEF Log!End, AllTold, Told

(* A crash abandons a job that has not run, and touches no other.          *)
LEMMA CrashLogs ==
    ASSUME QueueInv, NEW w \in QueueWorker, WorkerCrash(w)
    PROVE  (Log!Abandon(job[w]) /\ job[w] \in Job) \/ UNCHANGED Log!jobLogVars
<1>1. /\ stage'[w] = "gating"
      /\ \A v \in QueueWorker : v # w => stage'[v] = stage[v] /\ job'[v] = job[v]
      /\ UNCHANGED <<queue, status, result>>
      /\ IF stage[w] \in {"popped", "executing"} THEN lost' = lost \cup {job[w]}
                                                 ELSE lost' = lost
  BY DEF WorkerCrash, redisVars, QueueInv, QueueTypeOK
<1>2. UNCHANGED AllTold
  BY <1>1 DEF AllTold, Told
<1>3. CASE stage[w] \in {"popped", "executing"}
  <2>1. job[w] \in Job /\ job[w] \in Held /\ Held' = Held \ {job[w]}
    BY <1>1, <1>3, HolderLeaves
  <2> QED
    BY <1>1, <1>2, <1>3, <2>1 DEF Log!Abandon, AllTold, Told
<1>4. CASE stage[w] \notin {"popped", "executing"}
  <2>1. Held' = Held
    BY <1>1, <1>4 DEF Held
  <2> QED
    BY <1>1, <1>2, <1>4, <2>1 DEF Log!jobLogVars, AllTold, Told
<1> QED
  BY <1>3, <1>4

(* Whoever sets or loses a status reports the answer, or nothing.          *)
LEMMA StatusLogs ==
    ASSUME QueueInv, NEW j \in Job, UNCHANGED <<queue, Held, result, lost>>,
           \A i \in Job : i # j => status'[i] = status[i],
           status'[j] \in {status[j], "none", "queued", "running", result[j]}
    PROVE  Log!Report(j) \/ UNCHANGED Log!jobLogVars
<1>1. Told(j)' \in {Told(j), "none", result[j]}
  BY DEF Told, Terminal
<1>2. AllTold' = [AllTold EXCEPT ![j] = Told(j)']
  BY DEF AllTold, Told
<1>3. CASE Told(j)' = Told(j)
  <2>1. AllTold' = AllTold
    BY <1>2, <1>3 DEF AllTold
  <2> QED
    BY <2>1 DEF Log!jobLogVars, AllTold, Told
<1>4. CASE Told(j)' \in {"none", result[j]}
  BY <1>2, <1>4 DEF Log!Report, AllTold, Told
<1> QED
  BY <1>1, <1>3, <1>4

(* The commands that set a status, and its expiry.                         *)
LEMMA StatusSteps ==
    ASSUME QueueInv,
           \/ \E j \in Job : InitialStatus(j) \/ StatusExpires(j)
           \/ \E w \in QueueWorker : MarkRunning(w) \/ MarkFinished(w)
    PROVE  [Log!JobLogNext]_Log!jobLogVars
<1>1. ASSUME NEW j \in Job, NEW s, SetStatus(j, s)
      PROVE  /\ \A i \in Job : i # j => status'[i] = status[i]
             /\ status'[j] \in {status[j], s}
  BY <1>1 DEF SetStatus, QueueInv, QueueTypeOK
<1>2. ASSUME NEW j \in Job, InitialStatus(j) PROVE [Log!JobLogNext]_Log!jobLogVars
  <2>1. UNCHANGED <<queue, Held, result, lost>> /\ SetStatus(j, "queued")
    BY <1>2 DEF InitialStatus, consumerVars, histVars, Held
  <2> QED
    BY <1>1, <2>1, StatusLogs DEF Log!JobLogNext
<1>3. ASSUME NEW j \in Job, StatusExpires(j) PROVE [Log!JobLogNext]_Log!jobLogVars
  <2>1. UNCHANGED <<queue, Held, result, lost>>
    BY <1>3 DEF StatusExpires, consumerVars, histVars, Held
  <2>2. status'[j] = "none" /\ \A i \in Job : i # j => status'[i] = status[i]
    BY <1>3 DEF StatusExpires, QueueInv, QueueTypeOK
  <2> QED
    BY <2>1, <2>2, StatusLogs DEF Log!JobLogNext
<1>4. ASSUME NEW w \in QueueWorker, MarkRunning(w) PROVE [Log!JobLogNext]_Log!jobLogVars
  <2>1. job[w] \in Job /\ SetStatus(job[w], "running") /\ UNCHANGED <<queue, result, lost>>
    BY <1>4 DEF MarkRunning, QueueInv, HoldersSound, Busy, histVars
  <2>2. /\ job' = job
        /\ \A v \in QueueWorker : stage'[v] \in {"popped", "executing"}
                                    <=> stage[v] \in {"popped", "executing"}
    BY <1>4 DEF MarkRunning, QueueInv, QueueTypeOK
  <2>3. Held' = Held
    BY <2>2 DEF Held
  <2> QED
    BY <1>1, <2>1, <2>3, StatusLogs DEF Log!JobLogNext
<1>5. ASSUME NEW w \in QueueWorker, MarkFinished(w) PROVE [Log!JobLogNext]_Log!jobLogVars
  <2>1. /\ job[w] \in Job /\ SetStatus(job[w], result[job[w]])
        /\ UNCHANGED <<queue, result, lost>>
    BY <1>5 DEF MarkFinished, QueueInv, HoldersSound, Busy, histVars
  <2>2. /\ stage[w] = "finishing" /\ stage'[w] = "top"
        /\ \A v \in QueueWorker : v # w => stage'[v] = stage[v] /\ job'[v] = job[v]
    BY <1>5 DEF MarkFinished, QueueInv, QueueTypeOK
  <2>3. Held' = Held
    BY <2>2 DEF Held
  <2> QED
    BY <1>1, <2>1, <2>3, StatusLogs DEF Log!JobLogNext
<1> QED
  BY <1>2, <1>3, <1>4, <1>5

(* What the log does not see: warm-up, shutdown, and polls without a job.  *)
LEMMA QuietSteps ==
    ASSUME QueueInv,
           \/ UNCHANGED queueVars
           \/ \E w \in QueueWorker :
                \/ WarmupPasses(w) \/ RequestShutdown(w) \/ StartPolling(w)
                \/ CheckShutdown(w) \/ PopNothing(w)
    PROVE  UNCHANGED Log!jobLogVars
<1>1. UNCHANGED <<queue, status, job, result, lost>>
  BY DEF queueVars, WarmupPasses, RequestShutdown, StartPolling, CheckShutdown, PopNothing,
     redisVars, consumerVars, histVars
<1>2. \A v \in QueueWorker : stage'[v] \in {"popped", "executing"}
                               <=> stage[v] \in {"popped", "executing"}
  BY DEF queueVars, WarmupPasses, RequestShutdown, StartPolling, CheckShutdown, PopNothing,
     consumerVars, QueueInv, QueueTypeOK
<1>3. Held' = Held
  BY <1>1, <1>2 DEF Held
<1> QED
  BY <1>1, <1>3 DEF Log!jobLogVars

(* Every step of the queue is one of the log, or none.                     *)
LEMMA LogStep ==
    ASSUME QueueInv, [QueueNext]_queueVars
    PROVE  [Log!JobLogNext]_Log!jobLogVars
<1>1. ASSUME NEW j \in Job, LPush(j) PROVE [Log!JobLogNext]_Log!jobLogVars
  BY <1>1, PushLogs DEF Log!JobLogNext
<1>2. ASSUME NEW w \in QueueWorker, NEW h \in Warehouse, PopFrom(w, h)
      PROVE  [Log!JobLogNext]_Log!jobLogVars
  BY <1>2, PopLogs DEF Log!JobLogNext
<1>3. ASSUME NEW w \in QueueWorker, Execute(w) PROVE [Log!JobLogNext]_Log!jobLogVars
  <2>1. job[w] \in Job
    BY <1>3 DEF Execute, QueueInv, HoldersSound, Busy
  <2> QED
    BY <1>3, <2>1, ExecuteLogs DEF Log!JobLogNext
<1>4. ASSUME NEW w \in QueueWorker, WorkerCrash(w) PROVE [Log!JobLogNext]_Log!jobLogVars
  BY <1>4, CrashLogs DEF Log!JobLogNext
<1> QED
  BY <1>1, <1>2, <1>3, <1>4, StatusSteps, QuietSteps DEF QueueNext, Handler, Poll, PopJob

(* With any number of handlers, workers, lost commands, crashes and expired*)
(* statuses, the queue is a log of jobs that are started in order and once *)
(* at most and of which nothing but their own answer is reported (push,    *)
(* pop, set_status and the poll loop).                                     *)
THEOREM QueueIsLog == QueueSpec => ImplementsJobLog
<1>1. QueueInit => Log!JobLogInit
  BY LogInit
<1>2. QueueInv /\ [QueueNext]_queueVars => [Log!JobLogNext]_Log!jobLogVars
  BY LogStep
<1> QED
  BY <1>1, <1>2, Invariant, PTL DEF QueueSpec, ImplementsJobLog, Log!JobLogSpec
=============================================================================
