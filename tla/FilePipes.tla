------------------------------ MODULE FilePipes ------------------------------
(***************************************************************************)
(* Pipes (opensnow-ingest/pipe.rs) and their watchers (file_watcher.rs).   *)
(* CREATE PIPE puts a definition in one map, starts a task and puts its    *)
(* handle in another; DROP PIPE takes the handle out and then the          *)
(* definition.  Each map has a lock of its own.  A task copies every file  *)
(* its directory reports as created or modified into the one directory of  *)
(* the warehouse, while the producer may still be writing.                 *)
(***************************************************************************)
EXTENDS Naturals, FiniteSets, Sequences

CONSTANTS Pipes, Commands,
          PipeFiles,    \* files the producers write
          PlaceOf,      \* directory of each file
          FileName,     \* name of each file within its directory
          Watches,      \* directory of each pipe
          MaxTasks,     \* bound: watcher tasks ever started
          MaxCopyFaults,\* bound: copies that fail
          MaxPipeCalls  \* bound: statements

VARIABLES defined,   \* PipeManager::pipes
          handles,   \* PipeManager::handles: a task per name, or 0
          task,      \* the watcher tasks started so far
          command,   \* the statements being executed
          source,    \* how much of each file is written
          warehouse, \* the copies: destination -> what it holds
          owed,      \* history: tasks that watched when the file was finished and
                     \* have not copied it since
          unlanded,  \* history: files with a failed copy
          copyFaults, pipeCalls

pipeVars == <<defined, handles, task, command, source, warehouse, owed, unlanded,
              copyFaults, pipeCalls>>
fileVars == <<source, warehouse, owed, unlanded, copyFaults>>

Unwritten == 0  Partly == 1  Whole == 2
NoCommand == [op |-> "none"]
Tasks == DOMAIN task

PipesInit ==
    /\ defined = {} /\ handles = [p \in Pipes |-> 0]
    /\ task = <<>>
    /\ command = [c \in Commands |-> NoCommand]
    /\ source = [f \in PipeFiles |-> Unwritten]
    /\ warehouse = <<>>
    /\ owed = [f \in PipeFiles |-> {}] /\ unlanded = {}
    /\ copyFaults = 0 /\ pipeCalls = 0

-------------------------------------------------------------------------------
\* Statements.  An existing name is refused; AUTO_INGEST = false starts nothing.
CreatePipe(c, p, auto) ==
    /\ command[c] = NoCommand /\ pipeCalls < MaxPipeCalls
    /\ pipeCalls' = pipeCalls + 1
    /\ p \notin defined
    /\ defined' = defined \cup {p}
    /\ command' = IF auto THEN [command EXCEPT ![c] = [op |-> "start", pipe |-> p]]
                  ELSE command
    /\ UNCHANGED <<handles, task, fileVars>>

\* start_watcher spawns the task before it takes the lock of the handles.
SpawnWatcher(c) ==
    /\ command[c].op = "start" /\ Len(task) < MaxTasks
    /\ task' = Append(task, [pipe |-> command[c].pipe, on |-> "spawned",
                             inbox |-> <<>>, dest |-> <<>>])
    /\ command' = [command EXCEPT ![c] =
           [op |-> "keep", pipe |-> @.pipe, task |-> Len(task) + 1]]
    /\ UNCHANGED <<defined, handles, fileVars, pipeCalls>>

KeepHandle(c) ==
    /\ command[c].op = "keep"
    /\ handles' = [handles EXCEPT ![command[c].pipe] = command[c].task]
    /\ command' = [command EXCEPT ![c] = NoCommand]
    /\ UNCHANGED <<defined, task, fileVars, pipeCalls>>

\* stop_watcher: the handle goes, and its task is told to stop.
DropPipe(c, p) ==
    /\ command[c] = NoCommand /\ pipeCalls < MaxPipeCalls
    /\ pipeCalls' = pipeCalls + 1
    /\ handles' = [handles EXCEPT ![p] = 0]
    /\ task' = [t \in Tasks |->
           IF t = handles[p] THEN [task[t] EXCEPT !.on = "aborted"] ELSE task[t]]
    /\ command' = [command EXCEPT ![c] = [op |-> "forget", pipe |-> p]]
    /\ UNCHANGED <<defined, fileVars>>

\* A name that is not defined is an error; the handle is gone all the same.
ForgetPipe(c) ==
    /\ command[c].op = "forget"
    /\ defined' = defined \ {command[c].pipe}
    /\ command' = [command EXCEPT ![c] = NoCommand]
    /\ UNCHANGED <<handles, task, fileVars, pipeCalls>>

-------------------------------------------------------------------------------
\* The task of a pipe.
Begin(t) ==
    /\ task[t].on = "spawned"
    /\ task' = [task EXCEPT ![t].on = "watching"]
    /\ UNCHANGED <<defined, handles, command, fileVars, pipeCalls>>

Hears(t, f) == task[t].on = "watching" /\ Watches[task[t].pipe] = PlaceOf[f]

\* Mutant: only the creation of a file is an event (EventKind::Create alone).
Notify_CreateOnly(f) == task' = [t \in Tasks |->
    IF Hears(t, f) /\ source[f] = Unwritten
    THEN [task[t] EXCEPT !.inbox = Append(@, f)] ELSE task[t]]

Notify(f) == task' = [t \in Tasks |->
    IF Hears(t, f) THEN [task[t] EXCEPT !.inbox = Append(@, f)] ELSE task[t]]

\* A producer creates a file and, later, writes the rest of it: two events.
Produce(f) ==
    /\ source[f] # Whole
    /\ source' = [source EXCEPT ![f] = @ + 1]
    /\ Notify(f)
    /\ owed' = [owed EXCEPT ![f] =
           IF source'[f] = Whole THEN {t \in Tasks : Hears(t, f)} ELSE {}]
    /\ UNCHANGED <<defined, handles, command, warehouse, unlanded, copyFaults, pipeCalls>>

(* ingest_file keeps the name if the warehouse has no such file, and makes *)
(* one up otherwise.                                                       *)
ChooseName(t) ==
    /\ task[t].on = "watching" /\ task[t].inbox # <<>> /\ task[t].dest = <<>>
    /\ LET f == Head(task[t].inbox)
           stamped == <<FileName[f], Cardinality(DOMAIN warehouse)>>
           plain == <<FileName[f], 0>>
       IN  task' = [task EXCEPT ![t].dest =
               IF plain \in DOMAIN warehouse THEN stamped ELSE plain]
    /\ UNCHANGED <<defined, handles, command, fileVars, pipeCalls>>

Store(d, copy) == [e \in DOMAIN warehouse \cup {d} |->
                      IF e = d THEN copy ELSE warehouse[e]]

\* The copy finishes even when the task has been aborted; a failure is logged.
CopyFile(t) ==
    /\ task[t].dest # <<>>
    /\ LET f == Head(task[t].inbox)
       IN  \/ /\ warehouse' = Store(task[t].dest, [file |-> f, part |-> source[f]])
              /\ owed' = [owed EXCEPT ![f] = IF source[f] = Whole THEN @ \ {t} ELSE @]
              /\ UNCHANGED <<unlanded, copyFaults>>
           \/ /\ copyFaults < MaxCopyFaults /\ copyFaults' = copyFaults + 1
              /\ unlanded' = unlanded \cup {f}
              /\ UNCHANGED <<warehouse, owed>>
    /\ task' = [task EXCEPT ![t].dest = <<>>, ![t].inbox = Tail(@)]
    /\ UNCHANGED <<defined, handles, command, source, pipeCalls>>

WatcherStep(t) == t \in Tasks /\ (Begin(t) \/ ChooseName(t) \/ CopyFile(t))

PipesNext ==
    \/ \E c \in Commands :
        \/ \E p \in Pipes : DropPipe(c, p) \/ \E auto \in BOOLEAN : CreatePipe(c, p, auto)
        \/ SpawnWatcher(c) \/ KeepHandle(c) \/ ForgetPipe(c)
    \/ \E t \in 1..MaxTasks : WatcherStep(t)
    \/ \E f \in PipeFiles : Produce(f)

\* Every task that can run runs.
PipesFairness == \A t \in 1..MaxTasks : WF_pipeVars(WatcherStep(t))
PipesSpec == PipesInit /\ [][PipesNext]_pipeVars /\ PipesFairness

-------------------------------------------------------------------------------
Stopped(t) == t \in Tasks /\ task[t].on = "aborted"
Landed(f) == \E d \in DOMAIN warehouse : warehouse[d] = [file |-> f, part |-> Whole]

(* A watcher copies every file that is finished under it whole: the copy   *)
(* of a file still being written is followed by another (FileWatcher::run, *)
(* ingest_file), unless a copy fails or DROP PIPE stops the watcher.       *)
FileArrives ==
    \A f \in PipeFiles, t \in 1..MaxTasks :
        t \in owed[f] ~> t \notin owed[f] \/ f \in unlanded \/ Stopped(t)

(* The safety half of it, for any pipes, tasks and statements: a file that *)
(* was finished under a watcher is among the events it has still to handle *)
(* until the watcher has copied it whole, or failed to; and the debt ends  *)
(* only with such a copy (FileWatcher::run).                               *)
DebtsQueued ==
    \A f \in PipeFiles : \A t \in owed[f] :
        /\ source[f] = Whole /\ t \in Tasks
        /\ f \in unlanded \/ \E i \in DOMAIN task[t].inbox : task[t].inbox[i] = f
DebtEndsWhole ==
    \A f \in PipeFiles : owed[f] \subseteq owed'[f] \/ (source[f] = Whole /\ Landed(f)')
DebtsPaid == []DebtsQueued /\ [][DebtEndsWhole]_pipeVars

(* drop_pipe's comment: "DROP PIPE -- stop the watcher (if running) and    *)
(* remove the pipe": when no statement runs, a watcher has its pipe.  The  *)
(* code does not keep this, so no run checks it: a DROP PIPE between the   *)
(* definition and the handle of a CREATE PIPE leaves the watcher running.  *)
WatcherHasPipe ==
    (\A c \in Commands : command[c] = NoCommand) =>
        \A t \in Tasks : task[t].on = "watching" => task[t].pipe \in defined

(* ingest_file's comment: "Generate a unique name to avoid collisions": a  *)
(* whole copy is never written over.  The code does not keep this, so no   *)
(* run checks it: two watchers that both find no file of that name copy to *)
(* the same one.                                                           *)
CopiesStay == [][\A f \in PipeFiles : Landed(f) => Landed(f)']_pipeVars
===============================================================================
