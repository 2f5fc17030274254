------------------------------ MODULE ServerStart ------------------------------
(***************************************************************************)
(* How `opensnow start` comes up: the configuration from a file and the    *)
(* environment (config.rs), the engine (engine.rs),                        *)
(* the catalog and its migration (opensnow-catalog), and the listeners of  *)
(* OpenSnowServer::run (server.rs).  Several processes may start at once   *)
(* on one catalog and on one machine's ports.                              *)
(***************************************************************************)
EXTENDS Naturals, Sequences

CONSTANTS Procs,       \* processes
          Flags,       \* command line of each: role, config, http, pg, pgwire
          FileSets,    \* what the candidate configuration files may hold
          Envs,        \* environments the processes may be started in
          Columns,     \* the columns ensure_column backfills, in its order
          Foreign,     \* ports that other programs hold
          MaxStarts    \* bound: starts of each process

VARIABLES files,    \* candidate configuration files, in order of preference
          env,      \* environment variables
          tables,   \* TRUE when the catalog has its tables
          schema,   \* backfilled columns they have
          version,  \* TRUE when catalog_migrations names the current version
          holder,   \* which process holds a port
          node      \* what each process is doing

startVars == <<files, env, tables, schema, version, holder, node>>

Nobody == "nobody"
AllColumns == {Columns[i] : i \in DOMAIN Columns}
Ports == {Flags[p].http : p \in Procs} \cup {Flags[p].pg : p \in Procs}

(* What a configuration, an environment and a command line may say.        *)
Config == [host : {"loopback", "named", "public"}, pgwire : BOOLEAN,
           tls : {"off", "no paths", "bad files", "good"}, mode : {"test", "enterprise"},
           provider : BOOLEAN, inline : BOOLEAN, root : {"dir", "file"}]
Environment == [host : {"unset", "empty", "loopback", "named", "public"},
                keys : {"unset", "empty", "set"}, jwt : BOOLEAN, allow : BOOLEAN]

ASSUME StartAssumption ==
    /\ Columns \in Seq(AllColumns) /\ Columns # <<>>
    /\ Envs \subseteq Environment
    /\ \A fs \in FileSets :
         /\ DOMAIN fs \subseteq Nat
         /\ \A i \in DOMAIN fs : fs[i].kind = "config" => fs[i].config \in Config
         /\ \A p \in Procs : Flags[p].config \in DOMAIN fs \cup {0}

DefaultConfig == [host |-> "loopback", pgwire |-> FALSE, tls |-> "off", mode |-> "test",
                  provider |-> FALSE, inline |-> FALSE, root |-> "dir"]

Down(starts) == [stage |-> "down", starts |-> starts, config |-> DefaultConfig, engines |-> 0,
                 column |-> 1, seen |-> FALSE, http |-> "none", pg |-> "none"]

StartInit ==
    /\ files \in FileSets /\ env \in Envs
    /\ \E n \in 0..Len(Columns) : /\ schema = {Columns[i] : i \in 1..n}
                                  /\ version = (n = Len(Columns))
                                  /\ tables \in {TRUE, n > 0}
    /\ holder = [port \in Ports |-> IF port \in Foreign THEN "foreign" ELSE Nobody]
    /\ node = [p \in Procs |-> Down(0)]

Step(p, record) == node' = [node EXCEPT ![p] = record]

(* The process is gone, and the ports it held are free again.              *)
Exit(p) == /\ Step(p, Down(node[p].starts))
           /\ holder' = [port \in Ports |-> IF holder[port] = p THEN Nobody ELSE holder[port]]

-------------------------------------------------------------------------------
\* Configuration.

(* apply_env_overrides: an empty variable clears a storage setting, but    *)
(* leaves the host alone.                                                  *)
ApplyEnv(c) ==
    [c EXCEPT !.host = IF env.host \in {"unset", "empty"} THEN @ ELSE env.host,
              !.inline = IF env.keys = "unset" THEN @ ELSE env.keys = "set"]

(* validate_runtime_deployment.                                            *)
Deployable(c) == c.mode = "test" \/ (c.provider /\ ~c.inline)

Readable(i) == files[i].kind = "config"

(* load takes the first candidate that parses; without one it takes the    *)
(* defaults, which neither the environment nor the validation touches.     *)
LoadDefault ==
    LET parsed == {i \in DOMAIN files : Readable(i)}
        first == CHOOSE i \in parsed : \A j \in parsed : i <= j
    IN IF parsed = {} THEN [ok |-> TRUE, config |-> DefaultConfig]
       ELSE LET c == ApplyEnv(files[first].config) IN [ok |-> Deployable(c), config |-> c]

(* load_from: the file named on the command line, or nothing.              *)
LoadFrom(i) ==
    IF ~Readable(i) THEN [ok |-> FALSE, config |-> DefaultConfig]
    ELSE LET c == ApplyEnv(files[i].config) IN [ok |-> Deployable(c), config |-> c]

(* TlsConfig::resolved.                                                    *)
TlsResolves(c) == c.tls # "no paths"

(* main up to the first create_engine: every role makes two.               *)
LoadConfig(p) ==
    LET loaded == IF Flags[p].config = 0 THEN LoadDefault ELSE LoadFrom(Flags[p].config)
    IN /\ node[p].stage = "down" /\ node[p].starts < MaxStarts
       /\ Step(p, IF loaded.ok /\ TlsResolves(loaded.config)
                  THEN [Down(node[p].starts + 1) EXCEPT !.stage = "engine",
                           !.config = loaded.config, !.engines = 2]
                  ELSE Down(node[p].starts + 1))
       /\ UNCHANGED <<files, env, tables, schema, version, holder>>

-------------------------------------------------------------------------------
\* Engine and catalog.

(* OpenSnowEngine::build: an object store that does not register is only   *)
(* warned about, a warehouse path that is a file ends the process.         *)
BuildEngine(p) ==
    /\ node[p].stage = "engine"
    /\ IF node[p].config.root = "file" THEN Exit(p)
       ELSE Step(p, [node[p] EXCEPT !.stage = "open", !.column = 1]) /\ UNCHANGED holder
    /\ UNCHANGED <<files, env, tables, schema, version>>

(* migrate makes the tables IF NOT EXISTS, new ones with all columns.      *)
OpenCatalog(p) ==
    /\ node[p].stage = "open"
    /\ tables' = TRUE
    /\ schema' = IF tables THEN schema ELSE AllColumns
    /\ Step(p, [node[p] EXCEPT !.stage = "look"])
    /\ UNCHANGED <<files, env, version, holder>>

(* ensure_column reads the columns a table has, and then alters it.        *)
LookForColumn(p) ==
    /\ node[p].stage = "look"
    /\ Step(p, [node[p] EXCEPT !.stage = "alter", !.seen = Columns[node[p].column] \in schema])
    /\ UNCHANGED <<files, env, tables, schema, version, holder>>

(* A column that another process added meanwhile fails the statement, and  *)
(* with it the start.                                                      *)
AddColumn(p) ==
    LET r == node[p]
        name == Columns[r.column]
        done == [r EXCEPT !.column = @ + 1,
                          !.stage = IF r.column = Len(Columns) THEN "version" ELSE "look"]
    IN /\ r.stage = "alter"
       /\ IF r.seen THEN Step(p, done) /\ UNCHANGED <<schema, holder>>
          ELSE IF name \in schema THEN Exit(p) /\ UNCHANGED schema
          ELSE Step(p, done) /\ schema' = schema \cup {name} /\ UNCHANGED holder
       /\ UNCHANGED <<files, env, tables, version>>

(* The end of migrate; the second engine goes through it all again.  A     *)
(* worker then registers with its coordinator (WorkerPool) and opens no    *)
(* listener here.                                                          *)
RecordVersion(p) ==
    LET r == node[p]
        next == IF r.engines > 1 THEN "engine"
                ELSE IF Flags[p].role = "worker" THEN "worker" ELSE "run"
    IN /\ r.stage = "version"
       /\ version' = TRUE
       /\ Step(p, [r EXCEPT !.stage = next, !.engines = @ - 1])
       /\ UNCHANGED <<files, env, tables, schema, holder>>

-------------------------------------------------------------------------------
\* OpenSnowServer::run.

(* resolve_bind_host: is_loopback_host takes names as well as addresses.   *)
MayBind(c) == c.host \in {"loopback", "named"} \/ env.jwt \/ env.allow

(* run up to the first spawned listener.                                   *)
SpawnHttp(p) ==
    /\ node[p].stage = "run"
    /\ IF MayBind(node[p].config)
       THEN Step(p, [node[p] EXCEPT !.stage = "spawned", !.http = "starting"])
            /\ UNCHANGED holder
       ELSE Exit(p)
    /\ UNCHANGED <<files, env, tables, schema, version>>

Pgwire(p) == Flags[p].pgwire \/ node[p].config.pgwire

(* build_pg_tls_acceptor comes before the task, so that its failure ends   *)
(* the start; the HTTP task may be serving already.                        *)
SpawnPg(p) ==
    /\ node[p].stage = "spawned"
    /\ IF Pgwire(p) /\ node[p].config.tls = "bad files" THEN Exit(p)
       ELSE /\ Step(p, [node[p] EXCEPT !.stage = "join",
                                       !.pg = IF Pgwire(p) THEN "starting" ELSE "none"])
            /\ UNCHANGED holder
    /\ UNCHANGED <<files, env, tables, schema, version>>

Bound(c) == IF c.tls = "off" THEN "plain" ELSE "tls"

\* Mutant: a certificate that does not load leaves the listener in plaintext.
BindHttp_Plain(p) ==
    LET c == node[p].config
        port == Flags[p].http
    IN /\ node[p].http = "starting"
       /\ IF c.host = "named" \/ holder[port] # Nobody
          THEN Step(p, [node[p] EXCEPT !.http = "dead"]) /\ UNCHANGED holder
          ELSE /\ Step(p, [node[p] EXCEPT !.http = IF c.tls = "good" THEN "tls" ELSE "plain"])
               /\ holder' = [holder EXCEPT ![port] = p]
       /\ UNCHANGED <<files, env, tables, schema, version>>

(* The HTTP task panics on a host that is not an address, on a certificate *)
(* it cannot load and on a port that is taken.                             *)
BindHttp(p) ==
    LET c == node[p].config
        port == Flags[p].http
    IN /\ node[p].http = "starting"
       /\ IF c.host = "named" \/ c.tls = "bad files" \/ holder[port] # Nobody
          THEN Step(p, [node[p] EXCEPT !.http = "dead"]) /\ UNCHANGED holder
          ELSE /\ Step(p, [node[p] EXCEPT !.http = Bound(c)])
               /\ holder' = [holder EXCEPT ![port] = p]
       /\ UNCHANGED <<files, env, tables, schema, version>>

(* The pgwire task resolves names; it too panics when the port is taken.   *)
BindPg(p) ==
    LET port == Flags[p].pg IN
    /\ node[p].pg = "starting"
    /\ IF holder[port] # Nobody
       THEN Step(p, [node[p] EXCEPT !.pg = "dead"]) /\ UNCHANGED holder
       ELSE /\ Step(p, [node[p] EXCEPT !.pg = Bound(node[p].config)])
            /\ holder' = [holder EXCEPT ![port] = p]
    /\ UNCHANGED <<files, env, tables, schema, version>>

\* Mutant: only the HTTP task is waited for.
Join_Http(p) ==
    /\ node[p].stage = "join" /\ node[p].http = "dead"
    /\ Exit(p) /\ UNCHANGED <<files, env, tables, schema, version>>

(* select! over both tasks: the first that ends takes the process with it. *)
Join(p) ==
    /\ node[p].stage = "join" /\ "dead" \in {node[p].http, node[p].pg}
    /\ Exit(p) /\ UNCHANGED <<files, env, tables, schema, version>>

(* There is no handler for signals.                                        *)
Kill(p) ==
    /\ node[p].stage # "down"
    /\ Exit(p) /\ UNCHANGED <<files, env, tables, schema, version>>

StartStep(p) ==
    \/ BuildEngine(p) \/ OpenCatalog(p) \/ LookForColumn(p) \/ AddColumn(p) \/ RecordVersion(p)
    \/ SpawnHttp(p) \/ SpawnPg(p) \/ BindHttp(p) \/ BindPg(p) \/ Join(p)

StartNext == \E p \in Procs : LoadConfig(p) \/ StartStep(p) \/ Kill(p)

(* A thread that can go on does; nobody has to start a process.            *)
StartFairness == \A p \in Procs : WF_startVars(StartStep(p))
StartSpec == StartInit /\ [][StartNext]_startVars /\ StartFairness

-------------------------------------------------------------------------------
Serves(p) == {"plain", "tls"} \cap {node[p].http, node[p].pg} # {}

(* Whatever file, environment, flags and rival processes a server started  *)
(* with: while a listener of it accepts connections, every column it will  *)
(* ask for is there, both listeners speak the transport the file asks for, *)
(* an interface others can reach has authentication or the operator's      *)
(* consent, and an enterprise deployment holds no credentials of its own.  *)
ServesOnlyReady ==
    \A p \in Procs : Serves(p) =>
        LET c == node[p].config IN
        /\ tables /\ AllColumns \subseteq schema /\ version
        /\ {node[p].http, node[p].pg} \cap {"plain", "tls"} = {Bound(c)}
        /\ c.host # "public" \/ env.jwt \/ env.allow
        /\ c.mode = "enterprise" => ~c.inline

Whole(p) == \/ node[p].stage = "worker"
            \/ /\ node[p].stage = "join" /\ node[p].http \in {"plain", "tls"}
               /\ node[p].pg \in {"plain", "tls"} \/ ~Pgwire(p)

(* A started process ends up with every listener it was asked for, or it   *)
(* ends: nothing leaves it running with half of them.                      *)
WholeOrGone == \A p \in Procs : <>[](Whole(p) \/ node[p].stage = "down")
===============================================================================
