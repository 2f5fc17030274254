-------------------------------- MODULE Identity --------------------------------
(***************************************************************************)
(* Service clients of opensnow-server (auth.rs).  Each server process      *)
(* keeps a registry of clients in memory; the durable ones are rows of the *)
(* shared catalog.  A handler writes or reads its row, and copies what it  *)
(* has into its registry in a later step, so two requests of a process,    *)
(* and two processes, interleave between the row and the copy.             *)
(***************************************************************************)
EXTENDS Naturals, FiniteSets

CONSTANTS Procs,        \* server processes on one catalog
          Requests,     \* requests in flight
          Clients,      \* durable client ids
          Configured,   \* those OPENSNOW_CLIENTS names too
          EvalClients,  \* evaluation accounts, in memory only
          Keys,         \* client secrets
          Quota,        \* query quota of an evaluation account
          MaxChanges    \* bound: creations and rotations of one row

VARIABLES row,      \* service_identities: status and secret, by client
          memory,   \* ClientRegistry of each process
          req,      \* what each request is doing
          answer,   \* the answer of the last step, if it gave one
          expired,  \* clients whose expires_at has passed
          changes   \* history: creations and rotations of each row

identityVars == <<row, memory, req, answer, expired, changes>>

AllClients == Clients \cup EvalClients
Unknown == [kind |-> "unknown"]
FirstKey == CHOOSE k \in Keys : TRUE
Durable(status, key) == [kind |-> "durable", status |-> status, key |-> key, used |-> 0]
NewClient(kind) == [kind |-> kind, status |-> "active", key |-> FirstKey, used |-> 0]
Evaluation == NewClient("evaluation")
FromConfig == NewClient("configured")

Free == [phase |-> "free"]
Never == MaxChanges + 1
Silent == answer' = Free
Answer(q, op, c, ok) ==
    /\ answer' = [phase |-> "answered", op |-> op, client |-> c, ok |-> ok]
    /\ req' = [req EXCEPT ![q] = Free]

IdentityInit ==
    /\ row = [c \in Clients |-> Unknown]
    /\ memory = [p \in Procs |-> [c \in AllClients |-> Unknown]]
    /\ req = [q \in Requests |-> Free] /\ answer = Free
    /\ expired = {}
    /\ changes = [c \in Clients |-> 0]

(* from_env: the clients of OPENSNOW_CLIENTS, then the rows over them.  A  *)
(* catalog that cannot be read (`loaded` FALSE) is only logged.            *)
Start(p, loaded) ==
    /\ memory' = [memory EXCEPT ![p] = [c \in AllClients |->
           IF c \in Clients /\ loaded /\ row[c] # Unknown THEN row[c]
           ELSE IF c \in Configured THEN FromConfig ELSE Unknown]]
    /\ req' = [q \in Requests |-> IF req[q] # Free /\ req[q].at = p THEN Free ELSE req[q]]
    /\ Silent
    /\ UNCHANGED <<row, expired, changes>>

-------------------------------------------------------------------------------
\* Administration of durable clients: one statement on the row each.

InsertRow(c, key) == row[c] = Unknown /\ row' = [row EXCEPT ![c] = Durable("active", key)]
(* A new secret makes the client active again, whatever it was.            *)
UpdateSecret(c, key) == row[c] # Unknown /\ row' = [row EXCEPT ![c] = Durable("active", key)]
RevokeRow(c) == row[c] # Unknown /\ row' = [row EXCEPT ![c].status = "revoked"]

(* create_service_client keeps the record it inserted, and does not read.  *)
CreateClient(q, p, c, key) ==
    /\ req[q] = Free /\ changes[c] < MaxChanges
    /\ changes' = [changes EXCEPT ![c] = @ + 1]
    /\ InsertRow(c, key)
    /\ req' = [req EXCEPT ![q] = [phase |-> "register", op |-> "admin", at |-> p,
                                 client |-> c, record |-> Durable("active", key)]]
    /\ Silent /\ UNCHANGED <<memory, expired>>

RotateClient(q, p, c, key) ==
    /\ req[q] = Free /\ changes[c] < MaxChanges
    /\ changes' = [changes EXCEPT ![c] = @ + 1]
    /\ UpdateSecret(c, key)
    /\ req' = [req EXCEPT ![q] = [phase |-> "reread", op |-> "admin", at |-> p, client |-> c]]
    /\ Silent /\ UNCHANGED <<memory, expired>>

RevokeClient(q, p, c) ==
    /\ req[q] = Free /\ RevokeRow(c)
    /\ req' = [req EXCEPT ![q] = [phase |-> "reread", op |-> "admin", at |-> p, client |-> c]]
    /\ Silent /\ UNCHANGED <<memory, expired, changes>>

Reread(q) ==
    /\ req[q].phase = "reread"
    /\ req' = [req EXCEPT ![q] = [phase |-> "register", op |-> "admin", at |-> @.at,
                     client |-> @.client, record |-> row[@.client]]]
    /\ Silent /\ UNCHANGED <<row, memory, expired, changes>>

\* Mutant: a client the process knows already is left as it is.
RegisterDurable_Known(q) ==
    LET c == req[q].client IN
    /\ req[q].phase = "register"
    /\ memory' = IF memory[req[q].at][c] = Unknown
                 THEN [memory EXCEPT ![req[q].at][c] = req[q].record] ELSE memory
    /\ IF req[q].op = "admin" THEN Answer(q, "admin", c, TRUE)
       ELSE /\ req' = [req EXCEPT ![q] = [phase |-> "authorize", op |-> "bearer",
                         at |-> @.at, client |-> c, since |-> @.since]]
            /\ Silent
    /\ UNCHANGED <<row, expired, changes>>

(* register_durable_client, which every path to the registry ends with.    *)
RegisterDurable(q) ==
    LET c == req[q].client IN
    /\ req[q].phase = "register"
    /\ memory' = [memory EXCEPT ![req[q].at][c] = req[q].record]
    /\ IF req[q].op = "admin" THEN Answer(q, "admin", c, TRUE)
       ELSE /\ req' = [req EXCEPT ![q] = [phase |-> "authorize", op |-> "bearer",
                         at |-> @.at, client |-> c, since |-> @.since]]
            /\ Silent
    /\ UNCHANGED <<row, expired, changes>>

(* register_evaluation_account: the name is made of the time, its own in   *)
(* every process.                                                          *)
RegisterEvaluation(p, c) ==
    /\ \A other \in Procs : memory[other][c] = Unknown
    /\ memory' = [memory EXCEPT ![p][c] = Evaluation]
    /\ Silent /\ UNCHANGED <<row, req, expired, changes>>

(* suspend_client and revoke_client: only the registry of one process.     *)
SetStatus(p, c, status) ==
    /\ memory[p][c] # Unknown
    /\ memory' = [memory EXCEPT ![p][c].status = status]
    /\ Silent /\ UNCHANGED <<row, req, expired, changes>>

(* The two evaluation handlers take the id of any client; the fan-out of a *)
(* SCIM deactivation revokes the same way.                                 *)
SuspendEvaluation(p, c) == SetStatus(p, c, "suspended")
RevokeEvaluation(p, c) == SetStatus(p, c, "revoked")

Expire(c) ==
    /\ row[c] # Unknown /\ c \notin expired
    /\ expired' = expired \cup {c}
    /\ Silent /\ UNCHANGED <<row, memory, req, changes>>

-------------------------------------------------------------------------------
\* Requests of clients.

Usable(m, c) == m.status = "active" /\ ~(m.kind = "durable" /\ c \in expired)

(* Another request of the process that has not registered what it read.    *)
InFlight(p, c) == \E q \in Requests : /\ req[q] # Free /\ req[q].at = p
                                      /\ req[q].client = c /\ req[q].phase # "authorize"

(* jwt_required with a valid machine token: the row is read anew.  A row   *)
(* that is not there leaves the registry, an error refuses the request.    *)
BearerStart(q, p, c, readable) ==
    /\ req[q] = Free
    /\ IF ~readable THEN Answer(q, "bearer", c, FALSE)
       ELSE /\ req' = [req EXCEPT ![q] =
              IF c \in Clients /\ row[c] # Unknown
              THEN [phase |-> "register", op |-> "bearer", at |-> p, client |-> c,
                    record |-> row[c],
                    since |-> IF row[c].status = "revoked" /\ ~InFlight(p, c)
                              THEN changes[c] ELSE Never]
              ELSE [phase |-> "authorize", op |-> "bearer", at |-> p, client |-> c,
                    since |-> Never]]
            /\ Silent
    /\ UNCHANGED <<row, memory, expired, changes>>

(* authorize_bearer_client: a name the registry lacks is not refused, it   *)
(* may be a person's token; a query of an evaluation account is counted.   *)
Admits(m, c, query) ==
    m = Unknown \/ (Usable(m, c) /\ (m.kind = "evaluation" /\ query => m.used < Quota))

(* The rest of jwt_required: a header that names another account is        *)
(* refused (403), after the query was counted.                             *)
Authorize(q, query, foreign) ==
    LET c == req[q].client
        m == memory[req[q].at][c]
        counted == m # Unknown /\ m.kind = "evaluation" /\ query
    IN /\ req[q].phase = "authorize"
       /\ memory' = IF counted /\ Admits(m, c, query)
                    THEN [memory EXCEPT ![req[q].at][c].used = @ + 1] ELSE memory
       /\ Answer(q, "bearer", c, Admits(m, c, query) /\ ~foreign)
       /\ UNCHANGED <<row, expired, changes>>

(* token_endpoint: the secret is checked against the registry alone; the   *)
(* row, when there is one, only has last_used_at set.                      *)
IssueToken(q, p, c, key, catalog) ==
    LET m == memory[p][c] IN
    /\ req[q] = Free
    /\ Answer(q, "token", c, catalog /\ m # Unknown /\ m.key = key /\ Usable(m, c))
    /\ UNCHANGED <<row, memory, expired, changes>>

IdentityNext ==
    \/ \E p \in Procs :
         \/ \E loaded \in BOOLEAN : Start(p, loaded)
         \/ \E c \in EvalClients : RegisterEvaluation(p, c)
    \/ \E p \in Procs, c \in AllClients : SuspendEvaluation(p, c) \/ RevokeEvaluation(p, c)
    \/ \E c \in Clients : Expire(c)
    \/ \E q \in Requests, p \in Procs :
         \/ \E c \in Clients :
              \/ \E key \in Keys : CreateClient(q, p, c, key) \/ RotateClient(q, p, c, key)
              \/ RevokeClient(q, p, c)
         \/ \E c \in AllClients, up \in BOOLEAN :
              \/ BearerStart(q, p, c, up)
              \/ \E key \in Keys : IssueToken(q, p, c, key, up)
    \/ \E q \in Requests :
         \/ Reread(q) \/ RegisterDurable(q)
         \/ \E query, foreign \in BOOLEAN : Authorize(q, query, foreign)

IdentitySpec == IdentityInit /\ [][IdentityNext]_identityVars

-------------------------------------------------------------------------------
(* A bearer token of a client that was revoked before the request came in  *)
(* is refused in every process, also in one that never heard of the        *)
(* revocation, unless the client was rotated meanwhile or an older request *)
(* of the process still carries the row as it was.                         *)
RevokedIsRefused ==
    [][\A q \in Requests :
         (req[q].phase = "authorize" /\ req'[q] = Free /\ req[q].since # Never)
            => LET c == req[q].client IN
               (changes[c] = req[q].since /\ answer' # Free) => ~answer'.ok]_identityVars

(* "resolves durable service clients from the configured catalog before    *)
(* falling back": a client whose row is revoked is given no token.  The    *)
(* code does not keep this, so no run checks it: authenticate_client asks  *)
(* the memory of the process, and token_endpoint then only looks whether a *)
(* row exists, not at its status.                                          *)
TokenFromCatalog ==
    (answer # Free /\ answer.op = "token" /\ answer.ok)
        => LET c == answer.client IN
           c \in Clients => (row[c] = Unknown \/ row[c].status = "active")
===============================================================================
