------------------------------- MODULE McpGateway -------------------------------
(***************************************************************************)
(* Tokens of a fleet of servers whose signing keys are rolled over         *)
(* (opensnow-auth jwt.rs), and the MCP server that takes them by the key   *)
(* set it fetches and caches (oidc_verifier.rs; opensnow-mcp auth.rs and   *)
(* lib.rs), here with an external issuer as the only way in.  A call is    *)
(* verified by the middleware and again by the handler, checked against    *)
(* the tool's scopes, and handed to the one thread that owns an engine.    *)
(***************************************************************************)
EXTENDS Naturals, Sequences

CONSTANTS Issuers,      \* server processes that sign tokens and publish keys
          SigningKeys,
          Plan,         \* the stages of the roll-over: active, others, revoked
          Ttl,          \* jwks_ttl
          Lag,          \* bound: a fetch in flight takes at most this long
          MaxTime,      \* bound of the clock
          McpCalls,     \* calls in flight
          Purposes,     \* what callers ask for: tool, scopes and role
          MaxFetchFails \* bound

ASSUME PlanAssumption ==
    /\ Ttl \in Nat \ {0} /\ {Lag, MaxTime, MaxFetchFails} \subseteq Nat
    /\ Plan \in Seq([active : SigningKeys, others : SUBSET SigningKeys,
                     revoked : SUBSET SigningKeys])
    /\ Plan # <<>>

VARIABLES now,      \* the clock
          atStage,  \* the configuration each issuer was started with
          cache,    \* the verifier's CachedJwks
          call,     \* the MCP calls
          jobs,     \* the channel of the MCP thread
          threadUp, \* its receiver is there
          granted,  \* roles that hold SELECT on the table
          fetchFails,
          lastOut,  \* history: when a key was last published by some issuer
          allSince  \* history: since when every issuer publishes it

gatewayVars == <<now, atStage, cache, call, jobs, threadUp, granted,
                 fetchFails, lastOut, allSince>>

NoCache == [keys |-> {}, at |-> MaxTime + 1]
NoCall == [phase |-> "none"]
Over(answer) == [phase |-> answer]
NotAll == MaxTime + 1

-------------------------------------------------------------------------------
\* The issuers: JwtManager in enterprise mode.

(* JwtManager::enterprise.                                                 *)
KeysOf(i) == {Plan[i].active} \cup Plan[i].others
(* jwks: what a process publishes.                                         *)
Jwks(i) == KeysOf(i) \ Plan[i].revoked
(* generate_token_inner.                                                   *)
CanSign(i) == Plan[i].active \notin Plan[i].revoked

\* Mutant: only the key the process signs with is trusted.
Trusts_Active(i, k) == k \notin Plan[i].revoked /\ k = Plan[i].active

(* validate_token.                                                         *)
Trusts(i, k) == k \notin Plan[i].revoked /\ k \in KeysOf(i)

Publish(stages, at) ==
    /\ lastOut' = [k \in SigningKeys |->
           IF \E p \in Issuers : k \in Jwks(stages[p]) THEN at ELSE lastOut[k]]
    /\ allSince' = [k \in SigningKeys |->
           IF \A p \in Issuers : k \in Jwks(stages[p])
           THEN IF allSince[k] = NotAll THEN at ELSE allSince[k] ELSE NotAll]

(* A process is restarted with the next configuration; nobody is left two  *)
(* stages behind.                                                          *)
RollOver(p) ==
    /\ atStage[p] < Len(Plan) /\ \A o \in Issuers : atStage[o] >= atStage[p]
    /\ atStage' = [atStage EXCEPT ![p] = @ + 1]
    /\ Publish(atStage', now)
    /\ UNCHANGED <<now, cache, call, jobs, threadUp, granted, fetchFails>>

(* Any process signs, at any time, with the active key of its stage.       *)
Minted == {Plan[i].active : i \in {j \in 1..Len(Plan) :
               CanSign(j) /\ \E p \in Issuers : atStage[p] >= j}}

-------------------------------------------------------------------------------
\* The verifier and the way of a call.

(* select_key: by its id, otherwise some other one (the first of the right *)
(* type), and then the signature does not match.                           *)
SelectKey(keys, kid) == IF kid \in keys THEN kid ELSE CHOOSE k \in keys : TRUE
Verifies(keys, kid) == keys # {} /\ SelectKey(keys, kid) = kid

\* Mutant: a key set is kept once it is there.
Fresh_Forever == cache # NoCache

Fresh == cache # NoCache /\ now - cache.at < Ttl

ToolScopes == [read |-> {"sql.query", "table.select", "mcp.read"},
               query |-> {"sql.query", "table.select"},
               create |-> {"table.create"},
               control |-> {"pipeline.admin"},
               dashboard |-> {"dashboard.admin"}]

RolePriority(role) ==
    CASE role = "ACCOUNTADMIN" -> 100 [] role = "SYSADMIN" -> 50 [] role = "PUBLIC" -> 0
      [] OTHER -> 10
(* check_privilege: a grant to a role counts for every role not below it.  *)
HoldsSelect(role) == role = "ACCOUNTADMIN"
                        \/ \E g \in granted : RolePriority(role) >= RolePriority(g)

IsPlatformAdmin(u) == u.role \in {"ACCOUNTADMIN", "SYSADMIN"} \/ "admin" \in u.scopes
(* authorize_claims_for_tool; a method that is no tool call needs only the *)
(* token, and a tool nobody knows is left to the server.                   *)
ToolAllowed(u) ==
    \/ u.tool \notin DOMAIN ToolScopes
    \/ IsPlatformAdmin(u)
    \/ /\ u.scopes \cap ToolScopes[u.tool] # {}
       /\ u.tool = "query" => HoldsSelect(u.role)

(* The call goes on from the middleware to the handler, and from there, by *)
(* the tool's scopes, to the channel of the thread.                        *)
Verified(c, keys) ==
    LET u == call[c].use IN
    /\ call' = [call EXCEPT ![c] =
           IF ~Verifies(keys, @.key) THEN Over("refused")
           ELSE IF @.phase = "gate" THEN [@ EXCEPT !.phase = "handler", !.fetch = NoCache]
           ELSE IF ~ToolAllowed(u) THEN Over("forbidden")
           ELSE Over(IF threadUp THEN "queued" ELSE "failed")]
    /\ jobs' = IF call[c].phase = "handler" /\ call'[c].phase = "queued"
               THEN Append(jobs, c) ELSE jobs

Verifying(c) == call[c].phase \in {"gate", "handler"}
Around == <<now, atStage, threadUp, granted, lastOut, allSince>>

StartCall(c, k, u) ==
    /\ call[c] = NoCall /\ k \in Minted
    /\ call' = [call EXCEPT ![c] = [phase |-> "gate", key |-> k, use |-> u, fetch |-> NoCache]]
    /\ UNCHANGED <<Around, cache, jobs, fetchFails>>

(* jwks: while the cached set is fresh it is used as it is.                *)
VerifyCached(c) ==
    /\ Verifying(c) /\ call[c].fetch = NoCache /\ Fresh
    /\ Verified(c, cache.keys)
    /\ UNCHANGED <<Around, cache, fetchFails>>

(* fetch_jwks: the answer is some issuer's at the time it is asked; no     *)
(* lock is held meanwhile, other calls fetch too.                          *)
FetchStart(c, p) ==
    /\ Verifying(c) /\ call[c].fetch = NoCache /\ ~Fresh
    /\ call' = [call EXCEPT ![c].fetch = [keys |-> Jwks(atStage[p]), at |-> now]]
    /\ UNCHANGED <<Around, cache, jobs, fetchFails>>

(* The set is stored over whatever is there, with the time of its arrival. *)
FetchArrives(c) ==
    /\ Verifying(c) /\ call[c].fetch # NoCache
    /\ cache' = [keys |-> call[c].fetch.keys, at |-> now]
    /\ Verified(c, call[c].fetch.keys)
    /\ UNCHANGED <<Around, fetchFails>>

FetchFails(c) ==
    /\ Verifying(c) /\ call[c].fetch # NoCache /\ fetchFails < MaxFetchFails
    /\ fetchFails' = fetchFails + 1
    /\ call' = [call EXCEPT ![c] = Over("unverified")]
    /\ UNCHANGED <<Around, cache, jobs>>

-------------------------------------------------------------------------------
\* The thread, and what goes on around.

(* The head is handled with the engine of the thread; a panic ends it, and *)
(* the calls that wait get no answer (500).                                *)
HandleRequest(panics) ==
    /\ jobs # <<>> /\ threadUp
    /\ threadUp' = ~panics
    /\ jobs' = IF panics THEN <<>> ELSE Tail(jobs)
    /\ call' = [c \in McpCalls |->
           IF panics /\ (\E j \in DOMAIN jobs : jobs[j] = c) THEN Over("failed")
           ELSE IF c = Head(jobs) THEN Over("ran") ELSE call[c]]
    /\ UNCHANGED <<now, atStage, cache, granted, fetchFails, lastOut, allSince>>

GrantSelect(role) ==
    /\ granted' = granted \cup {role}
    /\ UNCHANGED <<now, atStage, cache, call, jobs, threadUp, fetchFails,
                   lastOut, allSince>>

RevokeSelect(role) ==
    /\ role \in granted
    /\ granted' = granted \ {role}
    /\ UNCHANGED <<now, atStage, cache, call, jobs, threadUp, fetchFails,
                   lastOut, allSince>>

GatewayTick ==
    /\ now < MaxTime
    /\ \A c \in McpCalls : (Verifying(c) /\ call[c].fetch # NoCache) => now - call[c].fetch.at < Lag
    /\ now' = now + 1
    /\ Publish(atStage, now + 1)
    /\ UNCHANGED <<atStage, cache, call, jobs, threadUp, granted, fetchFails>>

GatewayInit ==
    /\ now = 0 /\ atStage = [p \in Issuers |-> 1]
    /\ cache = NoCache /\ call = [c \in McpCalls |-> NoCall]
    /\ jobs = <<>> /\ threadUp = TRUE /\ granted = {} /\ fetchFails = 0
    /\ lastOut = [k \in SigningKeys |-> 0]
    /\ allSince = [k \in SigningKeys |-> IF k \in Jwks(1) THEN 0 ELSE NotAll]

GatewayNext ==
    \/ \E p \in Issuers : RollOver(p)
    \/ \E c \in McpCalls :
         \/ \E k \in SigningKeys, u \in Purposes : StartCall(c, k, u)
         \/ VerifyCached(c) \/ FetchArrives(c) \/ FetchFails(c)
         \/ \E p \in Issuers : FetchStart(c, p)
    \/ \E panics \in BOOLEAN : HandleRequest(panics)
    \/ \E role \in {u.role : u \in Purposes} : GrantSelect(role) \/ RevokeSelect(role)
    \/ GatewayTick

GatewaySpec == GatewayInit /\ [][GatewayNext]_gatewayVars

-------------------------------------------------------------------------------
(* The verifier follows its issuer within the life of a cached set and the *)
(* time of a fetch: a token it takes has a key some issuer published that  *)
(* recently, and one it turns away has a key not every issuer has been     *)
(* publishing for so long.                                                 *)
TrustFollowsIssuer ==
    [][\A c \in McpCalls :
         (Verifying(c) /\ call'[c].phase # call[c].phase) =>
            LET k == call[c].key IN
            CASE call'[c].phase = "refused" -> allSince[k] = NotAll \/ now - allSince[k] < Ttl + Lag
              [] call'[c].phase = "unverified" -> TRUE
              [] OTHER -> now - lastOut[k] < Ttl + Lag]_gatewayVars

(* What a plan has to respect: a key is published one stage before it      *)
(* signs, and once it is gone it does not come back.                       *)
Announced ==
    \A j \in DOMAIN Plan : CanSign(j) =>
        LET k == Plan[j].active IN
        /\ j > 1 => k \in Jwks(j - 1)
        /\ \A i \in j .. Len(Plan) :
              k \in Jwks(i) \/ \A l \in i .. Len(Plan) : k \notin Jwks(l)

(* Rolled over stage by stage, the fleet turns a token away only when its  *)
(* key has been taken out of the plan: never because the process that      *)
(* signed it and the one that is shown it are a stage apart.               *)
RolloutKeepsTokens ==
    \A p \in Issuers, k \in Minted :
        Trusts(atStage[p], k) \/ \E i \in DOMAIN Plan :
            /\ \E o \in Issuers : atStage[o] >= i
            /\ \A j \in i..Len(Plan) : k \notin Jwks(j)
===============================================================================
