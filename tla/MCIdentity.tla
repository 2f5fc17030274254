------------------------------ MODULE MCIdentity ------------------------------
(***************************************************************************)
(* Who may come in, and what agents do then: the sealed secrets, single    *)
(* sign-on, service clients with their bearer tokens, the SCIM directory,  *)
(* the MCP server with its issuer, and the tools.  They share no state, so *)
(* each behaviour exercises one of them and the run adds their state       *)
(* spaces instead of multiplying them.                                     *)
(***************************************************************************)
EXTENDS SecretStore, SsoLogin, Identity, ScimDirectory, McpGateway, AgentTools, TLC

CONSTANTS
    t1, t2, h1, h2, v1, v2, old, k2,      \* secrets
    i1, i2, e1, st1, w1, w2, n1, n2,      \* single sign-on
    p1, p2, q1, q2,                       \* clients
    ann, bob, m1, m2,                     \* SCIM
    sk1, sk2, is1, is2, mc1, mc2,         \* MCP server
    g1, g2, mo, ta                        \* tools

VARIABLE area  \* the component this behaviour exercises

\* Two threads, two handles, one rotated key; both handles are first created
\* with the same value.
OneValueFirst == Cardinality({lastSet[h] : h \in Handles}) = 1

\* Connections: two issuers, one with the secret here and one without; one is
\* disabled with an external secret, one does SAML.
Config(on, oidc, issuer, handle) ==
    [enabled |-> on, oidc |-> oidc, issuer |-> issuer, allows |-> {e1}, handle |-> handle]
MCConfigs == {Config(TRUE, TRUE, i1, "local"), Config(TRUE, TRUE, i2, NoSecret),
              Config(FALSE, TRUE, i1, External), Config(TRUE, FALSE, i1, NoSecret)}

\* The evaluation accounts, which only the memory of a process knows, and the
\* durable clients are exercised apart; so are the SCIM tokens with the groups
\* and, with one token and one process, the users.
NoEvaluation == \A p \in Procs, c \in EvalClients : memory'[p][c] = Unknown
NoDurable == /\ row' = row /\ expired' = expired
             /\ {q \in Requests : req'[q] # Free /\ req'[q].client \in Clients} = {}
UsersOnly == /\ IF issued = {} THEN tokenLock'[p2] = 0 ELSE tokenLock' = tokenLock
             /\ tokenLock' = tokenLock => counter'[p1] \in {0, counter[p1]}
             /\ counter'[p2] = 0 /\ scimFaults' = 0
             /\ group' = group
             /\ {h \in Handlers : handler'[h] # NoHandler /\ handler'[h].node # p1} = {}

\* PATCH bodies: one operation; two, of which the last counts; none on `active`.
Operation(path, value) == [path |-> path, value |-> value]
MCPatches == {<<Operation("active", "true")>>,
              <<Operation("active", "true"), Operation("active", "false")>>,
              <<Operation("displayName", "unset")>>}

\* A key is published before it signs, and its predecessor still published for
\* a stage after that; one role asks for queries.
Stage(active, others, revoked) == [active |-> active, others |-> others, revoked |-> revoked]
MCPlan == <<Stage(sk1, {}, {}), Stage(sk1, {sk2}, {}), Stage(sk2, {sk1}, {}),
            Stage(sk2, {sk1}, {sk1})>>
MCPurposes == {[tool |-> "query", scopes |-> {"sql.query"}, role |-> "ANALYST"]}

\* Issuers and calls differ in nothing but their names: the first ones go first.
FirstFirst == /\ atStage'[is1] >= atStage'[is2]
              /\ call'[mc1] = NoCall => call'[mc2] = NoCall

ASSUME PlanAnnounced == Announced

MCIdentityInit ==
    /\ area \in {"secrets", "sso", "clients", "evaluation", "tokens", "people",
                "gateway", "tools"}
    /\ SecretInit /\ OneValueFirst /\ SsoInit /\ IdentityInit /\ ScimInit
    /\ GatewayInit /\ ToolsInit

directoryVars == <<secretVars, ssoVars, identityVars, scimVars>>

MCIdentityNext ==
    \/ /\ \/ area = "secrets" /\ SecretNext /\ UNCHANGED <<ssoVars, identityVars, scimVars>>
          \/ area = "sso" /\ SsoNext /\ UNCHANGED <<secretVars, identityVars, scimVars>>
          \/ /\ area = "clients" /\ IdentityNext /\ NoEvaluation
             /\ UNCHANGED <<secretVars, ssoVars, scimVars>>
          \/ /\ area = "evaluation" /\ IdentityNext /\ NoDurable
             /\ UNCHANGED <<secretVars, ssoVars, scimVars>>
          \/ /\ area = "tokens" /\ ScimNext /\ UNCHANGED <<user, handler>>
             /\ UNCHANGED <<secretVars, ssoVars, identityVars>>
          \/ /\ area = "people" /\ ScimNext /\ UsersOnly
             /\ UNCHANGED <<secretVars, ssoVars, identityVars>>
       /\ UNCHANGED <<area, gatewayVars, toolVars>>
    \/ area = "gateway" /\ GatewayNext /\ FirstFirst
       /\ UNCHANGED <<area, directoryVars, toolVars>>
    \/ area = "tools" /\ ToolsNext /\ UNCHANGED <<area, directoryVars, gatewayVars>>

MCIdentitySpec ==
    MCIdentityInit /\ [][MCIdentityNext]_<<area, directoryVars, gatewayVars, toolVars>>
===============================================================================
