-------------------------------- MODULE SsoLogin --------------------------------
(***************************************************************************)
(* Enterprise single sign-on (opensnow-auth/sso.rs, opensnow-server/       *)
(* admin.rs).  Administrators keep identity-provider connections; a login  *)
(* starts a transaction, the provider's callback completes it and leaves a *)
(* durable session, and every later request rechecks that session.  The    *)
(* callback waits for the provider twice and locks the database once per   *)
(* statement, so administrators and other callbacks run between its steps. *)
(* The provider is external: a code exchange answers any claims, or fails. *)
(***************************************************************************)
EXTENDS Naturals, FiniteSets

CONSTANTS Conns,      \* connections, each of one account
          Configs,    \* what an upsert can set: [enabled, oidc, issuer, allows, secret]
          ClientSecrets, \* client secrets a provider issues
          Emails,     \* users at the providers
          Groups,     \* values of the mapped claim
          SsoRoles,   \* roles mappings give
          LoginStates,\* random login states (each with its nonce and PKCE verifier)
          Callbacks,  \* concurrent callback requests
          Sessions,   \* random session ids
          MaxEpoch    \* bound: times one connection is created

VARIABLES idp,      \* sso_idp_connections
          secret,   \* the sealed client secret of each connection
          mapping,  \* sso_idp_role_mappings, pairs <<group, role>>
          tx,       \* sso_oidc_login_transactions
          cb,       \* the callbacks in flight
          session,  \* sso_sessions
          userRole, \* role column of users, and user_roles
          epoch     \* history: how often each connection was created

ssoVars == <<idp, secret, mapping, tx, cb, session, userRole, epoch>>

Absent == [row |-> "absent"]
Exists(r) == r # Absent
Waiting == [phase |-> "none"]
NoSecret == "none"
External == "external"

SsoInit == /\ idp = [c \in Conns |-> Absent]
           /\ secret = [c \in Conns |-> NoSecret]
           /\ mapping = [c \in Conns |-> {}]
           /\ tx = [s \in LoginStates |-> Absent]
           /\ cb = [w \in Callbacks |-> Waiting]
           /\ session = [i \in Sessions |-> Absent]
           /\ userRole = [e \in Emails |-> {}]
           /\ epoch = [c \in Conns |-> 0]

-------------------------------------------------------------------------------
\* Administration.

(* store_idp_client_secret: create_secret, and rotate_secret when the      *)
(* handle exists.  It runs before the row is written, under its own lock.  *)
StoreClientSecret(c, v) ==
    /\ secret' = [secret EXCEPT ![c] = v]
    /\ UNCHANGED <<idp, mapping, tx, cb, session, userRole, epoch>>

(* The row of upsert_idp_connection.  COALESCE keeps the handle when the   *)
(* request names none.                                                     *)
UpsertConnection(c, cfg) ==
    /\ Exists(idp[c]) \/ epoch[c] < MaxEpoch
    /\ LET kept == IF Exists(idp[c]) THEN idp[c].handle ELSE NoSecret
           handle == IF cfg.handle = NoSecret THEN kept ELSE cfg.handle
       IN idp' = [idp EXCEPT ![c] = [row |-> "idp", enabled |-> cfg.enabled, oidc |-> cfg.oidc,
                           issuer |-> cfg.issuer, allows |-> cfg.allows, handle |-> handle]]
    /\ epoch' = IF Exists(idp[c]) THEN epoch ELSE [epoch EXCEPT ![c] = @ + 1]
    /\ UNCHANGED <<secret, mapping, tx, cb, session, userRole>>

(* foreign_keys=ON: the mappings, the transactions and the sessions of the *)
(* connection go with it.  The sealed secret stays.                        *)
CascadeDelete(rows, c) ==
    [k \in DOMAIN rows |-> IF Exists(rows[k]) /\ rows[k].conn = c THEN Absent ELSE rows[k]]

DeleteConnection(c) ==
    /\ Exists(idp[c])
    /\ idp' = [idp EXCEPT ![c] = Absent]
    /\ mapping' = [mapping EXCEPT ![c] = {}]
    /\ tx' = CascadeDelete(tx, c)
    /\ session' = CascadeDelete(session, c)
    /\ UNCHANGED <<secret, cb, userRole, epoch>>

UpsertMapping(c, g, r) ==
    /\ Exists(idp[c])
    /\ mapping' = [mapping EXCEPT ![c] = @ \cup {<<g, r>>}]
    /\ UNCHANGED <<idp, secret, tx, cb, session, userRole, epoch>>

DeleteMapping(c, m) ==
    /\ m \in mapping[c]
    /\ mapping' = [mapping EXCEPT ![c] = @ \ {m}]
    /\ UNCHANGED <<idp, secret, tx, cb, session, userRole, epoch>>

(* The handlers of the admin API.  A request with a secret stores it and   *)
(* then writes the row; the row may fail.                                  *)
AdminRequest(c) ==
    \/ \E v \in ClientSecrets : StoreClientSecret(c, v)
    \/ \E cfg \in Configs : UpsertConnection(c, cfg)
    \/ \E g \in Groups, r \in SsoRoles : UpsertMapping(c, g, r) \/ DeleteMapping(c, <<g, r>>)

-------------------------------------------------------------------------------
\* Login.

(* find_oidc_connection_by_email: an enabled connection for the domain.    *)
ConnectionFor(e) == {c \in Conns : Exists(idp[c]) /\ idp[c].enabled /\ e \in idp[c].allows}

(* start_oidc_login: a fresh state, nonce and PKCE verifier.               *)
StartLogin(c, s) ==
    /\ tx[s] = Absent
    /\ \A w \in Callbacks : cb[w] # Waiting => cb[w].state # s
    /\ \A i \in Sessions : Exists(session[i]) => session[i].from # s
    /\ Exists(idp[c]) /\ idp[c].enabled /\ idp[c].oidc
    /\ tx' = [tx EXCEPT ![s] = [row |-> "tx", conn |-> c, consumed |-> FALSE]]
    /\ UNCHANGED <<idp, secret, mapping, cb, session, userRole, epoch>>

(* sso_login: a code in the request, another redirect URI and a SAML       *)
(* connection answer an error.                                             *)
SsoLoginRequest(e, s) == \E c \in ConnectionFor(e) : StartLogin(c, s)

PendingLogin(s) == Exists(tx[s]) /\ ~tx[s].consumed

(* pending_oidc_login and the connection check of complete_oidc_code_login.*)
ReceiveCallback(w, s) ==
    /\ cb[w] = Waiting /\ PendingLogin(s)
    /\ LET c == tx[s].conn IN
         /\ Exists(idp[c]) /\ idp[c].oidc /\ idp[c].enabled
         /\ idp[c].handle # NoSecret
         /\ cb' = [cb EXCEPT ![w] = [phase |-> "exchange", state |-> s, conn |-> c,
                                     issuer |-> idp[c].issuer, handle |-> idp[c].handle]]
    /\ UNCHANGED <<idp, secret, mapping, tx, session, userRole, epoch>>

(* resolve_idp_client_secret: the local store, or the external command,    *)
(* which fails closed.                                                     *)
ResolveClientSecret(c, handle) ==
    IF handle = External THEN ClientSecrets \cup {NoSecret} ELSE {secret[c]}

Fail(w) == cb' = [cb EXCEPT ![w] = Waiting]

(* exchange_oidc_code, verify_oidc_token and verified_claims_from_...: the *)
(* provider answers claims it signed as the issuer the callback read, or   *)
(* any step fails.                                                         *)
Exchange(w, e, gs, verified, nonce) ==
    /\ cb[w] # Waiting /\ cb[w].phase = "exchange"
    /\ \/ /\ \E v \in ResolveClientSecret(cb[w].conn, cb[w].handle) : v # NoSecret
          /\ cb' = [cb EXCEPT ![w] = [phase |-> "claims", state |-> @.state, issuer |-> @.issuer,
                       email |-> e, groups |-> gs, verified |-> verified, nonce |-> nonce]]
       \/ Fail(w)
    /\ UNCHANGED <<idp, secret, mapping, tx, session, userRole, epoch>>

(* complete_oidc_login reads the transaction, then the connection, then    *)
(* the mappings, each under a lock of its own.  `enabled` is not read.     *)
ReadTransaction(w) ==
    /\ cb[w] # Waiting /\ cb[w].phase = "claims"
    /\ LET s == cb[w].state IN
         IF PendingLogin(s) /\ cb[w].nonce = s /\ cb[w].verified
         THEN cb' = [cb EXCEPT ![w] = [phase |-> "opened", state |-> s, conn |-> tx[s].conn,
                       issuer |-> @.issuer, email |-> @.email,
                       groups |-> @.groups]]
         ELSE Fail(w)
    /\ UNCHANGED <<idp, secret, mapping, tx, session, userRole, epoch>>

ReadConnection(w) ==
    /\ cb[w] # Waiting /\ cb[w].phase = "opened"
    /\ LET c == idp[cb[w].conn] IN
         IF Exists(c) /\ cb[w].issuer = c.issuer /\ cb[w].email \in c.allows
         THEN cb' = [cb EXCEPT ![w].phase = "matched"]
         ELSE Fail(w)
    /\ UNCHANGED <<idp, secret, mapping, tx, session, userRole, epoch>>

MappedRoles(c, gs) == {m[2] : m \in {p \in mapping[c] : p[1] \in gs}}

ReadMappings(w) ==
    /\ cb[w] # Waiting /\ cb[w].phase = "matched"
    /\ cb' = [cb EXCEPT ![w] = [phase |-> "checked", state |-> @.state, conn |-> @.conn,
                   email |-> @.email, roles |-> MappedRoles(@.conn, @.groups)]]
    /\ UNCHANGED <<idp, secret, mapping, tx, session, userRole, epoch>>

(* The UPDATE names the state only: it matches a consumed row again, or no *)
(* row at all, and the login goes on.                                      *)
ConsumeState(w) ==
    /\ cb[w] # Waiting /\ cb[w].phase = "checked"
    /\ tx' = [tx EXCEPT ![cb[w].state] = IF Exists(@) THEN [@ EXCEPT !.consumed = TRUE] ELSE @]
    /\ cb' = [cb EXCEPT ![w].phase = "user"]
    /\ UNCHANGED <<idp, secret, mapping, session, userRole, epoch>>

(* upsert_sso_user: one row per email, whatever the account.               *)
UpsertUser(w) ==
    /\ cb[w] # Waiting /\ cb[w].phase = "user"
    /\ userRole' = [userRole EXCEPT ![cb[w].email] = cb[w].roles]
    /\ cb' = [cb EXCEPT ![w].phase = "session"]
    /\ UNCHANGED <<idp, secret, mapping, tx, session, epoch>>

\* Mutant: the foreign key is not enforced.
CreateSession_NoForeignKey(w, i) ==
    /\ cb[w] # Waiting /\ cb[w].phase = "session" /\ session[i] = Absent
    /\ session' = [session EXCEPT ![i] = [row |-> "session", conn |-> cb[w].conn,
                        email |-> cb[w].email, roles |-> cb[w].roles,
                        from |-> cb[w].state, live |-> TRUE]]
    /\ Fail(w)
    /\ UNCHANGED <<idp, secret, mapping, tx, userRole, epoch>>

(* create_sso_session: the foreign key refuses a connection that is gone.  *)
CreateSession(w, i) ==
    /\ cb[w] # Waiting /\ cb[w].phase = "session" /\ session[i] = Absent
    /\ session' = IF Exists(idp[cb[w].conn])
                  THEN [session EXCEPT ![i] = [row |-> "session", conn |-> cb[w].conn,
                            email |-> cb[w].email, roles |-> cb[w].roles,
                            from |-> cb[w].state, live |-> TRUE]]
                  ELSE session
    /\ Fail(w)
    /\ UNCHANGED <<idp, secret, mapping, tx, userRole, epoch>>

(* revoke_sso_session, or the eight hours of the session pass.             *)
EndSession(i) ==
    /\ Exists(session[i]) /\ session[i].live
    /\ session' = [session EXCEPT ![i].live = FALSE]
    /\ UNCHANGED <<idp, secret, mapping, tx, cb, userRole, epoch>>

(* validate_sso_session, which jwt_required calls on every oidc token, of  *)
(* the account the connection belongs to.                                  *)
AcceptsSession(i, c, e) ==
    /\ Exists(session[i]) /\ session[i].live
    /\ session[i].conn = c /\ session[i].email = e

(* complete_oidc_code_login, once the callback has found its login.        *)
CompleteLogin(w) ==
    \/ \E e \in Emails, gs \in SUBSET Groups, v \in BOOLEAN, n \in LoginStates :
         Exchange(w, e, gs, v, n)
    \/ ReadTransaction(w) \/ ReadConnection(w) \/ ReadMappings(w) \/ ConsumeState(w)

(* sso_callback: the login, then the user, then the session its token is   *)
(* minted for.                                                             *)
SsoCallback(w) ==
    \/ \E s \in LoginStates : ReceiveCallback(w, s)
    \/ CompleteLogin(w)
    \/ UpsertUser(w)
    \/ \E i \in Sessions : CreateSession(w, i)

SsoNext ==
    \/ \E c \in Conns : AdminRequest(c) \/ DeleteConnection(c)
    \/ \E e \in Emails, s \in LoginStates : SsoLoginRequest(e, s)
    \/ \E w \in Callbacks : SsoCallback(w)
    \/ \E i \in Sessions : EndSession(i)

SsoSpec == SsoInit /\ [][SsoNext]_ssoVars

-------------------------------------------------------------------------------
(* Whatever a deletion interleaves with, no session, transaction or        *)
(* mapping outlives its connection, so no request is accepted through one. *)
NothingOutlivesConnection ==
    /\ \A i \in Sessions, c \in Conns, e \in Emails : AcceptsSession(i, c, e) => Exists(idp[c])
    /\ \A s \in LoginStates : Exists(tx[s]) => Exists(idp[tx[s].conn])
    /\ \A c \in Conns : mapping[c] # {} => Exists(idp[c])

===============================================================================
