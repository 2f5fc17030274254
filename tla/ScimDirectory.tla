------------------------------ MODULE ScimDirectory ------------------------------
(***************************************************************************)
(* SCIM tokens, users and groups of one account (ScimDirectory of auth.rs  *)
(* on a durable catalog).  The token operations of a process hold one      *)
(* lock; those on users and groups hold none and lock the database once    *)
(* per statement.  An error of the catalog is logged and the handler       *)
(* answers as if nothing had failed: for tokens that is modelled as it is, *)
(* for users and groups the one error is the unique index on user names.   *)
(* A restart leaves the catalog and empties the memory.                    *)
(***************************************************************************)
EXTENDS Naturals, FiniteSets, Sequences

CONSTANTS Nodes,      \* server processes on one catalog
          Handlers,   \* requests in flight
          MaxId,      \* bound: the largest number in a generated id
          GroupIds,   \* ids of groups, 1 .. n
          UserNames,
          Patches,    \* bodies of PATCH: sequences of operations [path, value]
          MaxTokens,  \* bound: tokens issued
          MaxScimFaults \* bound: statements on tokens that fail

ASSUME ScimAssumption == MaxId \in Nat

VARIABLES token,      \* scim_tokens: the secret and revoked_at, by id
          known,      \* tokens in the memory of each process
          tokenLock,  \* the rotation that holds the lock of each process
          counter,    \* token_counter: rotations of each process, of any account
          scimFaults, \* statements on tokens that failed
          issued,     \* history: secrets handed out, with the id, written or not
          user,       \* scim_users
          group,      \* scim_groups
          handler,    \* user and group requests in flight
          reply,      \* history: what the last user request answered
          overlapped, \* history: two processes rotated at the same time
          guessed     \* history: a rotation took an id that was not the next

scimVars == <<token, known, tokenLock, counter, scimFaults, issued, overlapped, guessed,
              user, group, handler, reply>>

Ids == 1 .. MaxId
Gone == [stored |-> FALSE]
NoHandler == [step |-> "none"]
Stored(table) == {i \in DOMAIN table : table[i] # Gone}
(* SELECT COUNT( * ) + 1: rows are never deleted, so the count only grows.  *)
NextId(table) == Cardinality(Stored(table)) + 1

ScimInit ==
    /\ token = [i \in Ids |-> Gone]
    /\ known = [n \in Nodes |-> {}]
    /\ tokenLock = [n \in Nodes |-> 0]
    /\ counter = [n \in Nodes |-> 0] /\ scimFaults = 0
    /\ issued = {} /\ overlapped = FALSE /\ guessed = FALSE
    /\ user = [i \in Ids |-> Gone]
    /\ group = [i \in GroupIds |-> Gone]
    /\ handler = [h \in Handlers |-> NoHandler]
    /\ reply = NoHandler

userVars == <<user, group, handler, reply>>
tokenVars == <<token, known, tokenLock, counter, scimFaults, issued, overlapped, guessed>>

-------------------------------------------------------------------------------
\* Tokens.

Overlaps(n) == \E other \in Nodes \ {n} : tokenLock[other] # 0

CatalogFails == scimFaults < MaxScimFaults /\ scimFaults' = scimFaults + 1

(* A rotation takes the lock of its process and the id `next`.             *)
TakeId(n, next) ==
    /\ tokenLock[n] = 0
    /\ Cardinality(issued) < MaxTokens /\ next \in Ids
    /\ tokenLock' = [tokenLock EXCEPT ![n] = next]
    /\ counter' = [counter EXCEPT ![n] = @ + 1]
    /\ overlapped' = (overlapped \/ Overlaps(n))
    /\ UNCHANGED <<token, known, issued>> /\ UNCHANGED userVars

\* Mutant: the id always is that of the counter in memory.
RotateRead_InMemory(n) == TakeId(n, counter[n] + 1) /\ UNCHANGED <<scimFaults, guessed>>

(* rotate_token reads the next id from the catalog; when it cannot be      *)
(* opened or does not count, the id is that of the counter in memory.      *)
RotateRead(n) ==
    \/ TakeId(n, NextId(token)) /\ UNCHANGED <<scimFaults, guessed>>
    \/ /\ CatalogFails /\ TakeId(n, counter[n] + 1)
       /\ guessed' = (guessed \/ counter[n] + 1 # NextId(token))

(* A rotation of another account counts in the same memory.                *)
RotateElsewhere(n) ==
    /\ tokenLock[n] = 0 /\ counter[n] < MaxTokens
    /\ counter' = [counter EXCEPT ![n] = @ + 1]
    /\ UNCHANGED <<token, known, tokenLock, scimFaults, issued, overlapped, guessed>>
    /\ UNCHANGED userVars

(* ON CONFLICT(id): the secret is replaced, revoked_at stays.              *)
UpsertToken(old, secret) ==
    IF old = Gone THEN [stored |-> TRUE, secret |-> secret, revoked |-> FALSE]
    ELSE [old EXCEPT !.secret = secret]

(* The secret is handed out whether the row was written or not.            *)
RotateWrite(n) ==
    LET id == tokenLock[n]
        secret == Cardinality(issued) + 1
        HandOut(written) ==
            issued' = issued \cup {[id |-> id, secret |-> secret, written |-> written]}
    IN /\ id # 0
       /\ \/ /\ token' = [token EXCEPT ![id] = UpsertToken(@, secret)]
             /\ HandOut(TRUE) /\ UNCHANGED scimFaults
          \/ CatalogFails /\ HandOut(FALSE) /\ UNCHANGED token
       /\ known' = [known EXCEPT ![n] = @ \cup {id}]
       /\ tokenLock' = [tokenLock EXCEPT ![n] = 0]
       /\ UNCHANGED <<counter, overlapped, guessed>> /\ UNCHANGED userVars

(* revoke_token looks the id up in memory first, and fails when it is not  *)
(* there; the row is only written after, and an error of that is logged.   *)
Revocable(n, id) == id \in known[n] /\ token[id] # Gone
RevokeToken(n, id) ==
    /\ tokenLock[n] = 0 /\ Revocable(n, id)
    /\ \/ token' = [token EXCEPT ![id].revoked = TRUE] /\ UNCHANGED scimFaults
       \/ CatalogFails /\ UNCHANGED token
    /\ UNCHANGED <<known, tokenLock, counter, issued, overlapped, guessed>>
    /\ UNCHANGED userVars

(* authenticate_token and list_tokens while the catalog answers them.      *)
Authenticates(secret) ==
    \E id \in Stored(token) : ~token[id].revoked /\ token[id].secret = secret
Listed(id) == token[id] # Gone /\ ~token[id].revoked

(* The token endpoints, for an administrator of the account.               *)
TokenRequest(n) ==
    \/ RotateRead(n) \/ RotateElsewhere(n) \/ RotateWrite(n)
    \/ \E id \in Ids : RevokeToken(n, id)

Restart(n) ==
    /\ known' = [known EXCEPT ![n] = {}]
    /\ tokenLock' = [tokenLock EXCEPT ![n] = 0]
    /\ counter' = [counter EXCEPT ![n] = 0]
    /\ handler' = [h \in Handlers |-> IF handler[h] # NoHandler /\ handler[h].node = n
                                      THEN NoHandler ELSE handler[h]]
    /\ reply' = NoHandler
    /\ UNCHANGED <<token, scimFaults, issued, overlapped, guessed, user, group>>

-------------------------------------------------------------------------------
\* Users and groups.  Every request first authenticates a token.

Admitted == \E i \in issued : Authenticates(i.secret)
Named(name) == {i \in Stored(user) : user[i].name = name}

CanBegin(h) == handler[h] = NoHandler /\ Admitted
Unanswered == /\ reply' = NoHandler
              /\ UNCHANGED <<user, group>> /\ UNCHANGED tokenVars
Writing(n, op, id, name, active) == [step |-> "write", node |-> n, op |-> op, id |-> id,
                                     name |-> name, active |-> active]

(* scim_create_user: the user of that name, or else the next id.           *)
PostUser(h, n, name, active) ==
    /\ CanBegin(h)
    /\ \/ \E id \in Named(name) :
              handler' = [handler EXCEPT ![h] = Writing(n, "post", id, name, active)]
       \/ /\ Named(name) = {}
          /\ handler' = [handler EXCEPT ![h] = [step |-> "count", node |-> n,
                                               name |-> name, active |-> active]]
    /\ Unanswered

CountUsers(h) ==
    /\ handler[h].step = "count" /\ NextId(user) \in Ids
    /\ handler' = [handler EXCEPT ![h] = Writing(@.node, "post", NextId(user),
                                                @.name, @.active)]
    /\ Unanswered

(* scim_put_user: the id of the path, stored or not; `active` is TRUE when *)
(* the payload has none.                                                   *)
PutUser(h, n, id, name, active) ==
    /\ CanBegin(h)
    /\ handler' = [handler EXCEPT ![h] = Writing(n, "put", id, name, active)]
    /\ Unanswered

(* set_user_active reads the whole record.                                 *)
SetActive(h, n, id, active) ==
    /\ CanBegin(h) /\ user[id] # Gone
    /\ handler' = [handler EXCEPT ![h] = Writing(n, "patch", id, user[id].name, active)]
    /\ Unanswered

(* scim_patch_user: the last operation on `active` counts, and a value     *)
(* that is not a boolean undoes those before it.                           *)
Unset == "unset"
ActiveOf(ops) ==
    LET named == SelectSeq(ops, LAMBDA op : op.path = "active") IN
    IF named = <<>> THEN Unset ELSE named[Len(named)].value

PatchUser(h, n, id, ops) ==
    /\ ActiveOf(ops) # Unset
    /\ SetActive(h, n, id, ActiveOf(ops) = "true")

DeleteUser(h, n, id) == SetActive(h, n, id, FALSE)

(* upsert_scim_user: a name another id has is refused by the index.        *)
Accepts(id, name) == Named(name) \subseteq {id}

(* The write, the answer, and the call that revokes the client of that     *)
(* name in the registry of the process (what it does there: SetStatus of   *)
(* module Identity).  Creating a user as inactive revokes nothing.         *)
WriteUser(h) ==
    LET r == handler[h] IN
    /\ r.step = "write"
    /\ user' = IF Accepts(r.id, r.name)
               THEN [user EXCEPT ![r.id] = [stored |-> TRUE, name |-> r.name,
                                            active |-> r.active]]
               ELSE user
    /\ reply' = [step |-> "replied", id |-> r.id, active |-> r.active,
                 revokes |-> ~r.active /\ r.op # "post"]
    /\ handler' = [handler EXCEPT ![h] = NoHandler]
    /\ UNCHANGED group /\ UNCHANGED tokenVars

(* upsert_group makes a tombstoned group live again; without members in    *)
(* the payload (`given` FALSE) it keeps those stored.                      *)
UpsertGroup(id, members, given) ==
    LET kept == IF group[id] = Gone THEN {} ELSE group[id].members IN
    /\ Admitted /\ (group[id] # Gone \/ id = NextId(group))
    /\ group' = [group EXCEPT ![id] = [stored |-> TRUE, tombstoned |-> FALSE,
                     members |-> IF given THEN members ELSE kept]]
    /\ reply' = NoHandler
    /\ UNCHANGED <<user, handler>> /\ UNCHANGED tokenVars

TombstoneGroup(id) ==
    /\ Admitted /\ group[id] # Gone
    /\ group' = [group EXCEPT ![id].tombstoned = TRUE, ![id].members = {}]
    /\ reply' = NoHandler
    /\ UNCHANGED <<user, handler>> /\ UNCHANGED tokenVars

UserRequest(h, n) ==
    \/ \E active \in BOOLEAN, name \in UserNames :
         \/ PostUser(h, n, name, active)
         \/ \E id \in Ids : PutUser(h, n, id, name, active)
    \/ \E id \in Ids :
         \/ \E ops \in Patches : PatchUser(h, n, id, ops)
         \/ DeleteUser(h, n, id)

(* The group endpoints: POST and PUT, and DELETE.                          *)
GroupRequest(id) ==
    \/ \E members \in {{}, Ids}, given \in BOOLEAN : UpsertGroup(id, members, given)
    \/ TombstoneGroup(id)

ScimNext ==
    \/ \E n \in Nodes : TokenRequest(n) \/ Restart(n)
    \/ \E h \in Handlers :
         \/ CountUsers(h) \/ WriteUser(h)
         \/ \E n \in Nodes : UserRequest(h, n)
    \/ \E id \in GroupIds : GroupRequest(id)

ScimSpec == ScimInit /\ [][ScimNext]_scimVars

-------------------------------------------------------------------------------
(* A secret that was handed out and written authenticates until its id is  *)
(* revoked, through restarts, rotations on every process, and rotations    *)
(* that failed to write: the lock of a process covers the count and the    *)
(* write, and the count does not skip what memory has forgotten.  Two ways *)
(* of the code to replace a stored secret are excepted: two processes that *)
(* rotate at once may count the same id, and a rotation without the        *)
(* catalog may guess, from the counter, an id that is not the next.        *)
IssuedTokenWorks ==
    ~(overlapped \/ guessed) => \A i \in issued :
        (i.written /\ ~token[i.id].revoked) => Authenticates(i.secret)

(* "restart-safe account-scoped listing ... and revocation": what a        *)
(* process lists, it can revoke.  The code does not keep this, so no run   *)
(* checks it: a token issued by another process, or before a restart, is   *)
(* listed from the catalog, but revoke_token looks it up in memory.        *)
ListedIsRevocable ==
    \A n \in Nodes, id \in Ids : (tokenLock[n] = 0 /\ Listed(id)) => Revocable(n, id)

(* "Deactivation immediately marks the SCIM user inactive, persists the    *)
(* lifecycle state": a request answered with an inactive user stored it.   *)
(* The code does not keep this, so no run checks it: a write the index on  *)
(* names refuses is logged and answered as if it had been stored.          *)
DeactivationPersists ==
    (reply # NoHandler /\ ~reply.active)
        => (user[reply.id] # Gone /\ ~user[reply.id].active)
===============================================================================
