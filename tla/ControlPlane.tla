------------------------------ MODULE ControlPlane ------------------------------
(***************************************************************************)
(* The control plane of opensnow-server (auth.rs) on the catalog           *)
(* (opensnow-catalog): accounts, organizations, workspaces and what they   *)
(* own, entitled warehouses, and the audit log of each account.  Every     *)
(* request opens a catalog handle of its own (and the migrations write) and*)
(* runs one statement after the other; a crash, or an error, leaves the    *)
(* statements that are done.                                               *)
(* A hash is the sequence of what went into it: no two inputs collide.     *)
(***************************************************************************)
EXTENDS Naturals, FiniteSets, Sequences, SequencesExt

CONSTANTS Accounts,    \* one organization and workspace each from bootstrap
          Slugs,       \* further organizations and workspaces by name
          Joined,      \* <<a, slug, b>>: the name of account b is a_slug
          Calls,       \* requests in flight
          WarehouseNames, Limit, \* an entitlement's warehouses
          Entitlements, \* what activations bring along
          MaxLog,      \* bound: rows of the audit log
          MaxCalls,    \* bound: requests started
          MaxTampers   \* bound: edits and deletions behind the program's back

VARIABLES resource,    \* control_plane_resources: owner by <<kind, id>>
          activated,   \* account_bootstrap_records
          warehouse,   \* enterprise warehouses: account by name
          log,         \* audit_events, in the order of ids
          call,        \* the statements each request still runs
          started,     \* requests started
          taken,       \* history: organizations whose row changed its account
          raced,       \* history: accounts of which two requests counted at once
          snapshot,    \* requests whose read transaction is still the newest
          tail,        \* the tail hash each request read
          tampers,
          nextRow,     \* AUTOINCREMENT of audit_events
          written      \* history: what each row held, and the row it followed

cpVars == <<resource, activated, warehouse, log, call, started, taken, raced,
            snapshot, tail, tampers, nextRow, written>>

DefaultSlug == "default"
AllSlugs == Slugs \cup {DefaultSlug}
(* An organization is org_account or org_account_slug.  A slug holds no    *)
(* underscore but an account may, so that the two can be one id; the last  *)
(* part of ws_account_slug is always a slug.                               *)
OrgIds == Accounts \X AllSlugs
OrgId(a, slug) == IF \E b \in Accounts : <<a, slug, b>> \in Joined
                  THEN <<CHOOSE b \in Accounts : <<a, slug, b>> \in Joined, DefaultSlug>>
                  ELSE <<a, slug>>
SharedIds == {<<j[3], DefaultSlug>> : j \in Joined}
ResourceIds == {"account", "organization", "workspace", "export"} \X OrgIds
               \cup {"binding"} \X ({"any"} \X Slugs)

(* One export per organization; a binding or client may bring any id.      *)
NewId(kind, a, org, slug) ==
    CASE kind = "export" -> org
      [] kind = "binding" -> <<"any", slug>>
      [] OTHER -> <<a, slug>>

Owner(a, org) == [account |-> a, org |-> org]
Nobody == [account |-> "nobody"]

Put(kind, id, a, org) == [op |-> "put", key |-> <<kind, id>>, owner |-> Owner(a, org)]
Audit(a, body) == [op |-> "audit", account |-> a, body |-> body]
Insert(name, a) == [op |-> "insert", name |-> name, account |-> a]

ASSUME CpAssumption == /\ Accounts # {} /\ "nobody" \notin Accounts
                       /\ Joined \subseteq Accounts \X Slugs \X Accounts
                       /\ IsFiniteSet(WarehouseNames) /\ Limit \in Nat

CpInit == /\ resource = [k \in ResourceIds |-> Nobody]
          /\ activated = {} /\ warehouse = [w \in WarehouseNames |-> "nobody"]
          /\ log = <<[id |-> 0, account |-> CHOOSE a \in Accounts : TRUE,
                       body |-> "legacy", prev |-> <<>>, hash |-> <<>>]>>
          /\ call = [c \in Calls |-> <<>>] /\ started = 0
          /\ taken = {} /\ raced = {}
          /\ snapshot = {} /\ tail = [c \in Calls |-> <<>>]
          /\ tampers = 0 /\ nextRow = 1
          /\ written = <<>>

\* Opening a handle writes, which makes every older read transaction stale.
Fresh(c) == /\ call[c] = <<>> /\ started < MaxCalls
            /\ started' = started + 1
            /\ snapshot' = {}
StatementsWait == UNCHANGED <<resource, activated, warehouse, log, taken, tail, tampers,
                              nextRow, written>>
Quiet == StatementsWait /\ UNCHANGED raced
Next1(c) == Head(call[c])
Runs(c, op) == call[c] # <<>> /\ Next1(c).op = op
Drop(c) == call' = [call EXCEPT ![c] = Tail(@)]

-------------------------------------------------------------------------------
\* Requests.  An actor of another account is refused, and that is audited.

May(actor, a, glass) == actor = a \/ glass
Denied(a) == <<Audit(a, "denied")>>

Main(a) == <<a, DefaultSlug>>

\* Mutant: the workspace is stored before the organization it lies in.
CreateAccount_WorkspaceFirst(c, a) ==
    /\ Fresh(c)
    /\ call' = [call EXCEPT ![c] =
          <<[op |-> "bootstrap", account |-> a],
            Put("account", Main(a), a, Main(a)),
            Put("workspace", Main(a), a, Main(a)),
            Put("organization", Main(a), a, Main(a)),
            Audit(a, "allowed")>>]
    /\ Quiet

(* create_account_control_plane: break-glass administrators only.          *)
CreateAccount(c, a) ==
    /\ Fresh(c)
    /\ call' = [call EXCEPT ![c] =
          <<[op |-> "bootstrap", account |-> a],
            Put("account", Main(a), a, Main(a)),
            Put("organization", Main(a), a, Main(a)),
            Put("workspace", Main(a), a, Main(a)),
            Audit(a, "allowed")>>]
    /\ Quiet

(* create_organization_control_plane does not look the account up.         *)
CreateOrganization(c, actor, a, slug, glass) ==
    /\ Fresh(c)
    /\ call' = [call EXCEPT ![c] =
          IF May(actor, a, glass)
          THEN <<Put("organization", OrgId(a, slug), a, OrgId(a, slug)), Audit(a, "allowed")>>
          ELSE Denied(a)]
    /\ Quiet

(* create_workspace_... and create_org_resource_... read the organization  *)
(* first, and answer 404 without it; so do the next two.                   *)
CreateUnderOrganization(c, actor, kind, org, slug, glass) ==
    LET owner == resource[<<"organization", org>>].account IN
    /\ Fresh(c) /\ owner # Nobody.account
    /\ call' = [call EXCEPT ![c] =
          IF May(actor, owner, glass)
          THEN <<Put(kind, NewId(kind, owner, org, slug), owner, org), Audit(owner, "allowed")>>
          ELSE Denied(owner)]
    /\ Quiet

UpsertAuditExport(c, actor, org, glass) ==
    CreateUnderOrganization(c, actor, "export", org, DefaultSlug, glass)

(* Reading it writes nothing, unless the refusal is audited.               *)
GetAuditExport(c, actor, org, glass) ==
    LET owner == resource[<<"organization", org>>].account IN
    /\ Fresh(c) /\ owner # Nobody.account
    /\ call' = [call EXCEPT ![c] = IF May(actor, owner, glass) THEN <<>> ELSE Denied(owner)]
    /\ Quiet

(* create_workspace_resource... and create_workspace_service_client...     *)
CreateUnderWorkspace(c, actor, ws, slug, glass) ==
    LET owner == resource[<<"workspace", ws>>] IN
    /\ Fresh(c) /\ owner # Nobody
    /\ call' = [call EXCEPT ![c] =
          IF May(actor, owner.account, glass)
          THEN <<Put("binding", <<"any", slug>>, owner.account, owner.org),
                 Audit(owner.account, "allowed")>>
          ELSE Denied(owner.account)]
    /\ Quiet

(* Activations need an entitlement, and audit why there is none.           *)
Entitled(e) == e = "good"
DenialReason(e) ==
    CASE e = "none" -> "missing_entitlement"
      [] e = "inactive" -> "inactive_entitlement"
      [] e = "partial" -> "missing_feature"
      [] e = "foreign" -> "identity_mismatch"
      [] OTHER -> "denied"
AuditActivation(a, outcome) == <<Audit(a, outcome)>>

(* register_enterprise_account, for an owner whose address has an @.       *)
RegisterEnterprise(c, a, entitlement) ==
    /\ Fresh(c)
    /\ call' = [call EXCEPT ![c] =
          IF Entitled(entitlement)
          THEN <<[op |-> "bootstrap", account |-> a]>> \o AuditActivation(a, "allowed")
          ELSE AuditActivation(a, DenialReason(entitlement))]
    /\ Quiet

(* create_enterprise_warehouse: count, decide, insert, audit.              *)
CountWarehouses(a) == Cardinality({w \in WarehouseNames : warehouse[w] = a})
Inserting(c, a) == Runs(c, "insert") /\ Next1(c).account = a
CreateWarehouse(c, a, name, entitlement) ==
    LET allowed == Entitled(entitlement) /\ CountWarehouses(a) + 1 <= Limit IN
    /\ Fresh(c)
    /\ call' = [call EXCEPT ![c] =
          IF allowed THEN <<Insert(name, a)>> \o AuditActivation(a, "allowed")
          ELSE AuditActivation(a, DenialReason(entitlement))]
    /\ raced' = IF allowed /\ \E d \in Calls : Inserting(d, a) THEN raced \cup {a} ELSE raced
    /\ StatementsWait

-------------------------------------------------------------------------------
\* Statements.  A write makes every older read transaction stale.

Commits == snapshot' = {}
Other == UNCHANGED <<log, started, raced, tail, tampers, nextRow, written>>

RunBootstrap(c) ==
    /\ Runs(c, "bootstrap")
    /\ activated' = activated \cup {Next1(c).account}
    /\ Drop(c) /\ Commits
    /\ UNCHANGED <<resource, taken, warehouse>> /\ Other

(* ON CONFLICT(resource_type, id): the owner is overwritten.               *)
TakenOver(key, owner) == /\ key[1] = "organization"
                         /\ resource[key].account \notin {Nobody.account, owner.account}
RunPut(c) ==
    LET put == Next1(c) IN
    /\ Runs(c, "put")
    /\ resource' = [resource EXCEPT ![put.key] = put.owner]
    /\ taken' = IF TakenOver(put.key, put.owner) THEN taken \cup {put.key[2]} ELSE taken
    /\ Drop(c) /\ Commits
    /\ UNCHANGED <<activated, warehouse>> /\ Other

(* warehouses.name is UNIQUE: the error ends the call.                     *)
RunInsert(c) ==
    LET name == Next1(c).name IN
    /\ Runs(c, "insert")
    /\ IF warehouse[name] = "nobody"
       THEN /\ warehouse' = [warehouse EXCEPT ![name] = Next1(c).account]
            /\ Drop(c) /\ Commits
       ELSE /\ call' = [call EXCEPT ![c] = <<>>]
            /\ UNCHANGED <<warehouse, snapshot>>
    /\ UNCHANGED <<resource, taken, activated>> /\ Other

(* append_audit_event: the transaction reads the tail ...                  *)
Own(a) == {i \in DOMAIN log : log[i].account = a}
LastRows(a) == IF Own(a) = {} THEN {[id |-> 0, hash |-> <<>>]}
               ELSE {log[i] : i \in {j \in Own(a) : \A k \in Own(a) : k <= j}}
ReadTail(c) ==
    /\ Runs(c, "audit") /\ nextRow <= MaxLog
    /\ call' = [call EXCEPT ![c] = [call[c] EXCEPT ![1] = [Next1(c) EXCEPT !.op = "append"]]]
    /\ snapshot' = snapshot \cup {c}
    /\ \E row \in LastRows(Next1(c).account) : tail' = [tail EXCEPT ![c] = row.hash]
    /\ UNCHANGED <<resource, activated, warehouse, started, log, taken, raced, tampers, nextRow,
                   written>>

(* ... and inserts, unless another handle has written since: SQLite then   *)
(* refuses the upgrade, and the event is lost (control plane) or the call  *)
(* fails (activations).                                                    *)
EntryHash(prev, a, body) == Append(prev, <<a, body>>)
AppendRow(c) ==
    /\ Runs(c, "append")
    /\ IF c \in snapshot
       THEN LET a == Next1(c).account  body == Next1(c).body IN
            /\ log' = Append(log, [id |-> nextRow, account |-> a, body |-> body,
                                   prev |-> tail[c], hash |-> EntryHash(tail[c], a, body)])
            /\ \E row \in LastRows(a) :
                 written' = Append(written, [body |-> body, after |-> row.id])
            /\ nextRow' = nextRow + 1
            /\ Commits
       ELSE UNCHANGED <<log, written, nextRow, snapshot>>
    /\ Drop(c)
    /\ tail' = [tail EXCEPT ![c] = <<>>]
    /\ UNCHANGED <<resource, activated, warehouse, started, taken, raced, tampers>>

Crash(c) ==
    /\ call[c] # <<>>
    /\ call' = [call EXCEPT ![c] = <<>>]
    /\ snapshot' = snapshot \ {c}
    /\ tail' = [tail EXCEPT ![c] = <<>>]
    /\ UNCHANGED <<resource, activated, warehouse, started, log, taken, raced, tampers, nextRow,
                   written>>

(* An UPDATE or DELETE of a row by someone else than the program.          *)
Tamper(i, edit) ==
    /\ tampers < MaxTampers /\ i \in DOMAIN log
    /\ log' = IF edit THEN [log EXCEPT ![i].body = "edited"] ELSE RemoveAt(log, i)
    /\ tampers' = tampers + 1
    /\ Commits
    /\ UNCHANGED <<resource, activated, warehouse, call, started, taken, raced, tail, nextRow,
                   written>>

Hashed(a) == {i \in Own(a) : log[i].hash # <<>>}
HashHolds(i) == log[i].hash = EntryHash(log[i].prev, log[i].account, log[i].body)
Follows(a, i, j) == i < j /\ \A k \in Hashed(a) : ~(i < k /\ k < j)

\* Mutant: the link to the row before is not compared.
VerifyAuditChain_NoLinks(a) == \A i \in Hashed(a) : HashHolds(i)

(* verify_audit_chain: rows without a hash are skipped, and the first one  *)
(* with a hash may follow anything.                                        *)
VerifyAuditChain(a) ==
    /\ \A i \in Hashed(a) : HashHolds(i)
    /\ \A i, j \in Hashed(a) : Follows(a, i, j) => log[j].prev = log[i].hash

CpNext ==
    \E c \in Calls :
      \/ \E a \in Accounts : CreateAccount(c, a)
      \/ \E actor \in Accounts, glass \in BOOLEAN :
           \/ \E a \in Accounts, slug \in Slugs : CreateOrganization(c, actor, a, slug, glass)
           \/ \E org \in OrgIds, slug \in Slugs, kind \in {"workspace", "binding"} :
                CreateUnderOrganization(c, actor, kind, org, slug, glass)
           \/ \E org \in OrgIds : \/ UpsertAuditExport(c, actor, org, glass)
                                 \/ GetAuditExport(c, actor, org, glass)
           \/ \E ws \in OrgIds, slug \in Slugs : CreateUnderWorkspace(c, actor, ws, slug, glass)
      \/ \E a \in Accounts, entitlement \in Entitlements :
           \/ RegisterEnterprise(c, a, entitlement)
           \/ \E name \in WarehouseNames : CreateWarehouse(c, a, name, entitlement)
      \/ RunBootstrap(c) \/ RunPut(c) \/ RunInsert(c)
      \/ ReadTail(c) \/ AppendRow(c) \/ Crash(c)
      \/ \E i \in 1 .. MaxLog, edit \in BOOLEAN : Tamper(i, edit)

CpSpec == CpInit /\ [][CpNext]_cpVars

-------------------------------------------------------------------------------
(* Whatever crashed or interleaved, a workspace, binding or export lies    *)
(* under an organization that is stored.  It belongs to the same account,  *)
(* unless another account has overwritten it since, which takes an account *)
(* whose name is that of the other, an underscore and the slug.            *)
OwnerChain ==
    /\ \A k \in ResourceIds :
         (k[1] \in {"workspace", "binding", "export"} /\ resource[k] # Nobody) =>
           LET org == resource[<<"organization", resource[k].org>>] IN
           /\ org # Nobody
           /\ org.account = resource[k].account \/ resource[k].org \in taken
    /\ taken \subseteq SharedIds

(* An account has no more warehouses than its entitlement allows, unless   *)
(* two requests counted them before either had stored its own.             *)
WithinLimit == \A a \in Accounts \ raced : CountWarehouses(a) <= Limit

(* What an account has is its own, and no more than it may have (the       *)
(* handlers look up, check, write and audit in separate statements).       *)
HoldingsStand == OwnerChain /\ WithinLimit

(* What handles append concurrently always verifies, and a log that        *)
(* verifies holds every row as it was written, each right after the row it *)
(* followed when it was appended: an edit, or a deletion between two rows, *)
(* does not go unnoticed.                                                  *)
VerifiedIsGenuine ==
    /\ tampers = 0 => \A a \in Accounts : VerifyAuditChain(a)
    /\ \A a \in Accounts : VerifyAuditChain(a) =>
         /\ \A i \in Hashed(a) : log[i].body = written[log[i].id].body
         /\ \A i, j \in Hashed(a) : Follows(a, i, j) => written[log[j].id].after = log[i].id
===============================================================================
