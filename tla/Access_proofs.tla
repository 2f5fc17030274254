---------------------------- MODULE Access_proofs ----------------------------
(***************************************************************************)
(* Proofs about who may come in and what agents do then: the sealed secret *)
(* store (SecretStore), single sign-on (SsoLogin), the SCIM directory      *)
(* (ScimDirectory), the MCP server with its issuers (McpGateway), the      *)
(* agents' tools (AgentTools), and the service clients with their bearer   *)
(* tokens (Identity), for any number of each of them.                      *)
(***************************************************************************)
EXTENDS SecretStore, SsoLogin, Identity, ScimDirectory, McpGateway, AgentTools,
        FiniteSetTheorems, SequenceTheorems, TLAPS

-------------------------------------------------------------------------------
\* The sealed secret store.

(* Fields of a call that is under way have their types.                    *)
LEMMA CallTyped ==
    ASSUME SecretTypeOK, NEW t \in Threads, calls[t] # Idle
    PROVE  calls[t] \in Call
  BY DEF SecretTypeOK

(* A row sealed again is a row.                                            *)
LEMMA SealedTyped ==
    ASSUME SecretTypeOK, NEW x \in Row, NEW s \in Secrets
    PROVE  Sealed(x, s) \in Row
<1>1. current \in DataKeys
  BY DEF SecretTypeOK
<1>2. x.version + 1 \in Nat
  BY DEF Row
<1> QED
  BY <1>1, <1>2 DEF Sealed, Row

(* A reseal_all in progress has listed, has open, or has sealed under the  *)
(* current key every active handle: those created since are sealed under   *)
(* it anyway, because the current key changes only when nobody calls.      *)
Accounted(t) ==
    calls[t] # Idle /\ calls[t].kind = "reseal_all" =>
        \A h \in ActiveHandles :
            \/ rows[h].key = current
            \/ h \in calls[t].todo
            \/ calls[t].phase # "next" /\ calls[t].handle = h

SecretInv == /\ SecretTypeOK
             /\ \A t \in Threads : Accounted(t)
             /\ RetireSafe

-------------------------------------------------------------------------------
\* Types.

\* Initially every variable of the store has its type.
LEMMA SecretTypeInit == ASSUME SecretInit PROVE SecretTypeOK
<1>1. (CHOOSE s \in Secrets : TRUE) \in Secrets
  BY SecretAssumption
<1> QED
  BY <1>1 DEF SecretInit, SecretTypeOK, DataKeys

\* Every step of the store preserves the types.
LEMMA SecretTypeStep == ASSUME SecretTypeOK, [SecretNext]_secretVars PROVE SecretTypeOK'
<1> USE DEF SecretTypeOK
<1>1. CASE UNCHANGED secretVars
  BY <1>1 DEF secretVars
<1>2. ASSUME NEW k \in DataKeys, NEW promote \in BOOLEAN, AddKey(k, promote)
      PROVE  SecretTypeOK'
  BY <1>2 DEF AddKey
<1>3. ASSUME NEW k \in DataKeys, SetCurrentKey(k) PROVE SecretTypeOK'
  BY <1>3 DEF SetCurrentKey
<1>4. CASE Reopen
  BY <1>4 DEF Reopen, DataKeys
<1>5. ASSUME NEW h \in Handles, RevokeSecret(h) PROVE SecretTypeOK'
  <2>1. rows[h] \in Row
    BY <1>5 DEF RevokeSecret
  <2>2. [rows[h] EXCEPT !.state = "revoked"] \in Row
    BY <2>1 DEF Row
  <2> QED
    BY <1>5, <2>2 DEF RevokeSecret
<1>6. ASSUME NEW t \in Threads, NEW h \in Handles, NEW s \in Secrets, CreateSecret(t, h, s)
      PROVE  SecretTypeOK'
  <2>1. [state |-> "active", version |-> 1, secret |-> s, key |-> current] \in Row
    BY DEF Row
  <2> QED
    BY <1>6, <2>1 DEF CreateSecret
<1>7. ASSUME NEW t \in Threads, NEW h \in Handles, NEW s \in Secrets, BeginRotate(t, h, s)
      PROVE  SecretTypeOK'
  BY <1>7 DEF BeginRotate, Call
<1>8. ASSUME NEW t \in Threads, NEW kind \in {"reseal", "reseal_all"},
             NEW hs \in SUBSET Handles, BeginReseal(t, kind, hs)
      PROVE  SecretTypeOK'
  <2>1. (CHOOSE h \in hs : TRUE) \in Handles
    BY <1>8 DEF BeginReseal
  <2> QED
    BY <1>8, <2>1 DEF BeginReseal, Call
<1>9. ASSUME NEW t \in Threads, OpenNext(t) PROVE SecretTypeOK'
  <2>1. calls[t] \in Call
    BY <1>9, CallTyped DEF OpenNext
  <2>2. PICK h \in calls[t].todo : OpenNext(t)!2!(h)
    BY <1>9 DEF OpenNext
  <2>3. h \in Handles
    BY <2>1, <2>2 DEF Call
  <2>4. CASE Readable(h)
    <3>1. rows[h] \in Row
      BY <2>3, <2>4 DEF Readable, NoRow
    <3>2. calls' = [calls EXCEPT ![t] =
                      [@ EXCEPT !.phase = "opened", !.handle = h,
                                !.secret = rows[h].secret, !.todo = calls[t].todo \ {h}]]
      BY <2>2, <2>4
    <3>3. [calls[t] EXCEPT !.phase = "opened", !.handle = h,
                           !.secret = rows[h].secret, !.todo = calls[t].todo \ {h}] \in Call
      BY <2>1, <2>3, <3>1 DEF Call, Row
    <3> QED
      BY <1>9, <3>2, <3>3 DEF OpenNext
  <2>5. CASE ~Readable(h)
    BY <1>9, <2>2, <2>5 DEF OpenNext, Return
  <2> QED
    BY <2>4, <2>5
<1>10. ASSUME NEW t \in Threads, CheckAgain(t) PROVE SecretTypeOK'
  <2>1. calls[t] \in Call
    BY <1>10, CallTyped DEF CheckAgain
  <2> QED
    BY <1>10, <2>1 DEF CheckAgain, Return, Call
<1>11. ASSUME NEW t \in Threads, WriteRow(t) PROVE SecretTypeOK'
  <2>1. calls[t] \in Call
    BY <1>11, CallTyped DEF WriteRow
  <2>2. calls' \in [Threads -> Call \cup {Idle}]
    BY <1>11, <2>1 DEF WriteRow, Call
  <2>3. CASE rows[calls[t].handle].state = "active"
    <3>1. rows[calls[t].handle] \in Row
      BY <2>1, <2>3 DEF Call, NoRow
    <3>2. Sealed(rows[calls[t].handle], calls[t].secret) \in Row
      BY <2>1, <3>1, SealedTyped DEF Call
    <3> QED
      <4>1. rows' = [rows EXCEPT ![calls[t].handle] =
                        Sealed(rows[calls[t].handle], calls[t].secret)]
        BY <1>11, <2>3 DEF WriteRow, Sealed
      <4>2. lastSet' \in [Handles -> Secrets]
        BY <1>11, <2>1, <2>3 DEF WriteRow, Call
      <4> QED
        BY <1>11, <2>2, <3>2, <4>1, <4>2 DEF WriteRow
  <2>4. CASE rows[calls[t].handle].state # "active"
    BY <1>11, <2>2, <2>4 DEF WriteRow
  <2> QED
    BY <2>3, <2>4
<1>12. ASSUME NEW t \in Threads, Finish(t) PROVE SecretTypeOK'
  BY <1>12 DEF Finish, Return
<1>13. ASSUME NEW t \in Threads,
              \/ \E h \in Handles : BeginReseal(t, "reseal", {h})
              \/ BeginReseal(t, "reseal_all", ActiveHandles)
       PROVE  SecretTypeOK'
  <2>1. ActiveHandles \in SUBSET Handles
    BY DEF ActiveHandles
  <2>2. ASSUME NEW h \in Handles PROVE {h} \in SUBSET Handles
    OBVIOUS
  <2> QED
    BY <1>8, <1>13, <2>1, <2>2
<1> QED
  BY <1>1, <1>2, <1>3, <1>4, <1>5, <1>6, <1>7, <1>9, <1>10, <1>11, <1>12, <1>13
  DEF SecretNext

(* Every reachable state of the store, its calls and its key ring is well  *)
(* typed, and the current key is in the ring (current_key).                *)
THEOREM SecretsTyped == SecretSpec => []SecretTypeOK
  BY SecretTypeInit, SecretTypeStep, PTL DEF SecretSpec

-------------------------------------------------------------------------------
\* Revocation.

(* A row that is revoked is only ever written by another revocation, which *)
(* leaves it as it is: an INSERT needs a free handle, an UPDATE an active. *)
LEMMA RevokedStep ==
    ASSUME SecretTypeOK, [SecretNext]_secretVars PROVE RevokedStays
<1> SUFFICES ASSUME NEW g \in Handles, rows[g].state = "revoked" PROVE rows'[g] = rows[g]
  BY DEF RevokedStays
<1>0. rows[g] \in Row
  BY DEF SecretTypeOK, NoRow
<1>1. CASE UNCHANGED secretVars
  BY <1>1 DEF secretVars
<1>2. ASSUME NEW h \in Handles, RevokeSecret(h) PROVE rows'[g] = rows[g]
  <2>1. [rows[g] EXCEPT !.state = "revoked"] = rows[g]
    BY <1>0 DEF Row
  <2> QED
    BY <1>2, <2>1 DEF RevokeSecret, SecretTypeOK
<1>3. ASSUME NEW t \in Threads, NEW h \in Handles, NEW s \in Secrets, CreateSecret(t, h, s)
      PROVE  rows'[g] = rows[g]
  BY <1>0, <1>3 DEF CreateSecret, NoRow, SecretTypeOK
<1>4. ASSUME NEW t \in Threads, WriteRow(t) PROVE rows'[g] = rows[g]
  BY <1>4 DEF WriteRow, SecretTypeOK
<1>5. ASSUME UNCHANGED rows PROVE rows'[g] = rows[g]
  BY <1>5
<1> QED
  BY <1>1, <1>2, <1>3, <1>4, <1>5 DEF SecretNext, AddKey, SetCurrentKey, Reopen,
     BeginRotate, BeginReseal, OpenNext, CheckAgain, Finish

(* A revoked handle is never written again, whatever rotations and reseals *)
(* were under way when it was revoked (rotate_secret, reseal_secret).      *)
THEOREM RevocationFinal == SecretSpec => RevokedIsFinal
<1>1. SecretTypeOK /\ [SecretNext]_secretVars => [RevokedStays]_secretVars
  BY RevokedStep
<1> QED
  BY <1>1, SecretsTyped, PTL DEF SecretSpec, RevokedIsFinal

-------------------------------------------------------------------------------
\* Retiring keys.

(* The part of SecretInv that a step has to keep, without the types.       *)
Sound == (\A t \in Threads : Accounted(t)) /\ RetireSafe

\* Initially the store is sound: it holds no row.
LEMMA SoundInit == ASSUME SecretInit PROVE Sound
  BY DEF SecretInit, Sound, Accounted, RetireSafe, Idle

\* Every step of the store preserves its soundness.
LEMMA SoundStep == ASSUME SecretTypeOK, Sound, [SecretNext]_secretVars PROVE Sound'
<1>1. CASE UNCHANGED secretVars
  BY <1>1 DEF secretVars, Sound, Accounted, RetireSafe, ActiveHandles
<1>2. ASSUME NEW k \in DataKeys, NEW promote \in BOOLEAN, AddKey(k, promote) PROVE Sound'
  BY <1>2 DEF AddKey, AllIdle, Sound, Accounted, RetireSafe, ActiveHandles, SecretTypeOK
<1>3. ASSUME NEW k \in DataKeys, SetCurrentKey(k) PROVE Sound'
  BY <1>3 DEF SetCurrentKey, AllIdle, Sound, Accounted, RetireSafe, ActiveHandles
<1>4. CASE Reopen
  BY <1>4 DEF Reopen, Sound, Accounted, RetireSafe
<1>5. ASSUME NEW h \in Handles, RevokeSecret(h) PROVE Sound'
  <2>1. \A g \in ActiveHandles' : g \in ActiveHandles /\ rows'[g] = rows[g]
    BY <1>5 DEF RevokeSecret, ActiveHandles, SecretTypeOK
  <2> QED
    BY <1>5, <2>1 DEF RevokeSecret, Sound, Accounted, RetireSafe
<1>6. ASSUME NEW t \in Threads, NEW h \in Handles, NEW s \in Secrets, CreateSecret(t, h, s)
      PROVE  Sound'
  <2>1. \A g \in ActiveHandles' : rows'[g].key = current
                                  \/ (g \in ActiveHandles /\ rows'[g] = rows[g])
    BY <1>6 DEF CreateSecret, ActiveHandles, SecretTypeOK
  <2> QED
    BY <1>6, <2>1 DEF CreateSecret, Sound, Accounted, RetireSafe
<1>7. ASSUME NEW t \in Threads, NEW h \in Handles, NEW s \in Secrets, BeginRotate(t, h, s)
      PROVE  Sound'
  <2>1. calls'[t].kind = "rotate" /\ \A u \in Threads \ {t} : calls'[u] = calls[u]
    BY <1>7 DEF BeginRotate, SecretTypeOK
  <2> QED
    BY <1>7, <2>1 DEF BeginRotate, Sound, Accounted, RetireSafe, ActiveHandles
<1>8. ASSUME NEW t \in Threads, NEW kind, NEW hs, BeginReseal(t, kind, hs) PROVE Sound'
  <2>1. /\ calls'[t].kind = kind /\ calls'[t].todo = hs
        /\ \A u \in Threads \ {t} : calls'[u] = calls[u]
    BY <1>8 DEF BeginReseal, SecretTypeOK
  <2>2. kind = "reseal_all" => hs = ActiveHandles
    BY <1>8 DEF BeginReseal
  <2> QED
    BY <1>8, <2>1, <2>2 DEF BeginReseal, Sound, Accounted, RetireSafe, ActiveHandles
<1>9. ASSUME NEW t \in Threads, OpenNext(t) PROVE Sound'
  <2>1. PICK h \in calls[t].todo : OpenNext(t)!2!(h)
    BY <1>9 DEF OpenNext
  <2>2. UNCHANGED <<ring, current, rows, lastSet, migrated>> /\ calls[t].phase = "next"
    BY <1>9 DEF OpenNext
  <2>3. calls[t] \in Call
    BY <1>9, CallTyped DEF OpenNext
  <2>4. CASE Readable(h)
    <3>1. calls'[t] = [calls[t] EXCEPT !.phase = "opened", !.handle = h,
                           !.secret = rows[h].secret, !.todo = calls[t].todo \ {h}]
      BY <2>1, <2>4 DEF SecretTypeOK
    <3>2. /\ calls'[t].phase = "opened" /\ calls'[t].handle = h
          /\ calls'[t].todo = calls[t].todo \ {h} /\ calls'[t].kind = calls[t].kind
      BY <2>3, <3>1 DEF Call
    <3>3. \A u \in Threads \ {t} : calls'[u] = calls[u]
      BY <2>1, <2>4 DEF SecretTypeOK
    <3> QED
      BY <1>9, <2>2, <3>2, <3>3 DEF OpenNext, Sound, Accounted, RetireSafe, ActiveHandles
  <2>5. CASE ~Readable(h)
    <3>1. calls'[t] = Idle /\ \A u \in Threads \ {t} : calls'[u] = calls[u]
      BY <2>1, <2>5 DEF Return, SecretTypeOK
    <3> QED
      BY <2>2, <3>1 DEF Sound, Accounted, RetireSafe, ActiveHandles
  <2> QED
    BY <2>4, <2>5
<1>10. ASSUME NEW t \in Threads, CheckAgain(t) PROVE Sound'
  <2>1. calls[t] \in Call
    BY <1>10, CallTyped DEF CheckAgain
  <2>2. \A u \in Threads \ {t} : calls'[u] = calls[u]
    BY <1>10 DEF CheckAgain, Return, SecretTypeOK
  <2>3. CASE rows[calls[t].handle].state = "active"
    <3>1. calls'[t] = [calls[t] EXCEPT !.phase = "write"]
      BY <1>10, <2>3 DEF CheckAgain, SecretTypeOK
    <3>2. /\ calls'[t].phase = "write" /\ calls'[t].handle = calls[t].handle
          /\ calls'[t].todo = calls[t].todo /\ calls'[t].kind = calls[t].kind
      BY <2>1, <3>1 DEF Call
    <3> QED
      BY <1>10, <2>2, <3>2 DEF CheckAgain, Sound, Accounted, RetireSafe, ActiveHandles
  <2>4. CASE rows[calls[t].handle].state # "active"
    <3>1. calls'[t] = Idle
      BY <1>10, <2>4 DEF CheckAgain, Return, SecretTypeOK
    <3> QED
      BY <1>10, <2>2, <3>1 DEF CheckAgain, Sound, Accounted, RetireSafe, ActiveHandles
  <2> QED
    BY <2>3, <2>4
<1>11. ASSUME NEW t \in Threads, WriteRow(t) PROVE Sound'
  <2>1. calls[t] \in Call
    BY <1>11, CallTyped DEF WriteRow
  <2>2. \A u \in Threads \ {t} : calls'[u] = calls[u]
    BY <1>11 DEF WriteRow, SecretTypeOK
  <2>3. calls'[t] = [calls[t] EXCEPT !.phase = "next"]
    BY <1>11 DEF WriteRow, SecretTypeOK
  <2>4. calls'[t].todo = calls[t].todo /\ calls'[t].kind = calls[t].kind
    BY <2>1, <2>3 DEF Call
  <2>5. current' = current /\ migrated' = migrated
    BY <1>11 DEF WriteRow
  <2>6. CASE rows[calls[t].handle].state = "active"
    <3>1. rows[calls[t].handle] \in Row
      BY <2>1, <2>6 DEF SecretTypeOK, Call, NoRow
    <3>2. Sealed(rows[calls[t].handle], calls[t].secret).key = current
      BY <3>1 DEF Sealed, Row
    <3>3. /\ rows'[calls[t].handle] = Sealed(rows[calls[t].handle], calls[t].secret)
          /\ \A g \in Handles \ {calls[t].handle} : rows'[g] = rows[g]
      BY <1>11, <2>1, <2>6 DEF WriteRow, SecretTypeOK, Call
    <3>4. \A g \in ActiveHandles' :
              \/ rows'[g].key = current
              \/ g # calls[t].handle /\ g \in ActiveHandles /\ rows'[g] = rows[g]
      BY <3>2, <3>3 DEF ActiveHandles
    <3> QED
      BY <1>11, <2>1, <2>2, <2>4, <2>5, <3>4 DEF WriteRow, Sound, Accounted, RetireSafe
  <2>7. CASE rows[calls[t].handle].state # "active"
    <3>1. rows' = rows /\ calls[t].handle \notin ActiveHandles
      BY <1>11, <2>7 DEF WriteRow, ActiveHandles
    <3>2. ActiveHandles' = ActiveHandles /\ RetireSafe'
      BY <2>5, <3>1 DEF Sound, RetireSafe, ActiveHandles
    <3>3. Accounted(t)'
      BY <1>11, <2>4, <2>5, <3>1, <3>2 DEF WriteRow, Sound, Accounted
    <3>4. ASSUME NEW u \in Threads, u # t PROVE Accounted(u)'
      BY <2>2, <2>5, <3>1, <3>2, <3>4 DEF Sound, Accounted
    <3> QED
      BY <3>2, <3>3, <3>4 DEF Sound
  <2> QED
    BY <2>6, <2>7
<1>12. ASSUME NEW t \in Threads, Finish(t) PROVE Sound'
  <2>1. calls'[t] = Idle /\ \A u \in Threads \ {t} : calls'[u] = calls[u]
    BY <1>12 DEF Finish, Return, SecretTypeOK
  <2>2. calls[t].kind = "reseal_all" => \A h \in ActiveHandles : rows[h].key = current
    BY <1>12 DEF Finish, Sound, Accounted
  <2>3. rows' = rows /\ current' = current /\ migrated' = (migrated \/ calls[t].kind = "reseal_all")
    BY <1>12 DEF Finish, Return
  <2>4. ActiveHandles' = ActiveHandles
    BY <2>3 DEF ActiveHandles
  <2>5. RetireSafe'
    BY <2>2, <2>3, <2>4 DEF Sound, RetireSafe
  <2>6. ASSUME NEW u \in Threads PROVE Accounted(u)'
    BY <2>1, <2>3, <2>4, <2>6 DEF Sound, Accounted
  <2> QED
    BY <2>5, <2>6 DEF Sound
<1> QED
  BY <1>1, <1>2, <1>3, <1>4, <1>5, <1>6, <1>7, <1>8, <1>9, <1>10, <1>11, <1>12 DEF SecretNext

(* After a reseal_all that returned Ok every active handle is sealed under *)
(* the current key, for any number of threads that create, rotate, revoke  *)
(* and reseal meanwhile (reseal_all, with_rotated_key).                    *)
THEOREM KeysRetire == SecretSpec => []RetireSafe
<1>1. SecretInit => SecretInv
  BY SecretTypeInit, SoundInit DEF SecretInv, Sound
<1>2. SecretInv /\ [SecretNext]_secretVars => SecretInv'
  BY SecretTypeStep, SoundStep DEF SecretInv, Sound
<1>3. SecretInv => RetireSafe
  BY DEF SecretInv
<1> QED
  BY <1>1, <1>2, <1>3, PTL DEF SecretSpec

-------------------------------------------------------------------------------
\* Single sign-on.

(* What a configuration may say of a connection.                           *)
Flags == {cfg.enabled : cfg \in Configs} \cup {cfg.oidc : cfg \in Configs}
IssuerNames == {cfg.issuer : cfg \in Configs}
AllowLists == {cfg.allows : cfg \in Configs}
HandleNames == {cfg.handle : cfg \in Configs} \cup {NoSecret}

Connection == [row : {"idp"}, enabled : Flags, oidc : Flags, issuer : IssuerNames,
               allows : AllowLists, handle : HandleNames]
Transaction == [row : {"tx"}, conn : Conns, consumed : BOOLEAN]
Session == [row : {"session"}, conn : Conns, email : Emails, roles : SUBSET SsoRoles,
            from : LoginStates, live : BOOLEAN]

(* A callback by how far it is.                                            *)
Exchanging == [phase : {"exchange"}, state : LoginStates, conn : Conns,
               issuer : IssuerNames, handle : HandleNames]
Claimed == [phase : {"claims"}, state : LoginStates, issuer : IssuerNames, email : Emails,
            groups : SUBSET Groups, verified : BOOLEAN, nonce : LoginStates]
Opened == [phase : {"opened", "matched"}, state : LoginStates, conn : Conns,
           issuer : IssuerNames, email : Emails, groups : SUBSET Groups]
Checked == [phase : {"checked", "user", "session"}, state : LoginStates, conn : Conns,
            email : Emails, roles : SUBSET SsoRoles]

SsoTypeOK ==
    /\ idp \in [Conns -> Connection \cup {Absent}]
    /\ secret \in [Conns -> ClientSecrets \cup {NoSecret}]
    /\ mapping \in [Conns -> SUBSET (Groups \X SsoRoles)]
    /\ tx \in [LoginStates -> Transaction \cup {Absent}]
    /\ cb \in [Callbacks -> Exchanging \cup Claimed \cup Opened \cup Checked \cup {Waiting}]
    /\ session \in [Sessions -> Session \cup {Absent}]
    /\ userRole \in [Emails -> SUBSET SsoRoles]
    /\ epoch \in [Conns -> Nat]

(* Every row with a foreign key has its connection: sessions that have     *)
(* ended too, which the property does not speak of.                        *)
RowsHaveConnection ==
    /\ \A i \in Sessions : Exists(session[i]) => Exists(idp[session[i].conn])
    /\ \A s \in LoginStates : Exists(tx[s]) => Exists(idp[tx[s].conn])
    /\ \A c \in Conns : mapping[c] # {} => Exists(idp[c])

-------------------------------------------------------------------------------
\* Types.

\* Initially every variable of the sign-on has its type.
LEMMA SsoTypeInit == ASSUME SsoInit PROVE SsoTypeOK
  BY DEF SsoInit, SsoTypeOK

(* A callback in a phase has the fields of that phase.                     *)
LEMMA PhaseFields ==
    ASSUME SsoTypeOK, NEW w \in Callbacks, cb[w] # Waiting
    PROVE  /\ cb[w].phase = "exchange" => cb[w] \in Exchanging
           /\ cb[w].phase = "claims" => cb[w] \in Claimed
           /\ cb[w].phase \in {"opened", "matched"} => cb[w] \in Opened
           /\ cb[w].phase \in {"checked", "user", "session"} => cb[w] \in Checked
<1>1. cb[w] \in Exchanging \/ cb[w] \in Claimed \/ cb[w] \in Opened \/ cb[w] \in Checked
  BY DEF SsoTypeOK
<1> QED
  BY <1>1 DEF Exchanging, Claimed, Opened, Checked

\* What an administrator does preserves the types.
LEMMA AdminType ==
    ASSUME SsoTypeOK, NEW c \in Conns, AdminRequest(c) \/ DeleteConnection(c)
    PROVE  SsoTypeOK'
<1> USE DEF SsoTypeOK
<1>1. ASSUME NEW v \in ClientSecrets, StoreClientSecret(c, v) PROVE SsoTypeOK'
  BY <1>1 DEF StoreClientSecret
<1>2. ASSUME NEW cfg \in Configs, UpsertConnection(c, cfg) PROVE SsoTypeOK'
  <2>1. /\ cfg.enabled \in Flags /\ cfg.oidc \in Flags /\ cfg.issuer \in IssuerNames
        /\ cfg.allows \in AllowLists /\ cfg.handle \in HandleNames
    BY DEF Flags, IssuerNames, AllowLists, HandleNames
  <2>2. NoSecret \in HandleNames
    BY DEF HandleNames
  <2>3. Exists(idp[c]) => idp[c].handle \in HandleNames
    BY DEF Exists, Connection
  <2> QED
    BY <1>2, <2>1, <2>2, <2>3 DEF UpsertConnection, Connection
<1>3. ASSUME NEW g \in Groups, NEW r \in SsoRoles, UpsertMapping(c, g, r) PROVE SsoTypeOK'
  BY <1>3 DEF UpsertMapping
<1>4. ASSUME NEW m, DeleteMapping(c, m) PROVE SsoTypeOK'
  BY <1>4 DEF DeleteMapping
<1>5. CASE DeleteConnection(c)
  BY <1>5 DEF DeleteConnection, CascadeDelete
<1> QED
  BY <1>1, <1>2, <1>3, <1>4, <1>5 DEF AdminRequest

\* What a callback does preserves the types.
LEMMA CallbackType ==
    ASSUME SsoTypeOK, NEW w \in Callbacks, SsoCallback(w) PROVE SsoTypeOK'
<1> USE DEF SsoTypeOK
<1>1. ASSUME NEW s \in LoginStates, ReceiveCallback(w, s) PROVE SsoTypeOK'
  <2>1. tx[s] \in Transaction
    BY <1>1 DEF ReceiveCallback, PendingLogin, Exists
  <2>2. PICK c \in Conns : c = tx[s].conn
    BY <2>1 DEF Transaction
  <2>3. idp[c] \in Connection
    BY <1>1, <2>2 DEF ReceiveCallback, Exists
  <2>4. [phase |-> "exchange", state |-> s, conn |-> c, issuer |-> idp[c].issuer,
         handle |-> idp[c].handle] \in Exchanging
    BY <2>3 DEF Connection, Exchanging
  <2> QED
    BY <1>1, <2>2, <2>4 DEF ReceiveCallback
<1>2. ASSUME NEW e \in Emails, NEW gs \in SUBSET Groups, NEW v \in BOOLEAN,
             NEW n \in LoginStates, Exchange(w, e, gs, v, n)
      PROVE  SsoTypeOK'
  <2>1. cb[w] \in Exchanging
    BY <1>2, PhaseFields DEF Exchange
  <2>2. [phase |-> "claims", state |-> cb[w].state, issuer |-> cb[w].issuer, email |-> e,
         groups |-> gs, verified |-> v, nonce |-> n] \in Claimed
    BY <2>1 DEF Exchanging, Claimed
  <2> QED
    BY <1>2, <2>2 DEF Exchange, Fail
<1>3. CASE ReadTransaction(w)
  <2>1. cb[w] \in Claimed
    BY <1>3, PhaseFields DEF ReadTransaction
  <2>2. CASE PendingLogin(cb[w].state) /\ cb[w].nonce = cb[w].state /\ cb[w].verified
    <3>1. tx[cb[w].state] \in Transaction
      BY <2>1, <2>2 DEF PendingLogin, Exists, Claimed
    <3>2. [phase |-> "opened", state |-> cb[w].state, conn |-> tx[cb[w].state].conn,
           issuer |-> cb[w].issuer, email |-> cb[w].email, groups |-> cb[w].groups] \in Opened
      BY <2>1, <3>1 DEF Claimed, Transaction, Opened
    <3> QED
      BY <1>3, <2>2, <3>2 DEF ReadTransaction
  <2>3. CASE ~(PendingLogin(cb[w].state) /\ cb[w].nonce = cb[w].state /\ cb[w].verified)
    BY <1>3, <2>3 DEF ReadTransaction, Fail
  <2> QED
    BY <2>2, <2>3
<1>4. CASE ReadConnection(w)
  <2>1. cb[w] \in Opened
    BY <1>4, PhaseFields DEF ReadConnection
  <2>2. [cb[w] EXCEPT !.phase = "matched"] \in Opened
    BY <2>1 DEF Opened
  <2> QED
    BY <1>4, <2>2 DEF ReadConnection, Fail
<1>5. CASE ReadMappings(w)
  <2>1. cb[w] \in Opened
    BY <1>5, PhaseFields DEF ReadMappings
  <2>2. mapping[cb[w].conn] \in SUBSET (Groups \X SsoRoles)
    BY <2>1 DEF Opened
  <2>3. MappedRoles(cb[w].conn, cb[w].groups) \in SUBSET SsoRoles
    BY <2>2 DEF MappedRoles
  <2>4. [phase |-> "checked", state |-> cb[w].state, conn |-> cb[w].conn, email |-> cb[w].email,
         roles |-> MappedRoles(cb[w].conn, cb[w].groups)] \in Checked
    BY <2>1, <2>3 DEF Opened, Checked
  <2> QED
    BY <1>5, <2>4 DEF ReadMappings
<1>6. CASE ConsumeState(w)
  <2>1. cb[w] \in Checked
    BY <1>6, PhaseFields DEF ConsumeState
  <2>2. [cb[w] EXCEPT !.phase = "user"] \in Checked
    BY <2>1 DEF Checked
  <2>3. Exists(tx[cb[w].state]) => [tx[cb[w].state] EXCEPT !.consumed = TRUE] \in Transaction
    BY <2>1 DEF Checked, Exists, Transaction
  <2> QED
    BY <1>6, <2>2, <2>3 DEF ConsumeState
<1>7. CASE UpsertUser(w)
  <2>1. cb[w] \in Checked
    BY <1>7, PhaseFields DEF UpsertUser
  <2>2. [cb[w] EXCEPT !.phase = "session"] \in Checked /\ cb[w].roles \in SUBSET SsoRoles
    BY <2>1 DEF Checked
  <2> QED
    BY <1>7, <2>2 DEF UpsertUser
<1>8. ASSUME NEW i \in Sessions, CreateSession(w, i) PROVE SsoTypeOK'
  <2>1. cb[w] \in Checked
    BY <1>8, PhaseFields DEF CreateSession
  <2>2. [row |-> "session", conn |-> cb[w].conn, email |-> cb[w].email, roles |-> cb[w].roles,
         from |-> cb[w].state, live |-> TRUE] \in Session
    BY <2>1 DEF Checked, Session
  <2> QED
    BY <1>8, <2>2 DEF CreateSession, Fail
<1> QED
  BY <1>1, <1>2, <1>3, <1>4, <1>5, <1>6, <1>7, <1>8 DEF SsoCallback, CompleteLogin

\* Every step of the sign-on preserves the types.
LEMMA SsoTypeStep == ASSUME SsoTypeOK, [SsoNext]_ssoVars PROVE SsoTypeOK'
<1>1. CASE UNCHANGED ssoVars
  BY <1>1 DEF ssoVars, SsoTypeOK
<1>2. ASSUME NEW c \in Conns, NEW s \in LoginStates, StartLogin(c, s) PROVE SsoTypeOK'
  BY <1>2 DEF StartLogin, SsoTypeOK, Transaction
<1>3. ASSUME NEW i \in Sessions, EndSession(i) PROVE SsoTypeOK'
  <2>1. [session[i] EXCEPT !.live = FALSE] \in Session
    BY <1>3 DEF EndSession, Exists, SsoTypeOK, Session
  <2> QED
    BY <1>3, <2>1 DEF EndSession, SsoTypeOK
<1>4. ASSUME NEW e \in Emails, NEW s \in LoginStates, SsoLoginRequest(e, s) PROVE SsoTypeOK'
  BY <1>2, <1>4 DEF SsoLoginRequest, ConnectionFor
<1> QED
  BY <1>1, <1>3, <1>4, AdminType, CallbackType DEF SsoNext

(* Every reachable state of the connections, transactions, callbacks and   *)
(* sessions is well typed.                                                 *)
THEOREM SsoTyped == SsoSpec => []SsoTypeOK
  BY SsoTypeInit, SsoTypeStep, PTL DEF SsoSpec

-------------------------------------------------------------------------------
\* Nothing outlives its connection.

\* Initially no login is pending.
LEMMA SsoRowsInit == ASSUME SsoInit PROVE RowsHaveConnection
  BY DEF SsoInit, RowsHaveConnection, Exists

(* While no connection goes away, rows that are there keep theirs.         *)
LEMMA ConnectionsStay ==
    ASSUME SsoTypeOK, RowsHaveConnection,
           \A c \in Conns : Exists(idp[c]) => Exists(idp'[c]),
           \A i \in Sessions : Exists(session'[i]) =>
               \/ Exists(session[i]) /\ session'[i].conn = session[i].conn
               \/ session'[i].conn \in Conns /\ Exists(idp[session'[i].conn]),
           \A s \in LoginStates : Exists(tx'[s]) =>
               \/ Exists(tx[s]) /\ tx'[s].conn = tx[s].conn
               \/ tx'[s].conn \in Conns /\ Exists(idp[tx'[s].conn]),
           \A c \in Conns : mapping'[c] # {} => mapping[c] # {} \/ Exists(idp[c])
    PROVE  RowsHaveConnection'
<1>1. \A i \in Sessions : Exists(session[i]) => session[i].conn \in Conns
  BY DEF SsoTypeOK, Session, Exists
<1>2. \A s \in LoginStates : Exists(tx[s]) => tx[s].conn \in Conns
  BY DEF SsoTypeOK, Transaction, Exists
<1> QED
  BY <1>1, <1>2 DEF RowsHaveConnection

\* When each new row has a connection, every row still has one.
LEMMA SsoRowsStep ==
    ASSUME SsoTypeOK, RowsHaveConnection, [SsoNext]_ssoVars PROVE RowsHaveConnection'
<1>1. CASE UNCHANGED <<idp, mapping, tx, session>>
  BY <1>1 DEF RowsHaveConnection
<1>2. ASSUME NEW c \in Conns, NEW cfg \in Configs, UpsertConnection(c, cfg)
      PROVE  RowsHaveConnection'
  <2>1. \A d \in Conns : Exists(idp[d]) => Exists(idp'[d])
    BY <1>2 DEF UpsertConnection, Exists, Absent, SsoTypeOK
  <2> QED
    BY <1>2, <2>1, ConnectionsStay DEF UpsertConnection
<1>3. ASSUME NEW c \in Conns, NEW g \in Groups, NEW r \in SsoRoles, UpsertMapping(c, g, r)
      PROVE  RowsHaveConnection'
  BY <1>3, ConnectionsStay DEF UpsertMapping, SsoTypeOK
<1>4. ASSUME NEW c \in Conns, NEW m, DeleteMapping(c, m) PROVE RowsHaveConnection'
  BY <1>4, ConnectionsStay DEF DeleteMapping, SsoTypeOK
<1>5. ASSUME NEW c \in Conns, DeleteConnection(c) PROVE RowsHaveConnection'
  <2>1. \A d \in Conns \ {c} : idp'[d] = idp[d] /\ mapping'[d] = mapping[d]
    BY <1>5 DEF DeleteConnection, SsoTypeOK
  <2>2. mapping'[c] = {}
    BY <1>5 DEF DeleteConnection, SsoTypeOK
  <2>3. \A s \in LoginStates : Exists(tx'[s]) => tx'[s] = tx[s] /\ tx[s].conn \in Conns \ {c}
    BY <1>5 DEF DeleteConnection, CascadeDelete, SsoTypeOK, Transaction, Exists
  <2>4. \A i \in Sessions :
            Exists(session'[i]) => session'[i] = session[i] /\ session[i].conn \in Conns \ {c}
    BY <1>5 DEF DeleteConnection, CascadeDelete, SsoTypeOK, Session, Exists
  <2> QED
    BY <2>1, <2>2, <2>3, <2>4 DEF RowsHaveConnection
<1>6. ASSUME NEW c \in Conns, NEW s \in LoginStates, StartLogin(c, s)
      PROVE  RowsHaveConnection'
  <2>1. tx'[s].conn = c /\ \A o \in LoginStates \ {s} : tx'[o] = tx[o]
    BY <1>6 DEF StartLogin, SsoTypeOK
  <2> QED
    BY <1>6, <2>1, ConnectionsStay DEF StartLogin
<1>7. ASSUME NEW e \in Emails, NEW s \in LoginStates, SsoLoginRequest(e, s)
      PROVE  RowsHaveConnection'
  BY <1>6, <1>7 DEF SsoLoginRequest, ConnectionFor
<1>8. ASSUME NEW w \in Callbacks, ConsumeState(w) PROVE RowsHaveConnection'
  <2>1. cb[w] \in Checked
    BY <1>8, PhaseFields DEF ConsumeState
  <2>2. \A s \in LoginStates :
            Exists(tx'[s]) => Exists(tx[s]) /\ tx'[s].conn = tx[s].conn
    BY <1>8, <2>1 DEF ConsumeState, Checked, SsoTypeOK, Transaction, Exists
  <2> QED
    BY <1>8, <2>2, ConnectionsStay DEF ConsumeState
<1>9. ASSUME NEW w \in Callbacks, NEW i \in Sessions, CreateSession(w, i)
      PROVE  RowsHaveConnection'
  <2>1. cb[w].conn \in Conns
    BY <1>9, PhaseFields DEF CreateSession, Checked
  <2>2. \A k \in Sessions \ {i} : session'[k] = session[k]
    BY <1>9 DEF CreateSession, SsoTypeOK
  <2>3. \/ session'[i] = session[i]
        \/ session'[i].conn = cb[w].conn /\ Exists(idp[cb[w].conn])
    <3>1. CASE Exists(idp[cb[w].conn])
      <4>1. session' = [session EXCEPT ![i] = [row |-> "session", conn |-> cb[w].conn,
                           email |-> cb[w].email, roles |-> cb[w].roles,
                           from |-> cb[w].state, live |-> TRUE]]
        BY <1>9, <3>1 DEF CreateSession
      <4>2. i \in DOMAIN session
        BY DEF SsoTypeOK
      <4> QED
        BY <3>1, <4>1, <4>2
    <3>2. CASE ~Exists(idp[cb[w].conn])
      BY <1>9, <3>2 DEF CreateSession
    <3> QED
      BY <3>1, <3>2
  <2> QED
    BY <1>9, <2>1, <2>2, <2>3, ConnectionsStay DEF CreateSession
<1>10. ASSUME NEW i \in Sessions, EndSession(i) PROVE RowsHaveConnection'
  <2>1. session[i] \in Session
    BY <1>10 DEF EndSession, Exists, SsoTypeOK
  <2>2. \A k \in Sessions : Exists(session'[k]) =>
            Exists(session[k]) /\ session'[k].conn = session[k].conn
    BY <1>10, <2>1 DEF EndSession, SsoTypeOK, Session, Exists
  <2> QED
    BY <1>10, <2>2, ConnectionsStay DEF EndSession
<1>11. ASSUME NEW w \in Callbacks, SsoCallback(w) PROVE RowsHaveConnection'
  BY <1>1, <1>8, <1>9, <1>11 DEF SsoCallback, CompleteLogin, ReceiveCallback, Exchange,
     ReadTransaction, ReadConnection, ReadMappings, UpsertUser
<1>12. ASSUME NEW c \in Conns, AdminRequest(c) PROVE RowsHaveConnection'
  BY <1>1, <1>2, <1>3, <1>4, <1>12 DEF AdminRequest, StoreClientSecret
<1> QED
  BY <1>1, <1>5, <1>7, <1>10, <1>11, <1>12 DEF SsoNext, ssoVars

(* Whatever a deletion interleaves with, no session, transaction or        *)
(* mapping outlives its connection (complete_oidc_login, the foreign keys  *)
(* of apply_sso_schema).                                                   *)
THEOREM ConnectionsOwn == SsoSpec => []NothingOutlivesConnection
<1>1. SsoTypeOK /\ RowsHaveConnection /\ [SsoNext]_ssoVars => RowsHaveConnection'
  BY SsoRowsStep
<1>2. RowsHaveConnection => NothingOutlivesConnection
  BY DEF RowsHaveConnection, NothingOutlivesConnection, AcceptsSession
<1> QED
  BY <1>1, <1>2, SsoRowsInit, SsoTyped, PTL DEF SsoSpec

-------------------------------------------------------------------------------
\* The SCIM tokens.

USE ScimAssumption

TokenRow == [stored : {TRUE}, secret : Nat, revoked : BOOLEAN]

ScimTypeOK ==
    /\ token \in [Ids -> TokenRow \cup {Gone}]
    /\ tokenLock \in [Nodes -> 0 .. MaxId]
    /\ IsFiniteSet(issued)
    /\ issued \subseteq [id : Ids, secret : Nat, written : BOOLEAN]
    /\ overlapped \in BOOLEAN /\ guessed \in BOOLEAN

(* k tokens are stored, under the first ids, and a rotation under way will *)
(* write the next one.                                                     *)
InTurn(k, t, lock) ==
    /\ \A i \in Ids : t[i] # Gone <=> i <= k
    /\ \A n \in Nodes : lock[n] \in {0, k + 1}

(* One rotation at a time, and every written secret is under its id.       *)
TakesTurns(t, lock, handed) ==
    /\ \E k \in 0 .. MaxId : InTurn(k, t, lock)
    /\ \A m, n \in Nodes : lock[m] # 0 /\ lock[n] # 0 => m = n
    /\ \A i \in handed : i.written => t[i.id] # Gone /\ t[i.id].secret = i.secret

InOrder == ~(overlapped \/ guessed)
ScimInv == ScimTypeOK /\ (InOrder => TakesTurns(token, tokenLock, issued))

\* The invariant is strong enough: a token that is stored, and not revoked,
\* authenticates.
LEMMA ScimInvHolds == ASSUME ScimInv PROVE IssuedTokenWorks
<1> SUFFICES ASSUME InOrder, NEW i \in issued, i.written, ~token[i.id].revoked
             PROVE  Authenticates(i.secret)
  BY DEF IssuedTokenWorks, InOrder
<1>1. i.id \in Ids /\ DOMAIN token = Ids
  BY DEF ScimInv, ScimTypeOK
<1>2. token[i.id] # Gone /\ token[i.id].secret = i.secret
  BY DEF ScimInv, TakesTurns
<1> QED
  BY <1>1, <1>2 DEF Authenticates, Stored

\* No token has been issued.
LEMMA ScimInitInv == ASSUME ScimInit PROVE ScimInv
<1>1. ScimTypeOK
  <2>1. 0 \in 0 .. MaxId
    OBVIOUS
  <2> QED
    BY <2>1, FS_EmptySet DEF ScimInit, ScimTypeOK
<1>2. TakesTurns(token, tokenLock, issued)
  <2>1. InTurn(0, token, tokenLock)
    BY DEF ScimInit, InTurn, Ids
  <2> QED
    BY <2>1 DEF ScimInit, TakesTurns
<1> QED
  BY <1>1, <1>2 DEF ScimInv

\* While the processes take turns, the next id is the one after those stored.
LEMMA NextInTurn ==
    ASSUME ScimTypeOK, NEW k \in 0 .. MaxId, InTurn(k, token, tokenLock)
    PROVE  NextId(token) = k + 1
<1>1. Stored(token) = 1 .. k
  <2>1. DOMAIN token = Ids
    BY DEF ScimTypeOK
  <2>2. \A i \in Ids : token[i] # Gone <=> i <= k
    BY DEF InTurn
  <2>3. 1 .. k = {i \in Ids : i <= k}
    BY DEF Ids
  <2> QED
    BY <2>1, <2>2, <2>3 DEF Stored
<1>2. Cardinality(1 .. k) = k
  BY FS_Interval
<1> QED
  BY <1>1, <1>2 DEF NextId

\* A rotation takes its lock and an id, which is the next or a guess.
LEMMA TakeIdStep ==
    ASSUME ScimInv, NEW n \in Nodes, NEW x, TakeId(n, x), guessed' \in BOOLEAN,
           ~guessed' => ~guessed /\ x = NextId(token)
    PROVE  ScimInv'
<1>1. /\ tokenLock[n] = 0 /\ UNCHANGED <<token, issued>>
      /\ overlapped' = (overlapped \/ Overlaps(n))
      /\ x \in Ids /\ tokenLock' = [tokenLock EXCEPT ![n] = x]
  BY DEF TakeId
<1>2. ScimTypeOK'
  <2>1. x \in 0 .. MaxId
    BY <1>1 DEF Ids
  <2>2. overlapped' \in BOOLEAN
    BY <1>1, Zenon DEF ScimInv, ScimTypeOK, Overlaps
  <2> QED
    BY <1>1, <2>1, <2>2 DEF ScimInv, ScimTypeOK
<1>3. ASSUME InOrder' PROVE TakesTurns(token, tokenLock', issued)
  <2>1. InOrder /\ x = NextId(token) /\ \A m \in Nodes \ {n} : tokenLock[m] = 0
    BY <1>1, <1>3 DEF Overlaps, InOrder
  <2>2. PICK k \in 0 .. MaxId : InTurn(k, token, tokenLock)
    BY <2>1 DEF ScimInv, TakesTurns
  <2>3. x = k + 1
    BY <2>1, <2>2, NextInTurn DEF ScimInv
  <2>4. \A m \in Nodes : tokenLock'[m] = IF m = n THEN x ELSE tokenLock[m]
    BY <1>1 DEF ScimInv, ScimTypeOK
  <2>5. InTurn(k, token, tokenLock')
    BY <2>2, <2>3, <2>4 DEF InTurn
  <2>6. \A m, o \in Nodes : tokenLock'[m] # 0 /\ tokenLock'[o] # 0 => m = o
    BY <2>1, <2>4
  <2> QED
    BY <2>1, <2>5, <2>6 DEF ScimInv, TakesTurns
<1> QED
  BY <1>1, <1>2, <1>3 DEF ScimInv

\* A rotation that counts takes the next id; one that does not says it guessed.
LEMMA RotateReadStep == ASSUME ScimInv, NEW n \in Nodes, RotateRead(n) PROVE ScimInv'
<1>1. guessed \in BOOLEAN
  BY DEF ScimInv, ScimTypeOK
<1>2. CASE TakeId(n, NextId(token)) /\ UNCHANGED <<scimFaults, guessed>>
  BY <1>1, <1>2, TakeIdStep
<1>3. CASE /\ TakeId(n, counter[n] + 1)
           /\ guessed' = (guessed \/ counter[n] + 1 # NextId(token))
  <2>1. guessed' \in BOOLEAN
    BY <1>1, <1>3, Zenon
  <2>2. ~guessed' => ~guessed /\ counter[n] + 1 = NextId(token)
    BY <1>3, Zenon
  <2> QED
    BY <1>3, <2>1, <2>2, TakeIdStep
<1> QED
  BY <1>2, <1>3 DEF RotateRead

\* A rotation writes the token whose id it read, or fails to, and releases its
\* lock.
LEMMA RotateWriteStep == ASSUME ScimInv, NEW n \in Nodes, RotateWrite(n) PROVE ScimInv'
<1>1. PICK id \in 0 .. MaxId : id = tokenLock[n] /\ id # 0
  BY DEF ScimInv, ScimTypeOK, RotateWrite
<1>2. id \in Ids
  BY <1>1 DEF Ids
<1>3. PICK s \in Nat : s = Cardinality(issued) + 1
  BY FS_CardinalityType DEF ScimInv, ScimTypeOK
<1>4. PICK u \in TokenRow : u = UpsertToken(token[id], s) /\ (token[id] = Gone => u.secret = s)
  <2>1. CASE token[id] = Gone
    <3>1. [stored |-> TRUE, secret |-> s, revoked |-> FALSE] \in TokenRow
      BY DEF TokenRow
    <3> QED
      BY <2>1, <3>1 DEF UpsertToken
  <2>2. CASE token[id] # Gone
    <3>1. token[id] \in TokenRow
      BY <1>2, <2>2 DEF ScimInv, ScimTypeOK
    <3>2. [token[id] EXCEPT !.secret = s] \in TokenRow
      BY <3>1 DEF TokenRow
    <3> QED
      BY <2>2, <3>2 DEF UpsertToken
  <2> QED
    BY <2>1, <2>2
<1>5. PICK w \in BOOLEAN :
        /\ token' = IF w THEN [token EXCEPT ![id] = u] ELSE token
        /\ issued' = issued \cup {[id |-> id, secret |-> s, written |-> w]}
  BY <1>1, <1>3, <1>4 DEF RotateWrite
<1>6. tokenLock' = [tokenLock EXCEPT ![n] = 0] /\ UNCHANGED <<overlapped, guessed>>
  BY DEF RotateWrite
<1>7. ScimTypeOK'
  <2>1. IsFiniteSet(issued')
    BY <1>5, FS_AddElement DEF ScimInv, ScimTypeOK
  <2>2. issued' \subseteq [id : Ids, secret : Nat, written : BOOLEAN]
    BY <1>2, <1>5 DEF ScimInv, ScimTypeOK
  <2>3. token' \in [Ids -> TokenRow \cup {Gone}]
    BY <1>2, <1>5 DEF ScimInv, ScimTypeOK
  <2>4. tokenLock' \in [Nodes -> 0 .. MaxId]
    <3>1. 0 \in 0 .. MaxId
      OBVIOUS
    <3> QED
      BY <1>6, <3>1 DEF ScimInv, ScimTypeOK
  <2> QED
    BY <1>6, <2>1, <2>2, <2>3, <2>4 DEF ScimInv, ScimTypeOK
<1>8. ASSUME InOrder PROVE TakesTurns(token', tokenLock', issued')
  <2>1. PICK k \in 0 .. MaxId : InTurn(k, token, tokenLock)
    BY <1>8 DEF ScimInv, TakesTurns
  <2>2. id = k + 1 /\ token[id] = Gone /\ k + 1 \in 0 .. MaxId
    BY <1>1, <1>2, <2>1 DEF InTurn
  <2>3. \A m \in Nodes : tokenLock'[m] = 0
    <3>1. \A m \in Nodes \ {n} : tokenLock[m] = 0
      BY <1>1, <1>8 DEF ScimInv, TakesTurns
    <3> QED
      BY <1>6, <3>1 DEF ScimInv, ScimTypeOK
  <2>4. \A i \in Ids : token'[i] = IF w /\ i = id THEN u ELSE token[i]
    BY <1>5 DEF ScimInv, ScimTypeOK
  <2>5. u # Gone /\ u.secret = s
    BY <1>4, <2>2 DEF TokenRow, Gone
  <2>6. \E j \in 0 .. MaxId : InTurn(j, token', tokenLock')
    <3>1. \A i \in Ids : token[i] # Gone <=> i <= k
      BY <2>1 DEF InTurn
    <3>2. CASE ~w
      BY <2>3, <2>4, <3>1, <3>2 DEF InTurn
    <3>3. CASE w
      <4>1. \A i \in Ids : i <= k + 1 <=> i <= k \/ i = k + 1
        BY DEF Ids
      <4>2. \A i \in Ids : token'[i] # Gone <=> i <= k + 1
        BY <2>2, <2>4, <2>5, <3>1, <3>3, <4>1
      <4>3. InTurn(k + 1, token', tokenLock')
        BY <2>3, <4>2 DEF InTurn
      <4> QED
        BY <2>2, <4>3
    <3> QED
      BY <3>2, <3>3
  <2>7. ASSUME NEW i \in issued', i.written
        PROVE  token'[i.id] # Gone /\ token'[i.id].secret = i.secret
    <3>1. CASE i \in issued
      <4>1. i.id \in Ids /\ token[i.id] # Gone /\ token[i.id].secret = i.secret
        BY <1>8, <2>7, <3>1 DEF ScimInv, ScimTypeOK, TakesTurns
      <4> QED
        BY <2>2, <2>4, <4>1
    <3>2. CASE i = [id |-> id, secret |-> s, written |-> w]
      BY <1>2, <2>4, <2>5, <2>7, <3>2
    <3> QED
      BY <1>5, <2>7, <3>1, <3>2
  <2> QED
    BY <2>3, <2>6, <2>7 DEF TakesTurns
<1> QED
  BY <1>6, <1>7, <1>8 DEF ScimInv, InOrder

\* A revocation keeps the row and its secret, whether it is written or not.
LEMMA RevokeTokenStep ==
    ASSUME ScimInv, NEW n \in Nodes, NEW id \in Ids, RevokeToken(n, id) PROVE ScimInv'
<1>1. token[id] # Gone /\ UNCHANGED <<tokenLock, issued, overlapped, guessed>>
  BY DEF RevokeToken, Revocable
<1>2. PICK r \in TokenRow : r = token[id]
  BY <1>1 DEF ScimInv, ScimTypeOK
<1>3. PICK u \in TokenRow : u = [r EXCEPT !.revoked = TRUE] /\ u.secret = r.secret
  <2>1. [r EXCEPT !.revoked = TRUE] \in TokenRow
    BY DEF TokenRow
  <2>2. [r EXCEPT !.revoked = TRUE].secret = r.secret
    BY DEF TokenRow
  <2> QED
    BY <2>1, <2>2
<1>4. PICK w \in TokenRow :
        token' = [token EXCEPT ![id] = w] /\ w.secret = r.secret
  <2>1. CASE token' = [token EXCEPT ![id].revoked = TRUE]
    BY <1>2, <1>3, <2>1
  <2>2. CASE token' = token
    <3>1. token' = [token EXCEPT ![id] = r]
      BY <1>2, <2>2 DEF ScimInv, ScimTypeOK
    <3> QED
      BY <3>1
  <2> QED
    BY <2>1, <2>2 DEF RevokeToken
<1>5. \A i \in Ids : token'[i] = IF i = id THEN w ELSE token[i]
  BY <1>4 DEF ScimInv, ScimTypeOK
<1>6. w # Gone
  BY DEF TokenRow, Gone
<1>7. ScimTypeOK'
  BY <1>1, <1>4 DEF ScimInv, ScimTypeOK
<1>8. ASSUME InOrder PROVE TakesTurns(token', tokenLock, issued)
  <2>1. PICK k \in 0 .. MaxId : InTurn(k, token, tokenLock)
    BY <1>8 DEF ScimInv, TakesTurns
  <2>2. InTurn(k, token', tokenLock)
    BY <1>1, <1>5, <1>6, <2>1 DEF InTurn
  <2>3. ASSUME NEW i \in issued, i.written
        PROVE  token'[i.id] # Gone /\ token'[i.id].secret = i.secret
    <3>1. i.id \in Ids /\ token[i.id] # Gone /\ token[i.id].secret = i.secret
      BY <1>8, <2>3 DEF ScimInv, ScimTypeOK, TakesTurns
    <3> QED
      BY <1>2, <1>4, <1>5, <1>6, <3>1
  <2> QED
    BY <1>8, <2>2, <2>3 DEF ScimInv, TakesTurns
<1> QED
  BY <1>1, <1>7, <1>8 DEF ScimInv, InOrder

\* The end of a process releases its lock; the catalog stays.
LEMMA RestartStep == ASSUME ScimInv, NEW n \in Nodes, Restart(n) PROVE ScimInv'
<1>1. UNCHANGED <<token, issued, overlapped, guessed>> /\ tokenLock' = [tokenLock EXCEPT ![n] = 0]
  BY DEF Restart
<1>2. \A m \in Nodes : tokenLock'[m] \in {0, tokenLock[m]}
  BY <1>1 DEF ScimInv, ScimTypeOK
<1>3. ScimTypeOK'
  <2>1. 0 \in 0 .. MaxId
    OBVIOUS
  <2> QED
    BY <1>1, <2>1 DEF ScimInv, ScimTypeOK
<1>4. ASSUME InOrder PROVE TakesTurns(token, tokenLock', issued)
  <2>1. PICK k \in 0 .. MaxId : InTurn(k, token, tokenLock)
    BY <1>4 DEF ScimInv, TakesTurns
  <2>2. InTurn(k, token, tokenLock')
    BY <1>2, <2>1 DEF InTurn
  <2>3. \A m, o \in Nodes : tokenLock'[m] # 0 /\ tokenLock'[o] # 0 => m = o
    BY <1>2, <1>4 DEF ScimInv, TakesTurns
  <2> QED
    BY <1>4, <2>2, <2>3 DEF ScimInv, TakesTurns
<1> QED
  BY <1>1, <1>3, <1>4 DEF ScimInv, InOrder

\* Every step preserves the invariant; users and groups touch no token.
LEMMA ScimStep == ScimInv /\ [ScimNext]_scimVars => ScimInv'
<1> SUFFICES ASSUME ScimInv, [ScimNext]_scimVars PROVE ScimInv'
  OBVIOUS
<1>1. ASSUME UNCHANGED tokenVars PROVE ScimInv'
  BY <1>1 DEF tokenVars, ScimInv, ScimTypeOK, InOrder, TakesTurns, InTurn
<1>2. ASSUME NEW n \in Nodes, TokenRequest(n) PROVE ScimInv'
  <2>1. ASSUME RotateElsewhere(n) PROVE ScimInv'
    BY <2>1 DEF RotateElsewhere, ScimInv, ScimTypeOK, InOrder, TakesTurns, InTurn
  <2> QED
    BY <1>2, <2>1, RotateReadStep, RotateWriteStep, RevokeTokenStep DEF TokenRequest
<1>3. ASSUME NEW n \in Nodes, Restart(n) PROVE ScimInv'
  BY <1>3, RestartStep
<1>4. ASSUME NEW h \in Handlers, CountUsers(h) \/ WriteUser(h) PROVE UNCHANGED tokenVars
  BY <1>4 DEF CountUsers, WriteUser, Unanswered
<1>5. ASSUME NEW h \in Handlers, NEW n \in Nodes, UserRequest(h, n) PROVE UNCHANGED tokenVars
  BY <1>5 DEF UserRequest, PostUser, PutUser, PatchUser, DeleteUser, SetActive, Unanswered
<1>6. ASSUME NEW id \in GroupIds, GroupRequest(id) PROVE UNCHANGED tokenVars
  BY <1>6 DEF GroupRequest, UpsertGroup, TombstoneGroup
<1>7. CASE UNCHANGED scimVars
  BY <1>1, <1>7 DEF scimVars, tokenVars
<1> QED
  BY <1>1, <1>2, <1>3, <1>4, <1>5, <1>6, <1>7 DEF ScimNext

(* For any number of processes and rotations, restarts, revocations and    *)
(* failing statements: as long as no two processes rotated at once and no  *)
(* rotation guessed a wrong id, a secret that was handed out and written   *)
(* authenticates until its id is revoked (rotate_token, revoke_token,      *)
(* authenticate_token).                                                    *)
THEOREM TokensWork == ScimSpec => []IssuedTokenWorks
<1>1. ScimInit => ScimInv
  BY ScimInitInv
<1>2. ScimInv /\ [ScimNext]_scimVars => ScimInv'
  BY ScimStep
<1>3. ScimInv => IssuedTokenWorks
  BY ScimInvHolds
<1> QED
  BY <1>1, <1>2, <1>3, PTL DEF ScimSpec

HIDE ScimAssumption

-------------------------------------------------------------------------------
\* The MCP server and its issuers.

Stages == [Issuers -> 1 .. Len(Plan)]
AStageApart(stages) == \A o, p \in Issuers : stages[o] <= stages[p] + 1

\* What jwks publishes is made of signing keys.
LEMMA PlanTyped ==
    /\ Len(Plan) \in Nat \ {0}
    /\ \A i \in 1 .. Len(Plan) : Plan[i].active \in SigningKeys /\ Jwks(i) \subseteq SigningKeys
<1> DEFINE StageRow == [active : SigningKeys, others : SUBSET SigningKeys, revoked : SUBSET SigningKeys]
<1>1. Plan \in Seq(StageRow) /\ Plan # <<>>
  BY PlanAssumption
<1>2. Len(Plan) \in Nat \ {0}
  BY <1>1, LenProperties, EmptySeq
<1>3. \A i \in 1 .. Len(Plan) : Plan[i] \in StageRow
  BY <1>1, ElementOfSeq
<1>4. ASSUME NEW i \in 1 .. Len(Plan)
      PROVE  Plan[i].active \in SigningKeys /\ Jwks(i) \subseteq SigningKeys
  <2>1. Plan[i] \in StageRow
    BY <1>3
  <2>2. Plan[i].active \in SigningKeys /\ Plan[i].others \subseteq SigningKeys
    BY <2>1
  <2> QED
    BY <2>2 DEF Jwks, KeysOf
<1> QED
  BY <1>2, <1>4

\* A process is restarted only when nobody is behind it.
LEMMA RollOverApart ==
    ASSUME atStage \in Stages, AStageApart(atStage), NEW p \in Issuers, RollOver(p)
    PROVE  atStage' \in Stages /\ AStageApart(atStage')
<1>1. atStage[p] \in 1 .. Len(Plan) /\ atStage[p] < Len(Plan) /\ Len(Plan) \in Nat
  BY PlanTyped DEF Stages, RollOver
<1>2. atStage' = [atStage EXCEPT ![p] = atStage[p] + 1]
  BY DEF RollOver
<1>3. atStage[p] + 1 \in 1 .. Len(Plan)
  BY <1>1
<1>4. atStage' \in Stages
  BY <1>2, <1>3 DEF Stages
<1>5. ASSUME NEW o \in Issuers, NEW q \in Issuers
      PROVE  atStage'[o] <= atStage'[q] + 1
  <2>1. atStage'[o] = (IF o = p THEN atStage[p] + 1 ELSE atStage[o])
        /\ atStage'[q] = (IF q = p THEN atStage[p] + 1 ELSE atStage[q])
    BY <1>2 DEF Stages
  <2>2. atStage[o] \in Nat /\ atStage[q] \in Nat /\ atStage[p] \in Nat
    BY DEF Stages
  <2>3. atStage[o] <= atStage[q] + 1 /\ atStage[p] <= atStage[q]
    BY DEF AStageApart, RollOver
  <2> QED
    BY <2>1, <2>2, <2>3
<1> QED
  BY <1>4, <1>5 DEF AStageApart

\* Whatever else happens leaves the stages alone.
LEMMA StagesStep ==
    ASSUME atStage \in Stages, AStageApart(atStage), [GatewayNext]_gatewayVars
    PROVE  atStage' \in Stages /\ AStageApart(atStage')
<1>1. CASE \E p \in Issuers : RollOver(p)
  BY <1>1, RollOverApart
<1>2. CASE ~\E p \in Issuers : RollOver(p)
  <2>1. atStage' = atStage
    BY <1>2 DEF GatewayNext, gatewayVars, StartCall, VerifyCached, FetchArrives, FetchFails,
                FetchStart, HandleRequest, GrantSelect, RevokeSelect, GatewayTick, Around
  <2> QED
    BY <2>1
<1> QED
  BY <1>1, <1>2

\* A process trusts what it publishes.
LEMMA TrustsPublished == \A i, k : Trusts(i, k) <=> k \in Jwks(i)
  BY DEF Trusts, Jwks

\* With the stages at most one apart, a key is trusted by every process, or
\* has been taken out of the plan by one.
LEMMA ApartKeeps ==
    ASSUME Announced, atStage \in Stages, AStageApart(atStage)
    PROVE  RolloutKeepsTokens
<1> SUFFICES ASSUME NEW p \in Issuers, NEW k \in Minted, ~Trusts(atStage[p], k)
             PROVE  \E i \in DOMAIN Plan : /\ \E o \in Issuers : atStage[o] >= i
                                           /\ \A j \in i .. Len(Plan) : k \notin Jwks(j)
  BY DEF RolloutKeepsTokens
<1>1. PICK j \in 1 .. Len(Plan) : k = Plan[j].active /\ CanSign(j)
                                   /\ \E o \in Issuers : atStage[o] >= j
  BY DEF Minted
<1>2. PICK o \in Issuers : atStage[o] >= j
  BY <1>1
<1>3. DOMAIN Plan = 1 .. Len(Plan) /\ Len(Plan) \in Nat
  BY PlanAssumption, PlanTyped, LenProperties
<1>4. atStage[p] \in 1 .. Len(Plan) /\ atStage[o] \in 1 .. Len(Plan)
      /\ atStage[o] <= atStage[p] + 1
  BY DEF Stages, AStageApart
<1>5. CASE atStage[p] >= j
  <2>1. atStage[p] \in j .. Len(Plan)
    BY <1>4, <1>5, <1>3
  <2>2. \A l \in atStage[p] .. Len(Plan) : k \notin Jwks(l)
    BY <2>1, <1>1, <1>3, TrustsPublished DEF Announced
  <2>3. atStage[p] \in DOMAIN Plan /\ atStage[p] >= atStage[p]
    BY <1>3, <1>4
  <2> QED
    BY <2>2, <2>3
<1>6. CASE ~(atStage[p] >= j)
  <2>1. j > 1 /\ atStage[p] = j - 1
    BY <1>2, <1>3, <1>4, <1>6
  <2>2. Trusts(j - 1, k)
    BY <2>1, <1>1, <1>3, TrustsPublished DEF Announced
  <2> QED
    BY <2>1, <2>2
<1> QED
  BY <1>5, <1>6

(* RolloutKeepsTokens, for every fleet and every plan that announces a key *)
(* a stage before it signs: a token is turned away only when its key has   *)
(* been taken out of the plan, never because the process that signed it    *)
(* and the one that is shown it are a stage apart (jwt.rs validate_token). *)
THEOREM TokensKept == Announced => (GatewaySpec => []RolloutKeepsTokens)
<1> SUFFICES ASSUME Announced PROVE GatewaySpec => []RolloutKeepsTokens
  OBVIOUS
<1> DEFINE I == atStage \in Stages /\ AStageApart(atStage)
<1>1. GatewayInit => I
  BY PlanTyped DEF GatewayInit, Stages, AStageApart
<1>2. I /\ [GatewayNext]_gatewayVars => I'
  BY StagesStep
<1>3. I => RolloutKeepsTokens
  BY ApartKeeps
<1> QED
  BY <1>1, <1>2, <1>3, PTL DEF GatewaySpec

-------------------------------------------------------------------------------
\* What the verifier holds.

KeySets == [keys : SUBSET SigningKeys, at : Nat]
Ended == {NoCall} \cup {Over(e) : e \in {"refused", "forbidden", "queued", "failed",
                                          "unverified", "ran"}}
Underway == [phase : {"gate", "handler"}, key : SigningKeys, use : Purposes, fetch : KeySets]

GatewayTypeOK ==
    /\ now \in Nat /\ now <= MaxTime
    /\ atStage \in Stages
    /\ cache \in KeySets
    /\ call \in [McpCalls -> Ended \cup Underway]
    /\ jobs \in Seq(McpCalls)
    /\ lastOut \in [SigningKeys -> Nat] /\ allSince \in [SigningKeys -> Nat]

(* What is in the channel has been verified, and will not be again.        *)
Handed == {"queued", "ran", "failed"}
InChannel(queue, cl) == \A i \in 1 .. Len(queue) : cl[queue[i]].phase \in Handed

(* The history of what is published, up to the hour.                       *)
Published(stages, hour, last, since) == \A k \in SigningKeys, p \in Issuers :
    /\ k \in Jwks(stages[p]) => last[k] >= hour
    /\ k \notin Jwks(stages[p]) => since[k] = NotAll

(* A key set that was an issuer's at some time: what it has was published  *)
(* then or later, and what it has not was not everywhere then.             *)
Known(keys, at, last, since) == \A k \in SigningKeys :
    /\ k \in keys => last[k] >= at
    /\ k \notin keys => since[k] >= at

(* A key set on its way is at most Lag old.                                *)
OnItsWay(f, hour, last, since) == f # NoCache =>
    f.at <= hour /\ hour <= f.at + Lag /\ Known(f.keys, f.at, last, since)
FetchesKnown(cl, hour, last, since) == \A c \in McpCalls :
    cl[c] \in Underway => OnItsWay(cl[c].fetch, hour, last, since)

(* The cached one was asked for at most Lag before it came.                *)
CacheKnown(held, hour, last, since) == held # NoCache =>
    /\ held.at <= hour
    /\ \E t \in Nat : t <= held.at /\ held.at <= t + Lag /\ Known(held.keys, t, last, since)

GatewayInv ==
    /\ GatewayTypeOK
    /\ InChannel(jobs, call)
    /\ Published(atStage, now, lastOut, allSince)
    /\ FetchesKnown(call, now, lastOut, allSince)
    /\ CacheKnown(cache, now, lastOut, allSince)

USE PlanAssumption

\* The calls under way are those whose token is being verified.
LEMMA UnderwayVerifies ==
    ASSUME GatewayTypeOK, NEW c \in McpCalls
    PROVE  /\ Verifying(c) <=> call[c] \in Underway
           /\ Verifying(c) => call[c].key \in SigningKeys /\ call[c].fetch \in KeySets
                               /\ call[c].use \in Purposes /\ call[c].phase \in {"gate", "handler"}
<1>1. call[c] \in Ended \cup Underway
  BY DEF GatewayTypeOK
<1>2. ASSUME call[c] \in Ended PROVE ~Verifying(c)
  BY <1>2 DEF Ended, NoCall, Over, Verifying
<1>3. ASSUME call[c] \in Underway
      PROVE  Verifying(c) /\ call[c].key \in SigningKeys /\ call[c].fetch \in KeySets
             /\ call[c].use \in Purposes /\ call[c].phase \in {"gate", "handler"}
  BY <1>3 DEF Underway, Verifying
<1> QED
  BY <1>1, <1>2, <1>3

\* A call that is verified to the end is over, whatever it is.
LEMMA EndedIs ==
    \A e \in {"refused", "forbidden", "queued", "failed", "unverified", "ran"} :
        Over(e) \in Ended /\ Over(e).phase = e /\ Over(e) \notin Underway
  BY DEF Ended, Over, Underway

\* No key set that was fetched looks like none.
LEMMA NoCacheTyped == NoCache \in KeySets /\ NoCache.keys = {} /\ NoCache.at = MaxTime + 1
  BY DEF NoCache, KeySets

\* A history that is brought up to date keeps what was known.
LEMMA PublishKeeps ==
    ASSUME NEW hour \in Nat, hour <= MaxTime, NEW stages \in Stages,
           lastOut \in [SigningKeys -> Nat], allSince \in [SigningKeys -> Nat],
           Publish(stages, hour)
    PROVE  /\ lastOut' \in [SigningKeys -> Nat] /\ allSince' \in [SigningKeys -> Nat]
           /\ Published(stages, hour, lastOut', allSince')
           /\ \A keys, at : at \in Nat /\ at <= hour /\ Known(keys, at, lastOut, allSince)
                                => Known(keys, at, lastOut', allSince')
<1>1. NotAll \in Nat /\ NotAll = MaxTime + 1 /\ MaxTime \in Nat
  BY DEF NotAll
<1>2. \A k \in SigningKeys :
         /\ lastOut'[k] = (IF \E p \in Issuers : k \in Jwks(stages[p]) THEN hour ELSE lastOut[k])
         /\ allSince'[k] = (IF \A p \in Issuers : k \in Jwks(stages[p])
                            THEN IF allSince[k] = NotAll THEN hour ELSE allSince[k] ELSE NotAll)
  BY DEF Publish
<1>3. lastOut' \in [SigningKeys -> Nat] /\ allSince' \in [SigningKeys -> Nat]
  BY <1>1 DEF Publish
<1>4. Published(stages, hour, lastOut', allSince')
  <2> SUFFICES ASSUME NEW k \in SigningKeys, NEW p \in Issuers
               PROVE  /\ k \in Jwks(stages[p]) => lastOut'[k] >= hour
                      /\ k \notin Jwks(stages[p]) => allSince'[k] = NotAll
    BY DEF Published
  <2>1. ASSUME k \in Jwks(stages[p]) PROVE lastOut'[k] >= hour
    BY <2>1, <1>2
  <2>2. ASSUME k \notin Jwks(stages[p]) PROVE allSince'[k] = NotAll
    BY <2>2, <1>2
  <2> QED
    BY <2>1, <2>2
<1>5. ASSUME NEW keys, NEW at \in Nat, at <= hour, Known(keys, at, lastOut, allSince)
      PROVE  Known(keys, at, lastOut', allSince')
  <2> SUFFICES ASSUME NEW k \in SigningKeys
               PROVE  /\ k \in keys => lastOut'[k] >= at
                      /\ k \notin keys => allSince'[k] >= at
    BY DEF Known
  <2>1. lastOut[k] \in Nat /\ allSince[k] \in Nat
    OBVIOUS
  <2>2. lastOut'[k] = hour \/ lastOut'[k] = lastOut[k]
    BY <1>2
  <2>3. allSince'[k] = hour \/ allSince'[k] = allSince[k] \/ allSince'[k] = NotAll
    BY <1>2
  <2>4. /\ k \in keys => lastOut[k] >= at
        /\ k \notin keys => allSince[k] >= at
    BY <1>5 DEF Known
  <2> QED
    BY <2>1, <2>2, <2>3, <2>4, <1>1, <1>5
<1> QED
  BY <1>3, <1>4, <1>5

\* What is known stays known: the clock does not matter to it, and a key set
\* in flight or in the cache is in the past.
LEMMA KnownStays ==
    ASSUME GatewayInv, NEW hour \in Nat, hour \in {now, now + 1}, hour <= MaxTime,
           NEW last, NEW since,
           \A keys, at : at \in Nat /\ at <= hour /\ Known(keys, at, lastOut, allSince)
                            => Known(keys, at, last, since),
           hour # now => \A c \in McpCalls : (Verifying(c) /\ call[c].fetch # NoCache)
                                                => now - call[c].fetch.at < Lag
    PROVE  FetchesKnown(call, hour, last, since) /\ CacheKnown(cache, hour, last, since)
<1>0. now \in Nat /\ Lag \in Nat /\ GatewayTypeOK
  BY DEF GatewayInv, GatewayTypeOK
<1>1. ASSUME NEW c \in McpCalls, call[c] \in Underway, call[c].fetch # NoCache
      PROVE  /\ call[c].fetch.at <= hour /\ hour <= call[c].fetch.at + Lag
             /\ Known(call[c].fetch.keys, call[c].fetch.at, last, since)
  <2>1. call[c].fetch.at \in Nat /\ Verifying(c)
    BY <1>0, <1>1, UnderwayVerifies DEF KeySets
  <2>2. /\ call[c].fetch.at <= now /\ now <= call[c].fetch.at + Lag
        /\ Known(call[c].fetch.keys, call[c].fetch.at, lastOut, allSince)
    BY <1>1 DEF GatewayInv, FetchesKnown, OnItsWay
  <2>3. call[c].fetch.at <= hour
    BY <2>1, <2>2, <1>0
  <2>4. hour <= call[c].fetch.at + Lag
    <3>1. CASE hour = now
      BY <3>1, <2>2
    <3>2. CASE hour # now
      <4>1. now - call[c].fetch.at < Lag
        BY <3>2, <2>1, <1>1
      <4> QED
        BY <4>1, <3>2, <2>1, <1>0
    <3> QED
      BY <3>1, <3>2
  <2> QED
    BY <2>1, <2>2, <2>3, <2>4
<1>2. ASSUME cache # NoCache
      PROVE  /\ cache.at <= hour
             /\ \E t \in Nat : t <= cache.at /\ cache.at <= t + Lag /\ Known(cache.keys, t, last, since)
  <2>1. cache.at \in Nat
    BY <1>0 DEF GatewayTypeOK, KeySets
  <2>2. cache.at <= now
    BY <1>2 DEF GatewayInv, CacheKnown
  <2>3. PICK t \in Nat : t <= cache.at /\ cache.at <= t + Lag
                          /\ Known(cache.keys, t, lastOut, allSince)
    BY <1>2 DEF GatewayInv, CacheKnown
  <2>4. cache.at <= hour /\ t <= hour
    BY <2>1, <2>2, <2>3, <1>0
  <2> QED
    BY <2>3, <2>4
<1> QED
  BY <1>1, <1>2 DEF FetchesKnown, OnItsWay, CacheKnown

\* The steps that write the history: a restart with the next configuration,
\* and the clock.
LEMMA TrustRollOver ==
    ASSUME GatewayInv, NEW p \in Issuers, RollOver(p)
    PROVE  GatewayInv'
<1>1. GatewayTypeOK
  BY DEF GatewayInv
<1>2. atStage' \in Stages
  <2>1. atStage[p] \in 1 .. Len(Plan) /\ atStage[p] < Len(Plan) /\ Len(Plan) \in Nat
    BY <1>1, PlanTyped DEF GatewayTypeOK, Stages, RollOver
  <2>2. atStage[p] + 1 \in 1 .. Len(Plan) /\ atStage' = [atStage EXCEPT ![p] = atStage[p] + 1]
    BY <2>1 DEF RollOver
  <2> QED
    BY <2>2, <1>1 DEF GatewayTypeOK, Stages
<1>3. UNCHANGED <<now, cache, call, jobs>> /\ Publish(atStage', now)
  BY DEF RollOver
<1>4. now \in Nat /\ now <= MaxTime /\ lastOut \in [SigningKeys -> Nat]
      /\ allSince \in [SigningKeys -> Nat]
  BY <1>1 DEF GatewayTypeOK
<1>5. /\ lastOut' \in [SigningKeys -> Nat] /\ allSince' \in [SigningKeys -> Nat]
      /\ Published(atStage', now, lastOut', allSince')
      /\ \A keys, at : at \in Nat /\ at <= now /\ Known(keys, at, lastOut, allSince)
                           => Known(keys, at, lastOut', allSince')
  BY <1>2, <1>3, <1>4, PublishKeeps
<1>6. FetchesKnown(call, now, lastOut', allSince') /\ CacheKnown(cache, now, lastOut', allSince')
  BY <1>4, <1>5, KnownStays
<1>7. GatewayTypeOK'
  BY <1>1, <1>2, <1>3, <1>5 DEF GatewayTypeOK
<1> QED
  BY <1>3, <1>5, <1>6, <1>7 DEF GatewayInv

\* Time passes: keys age, and what was published is published a little longer.
LEMMA TrustTick ==
    ASSUME GatewayInv, GatewayTick
    PROVE  GatewayInv'
<1>1. GatewayTypeOK
  BY DEF GatewayInv
<1>2. UNCHANGED <<atStage, cache, call, jobs>> /\ Publish(atStage, now + 1) /\ now' = now + 1
      /\ now < MaxTime
  BY DEF GatewayTick
<1>3. now \in Nat /\ MaxTime \in Nat /\ lastOut \in [SigningKeys -> Nat]
      /\ allSince \in [SigningKeys -> Nat] /\ atStage \in Stages
  BY <1>1 DEF GatewayTypeOK
<1>4. now + 1 \in Nat /\ now + 1 <= MaxTime
  BY <1>2, <1>3
<1>5. /\ lastOut' \in [SigningKeys -> Nat] /\ allSince' \in [SigningKeys -> Nat]
      /\ Published(atStage, now + 1, lastOut', allSince')
      /\ \A keys, at : at \in Nat /\ at <= now + 1 /\ Known(keys, at, lastOut, allSince)
                           => Known(keys, at, lastOut', allSince')
  BY <1>2, <1>3, <1>4, PublishKeeps
<1>6. \A c \in McpCalls : (Verifying(c) /\ call[c].fetch # NoCache)
                              => now - call[c].fetch.at < Lag
  BY DEF GatewayTick
<1>7. FetchesKnown(call, now + 1, lastOut', allSince')
      /\ CacheKnown(cache, now + 1, lastOut', allSince')
  BY <1>4, <1>5, <1>6, KnownStays
<1>8. GatewayTypeOK'
  BY <1>1, <1>2, <1>4, <1>5 DEF GatewayTypeOK
<1> QED
  BY <1>2, <1>5, <1>7, <1>8 DEF GatewayInv

\* One call goes on: the channel gets it at its end at most.
LEMMA CallMoves ==
    ASSUME GatewayInv, UNCHANGED <<now, atStage, lastOut, allSince>>,
           NEW c \in McpCalls, NEW r \in Ended \cup Underway,
           call' = [call EXCEPT ![c] = r], call[c].phase \notin Handed,
           r \in Underway => OnItsWay(r.fetch, now, lastOut, allSince),
           cache' \in KeySets, CacheKnown(cache', now, lastOut, allSince),
           jobs' = jobs \/ (jobs' = Append(jobs, c) /\ r.phase = "queued")
    PROVE  GatewayInv'
<1>1. GatewayTypeOK
  BY DEF GatewayInv
<1>2. call \in [McpCalls -> Ended \cup Underway] /\ jobs \in Seq(McpCalls)
  BY <1>1 DEF GatewayTypeOK
<1>3. \A d \in McpCalls : call'[d] = IF d = c THEN r ELSE call[d]
  BY <1>2
<1>4. jobs' \in Seq(McpCalls) /\ InChannel(jobs', call')
  <2>1. \A i \in 1 .. Len(jobs) : jobs[i] \in McpCalls /\ call[jobs[i]].phase \in Handed
    BY <1>2, ElementOfSeq DEF GatewayInv, InChannel
  <2>2. \A i \in 1 .. Len(jobs) : call'[jobs[i]].phase \in Handed
    BY <2>1, <1>3
  <2>3. CASE jobs' = jobs
    BY <2>2, <2>3, <1>2 DEF InChannel
  <2>4. CASE jobs' = Append(jobs, c) /\ r.phase = "queued"
    <3>1. /\ Append(jobs, c) \in Seq(McpCalls) /\ Len(Append(jobs, c)) = Len(jobs) + 1
          /\ Len(jobs) \in Nat
          /\ \A i \in 1 .. Len(jobs) + 1 :
                Append(jobs, c)[i] = IF i <= Len(jobs) THEN jobs[i] ELSE c
      BY <1>2, AppendProperties, LenProperties
    <3>2. ASSUME NEW i \in 1 .. Len(jobs) + 1 PROVE call'[jobs'[i]].phase \in Handed
      <4>1. CASE i <= Len(jobs)
        <5>1. i \in 1 .. Len(jobs) /\ jobs'[i] = jobs[i]
          BY <4>1, <3>1, <2>4
        <5> QED
          BY <5>1, <2>2
      <4>2. CASE ~(i <= Len(jobs))
        <5>1. jobs'[i] = c
          BY <4>2, <3>1, <2>4
        <5> QED
          BY <5>1, <1>3, <2>4 DEF Handed
      <4> QED
        BY <4>1, <4>2
    <3> QED
      BY <3>1, <3>2, <2>4 DEF InChannel
  <2> QED
    BY <2>3, <2>4
<1>5. FetchesKnown(call', now, lastOut, allSince)
  <2> SUFFICES ASSUME NEW d \in McpCalls, call'[d] \in Underway
               PROVE  OnItsWay(call'[d].fetch, now, lastOut, allSince)
    BY DEF FetchesKnown
  <2>1. CASE d = c
    BY <2>1, <1>3
  <2>2. CASE d # c
    BY <2>2, <1>3 DEF GatewayInv, FetchesKnown
  <2> QED
    BY <2>1, <2>2
<1>6. call' \in [McpCalls -> Ended \cup Underway]
  BY <1>2
<1>7. GatewayTypeOK'
  BY <1>1, <1>4, <1>6 DEF GatewayTypeOK
<1> QED
  BY <1>4, <1>5, <1>7 DEF GatewayInv

\* What the verifier makes of a call: it is refused exactly when the key is not
\* in the set.
LEMMA VerifiedMoves ==
    ASSUME GatewayTypeOK, NEW c \in McpCalls, Verifying(c),
           NEW keys \in SUBSET SigningKeys, Verified(c, keys)
    PROVE  \E r \in Ended \cup Underway :
              /\ call' = [call EXCEPT ![c] = r]
              /\ r \in Underway => r.fetch = NoCache
              /\ jobs' = jobs \/ (jobs' = Append(jobs, c) /\ r.phase = "queued")
              /\ r.phase = "refused" => call[c].key \notin keys
              /\ r.phase # "refused" => call[c].key \in keys
<1> DEFINE key == call[c].key
           to == [call[c] EXCEPT !.phase = "handler", !.fetch = NoCache]
           end == IF ~ToolAllowed(call[c].use) THEN "forbidden"
                  ELSE IF threadUp THEN "queued" ELSE "failed"
           r == IF ~Verifies(keys, key) THEN Over("refused")
                ELSE IF call[c].phase = "gate" THEN to ELSE Over(end)
<1>1. call[c] \in Underway /\ call \in [McpCalls -> Ended \cup Underway]
  BY UnderwayVerifies DEF GatewayTypeOK
<1>2. to \in Underway
  BY <1>1, NoCacheTyped DEF Underway
<1>3. to.fetch = NoCache /\ to.phase = "handler"
  BY <1>1 DEF Underway
<1>4. r \in Ended \cup Underway
  BY <1>2, EndedIs
<1>5. call' = [call EXCEPT ![c] = r]
  <2>1. call' = [call EXCEPT ![c] =
           IF ~Verifies(keys, call[c].key) THEN Over("refused")
           ELSE IF call[c].phase = "gate" THEN [call[c] EXCEPT !.phase = "handler", !.fetch = NoCache]
           ELSE IF ~ToolAllowed(call[c].use) THEN Over("forbidden")
           ELSE Over(IF threadUp THEN "queued" ELSE "failed")]
    BY DEF Verified
  <2>2. r = IF ~Verifies(keys, call[c].key) THEN Over("refused")
           ELSE IF call[c].phase = "gate" THEN [call[c] EXCEPT !.phase = "handler", !.fetch = NoCache]
           ELSE IF ~ToolAllowed(call[c].use) THEN Over("forbidden")
           ELSE Over(IF threadUp THEN "queued" ELSE "failed")
    OBVIOUS
  <2> HIDE DEF r
  <2> QED
    BY <2>1, <2>2
<1>6. call'[c] = r
  <2> HIDE DEF r
  <2> QED
    BY <1>1, <1>5
<1>7. r \in Underway => r.fetch = NoCache
  BY <1>3, EndedIs
<1>8. jobs' = jobs \/ (jobs' = Append(jobs, c) /\ r.phase = "queued")
  <2> HIDE DEF r
  <2> QED
    BY <1>6 DEF Verified
<1>9. Verifies(keys, key) <=> key \in keys
  BY DEF Verifies, SelectKey
<1>10. r.phase = "refused" => ~Verifies(keys, key)
  BY <1>3, EndedIs
<1>11. r.phase # "refused" => Verifies(keys, key)
  BY EndedIs
<1> HIDE DEF r
<1> QED
  BY <1>4, <1>5, <1>7, <1>8, <1>9, <1>10, <1>11

(* What the property says of a call that goes on to r.                     *)
Follows(k, r) ==
    CASE r.phase = "refused" -> allSince[k] = NotAll \/ now - allSince[k] < Ttl + Lag
      [] r.phase = "unverified" -> TRUE
      [] OTHER -> now - lastOut[k] < Ttl + Lag

\* A verdict by a key set that was asked for less than Ttl + Lag ago.
LEMMA VerdictFollows ==
    ASSUME GatewayTypeOK, NEW k \in SigningKeys, NEW keys, NEW t \in Nat, now - t < Ttl + Lag,
           Known(keys, t, lastOut, allSince), NEW r,
           r.phase = "refused" => k \notin keys,
           r.phase # "refused" => k \in keys
    PROVE  Follows(k, r)
<1>1. lastOut[k] \in Nat /\ allSince[k] \in Nat /\ now \in Nat /\ Ttl \in Nat /\ Lag \in Nat
  BY DEF GatewayTypeOK
<1>2. CASE r.phase = "refused"
  <2>1. allSince[k] >= t
    BY <1>2 DEF Known
  <2>2. now - allSince[k] < Ttl + Lag
    BY <2>1, <1>1
  <2> QED
    BY <2>2, <1>2 DEF Follows
<1>3. CASE r.phase # "refused"
  <2>1. lastOut[k] >= t
    BY <1>3 DEF Known
  <2>2. now - lastOut[k] < Ttl + Lag
    BY <2>1, <1>1
  <2> QED
    BY <2>2, <1>3 DEF Follows
<1> QED
  BY <1>2, <1>3

(* What one step of one call does: the invariant stays, and the call goes  *)
(* on as it should.                                                        *)
GoesOn(c) == \A d \in McpCalls :
    (Verifying(d) /\ call'[d].phase # call[d].phase) => d = c /\ Follows(call[d].key, call'[d])

\* A call that is told by the cached key set.
LEMMA TrustCached ==
    ASSUME GatewayInv, NEW c \in McpCalls, VerifyCached(c)
    PROVE  GatewayInv' /\ GoesOn(c)
<1>1. GatewayTypeOK /\ Verifying(c) /\ Fresh /\ Verified(c, cache.keys)
  BY DEF GatewayInv, VerifyCached
<1>2. cache \in KeySets /\ call \in [McpCalls -> Ended \cup Underway]
  BY <1>1 DEF GatewayTypeOK
<1>3. cache.keys \in SUBSET SigningKeys /\ cache.at \in Nat
  BY <1>2 DEF KeySets
<1>4. PICK r \in Ended \cup Underway :
              /\ call' = [call EXCEPT ![c] = r]
              /\ r \in Underway => r.fetch = NoCache
              /\ jobs' = jobs \/ (jobs' = Append(jobs, c) /\ r.phase = "queued")
              /\ r.phase = "refused" => call[c].key \notin cache.keys
              /\ r.phase # "refused" => call[c].key \in cache.keys
  BY <1>1, <1>3, VerifiedMoves
<1>5. UNCHANGED <<now, atStage, lastOut, allSince, cache>>
  BY DEF VerifyCached, Around
<1>6. CacheKnown(cache, now, lastOut, allSince) /\ cache # NoCache /\ now - cache.at < Ttl
  BY <1>1 DEF GatewayInv, Fresh
<1>7. call[c].phase \notin Handed /\ call[c].key \in SigningKeys
  BY <1>1, UnderwayVerifies DEF Verifying, Handed
<1>8. GatewayInv'
  BY <1>2, <1>4, <1>5, <1>6, <1>7, CallMoves DEF OnItsWay
<1>9. Follows(call[c].key, r)
  <2>1. PICK t \in Nat : t <= cache.at /\ cache.at <= t + Lag
                          /\ Known(cache.keys, t, lastOut, allSince)
    BY <1>6 DEF CacheKnown
  <2>2. now - t < Ttl + Lag
    BY <2>1, <1>6, <1>3, <1>1 DEF GatewayTypeOK
  <2> QED
    BY <1>1, <1>4, <1>7, <2>1, <2>2, VerdictFollows
<1>10. \A d \in McpCalls : call'[d] = IF d = c THEN r ELSE call[d]
  BY <1>2, <1>4
<1> QED
  BY <1>8, <1>9, <1>10 DEF GoesOn

\* A call that is told by the key set it fetched, which becomes the cached one.
LEMMA TrustArrives ==
    ASSUME GatewayInv, NEW c \in McpCalls, FetchArrives(c)
    PROVE  GatewayInv' /\ GoesOn(c)
<1> DEFINE f == call[c].fetch
<1>1. GatewayTypeOK /\ Verifying(c) /\ f # NoCache /\ Verified(c, f.keys)
      /\ cache' = [keys |-> f.keys, at |-> now]
  BY DEF GatewayInv, FetchArrives
<1>2. f \in KeySets /\ call \in [McpCalls -> Ended \cup Underway] /\ call[c] \in Underway
      /\ call[c].key \in SigningKeys /\ call[c].phase \notin Handed
  BY <1>1, UnderwayVerifies DEF GatewayTypeOK, Verifying, Handed
<1>3. f.keys \in SUBSET SigningKeys /\ f.at \in Nat
  BY <1>2 DEF KeySets
<1>4. PICK r \in Ended \cup Underway :
              /\ call' = [call EXCEPT ![c] = r]
              /\ r \in Underway => r.fetch = NoCache
              /\ jobs' = jobs \/ (jobs' = Append(jobs, c) /\ r.phase = "queued")
              /\ r.phase = "refused" => call[c].key \notin f.keys
              /\ r.phase # "refused" => call[c].key \in f.keys
  BY <1>1, <1>3, VerifiedMoves
<1>5. UNCHANGED <<now, atStage, lastOut, allSince>>
  BY DEF FetchArrives, Around
<1>6. f.at <= now /\ now <= f.at + Lag /\ Known(f.keys, f.at, lastOut, allSince)
  BY <1>1, <1>2 DEF GatewayInv, FetchesKnown, OnItsWay
<1>7. now \in Nat
  BY <1>1 DEF GatewayTypeOK
<1>8. cache' \in KeySets /\ cache'.keys = f.keys /\ cache'.at = now
  BY <1>1, <1>3, <1>7 DEF KeySets
<1>9. CacheKnown(cache', now, lastOut, allSince)
  BY <1>8, <1>6, <1>3, <1>7 DEF CacheKnown
<1>10. GatewayInv'
  BY <1>2, <1>4, <1>5, <1>8, <1>9, CallMoves DEF OnItsWay
<1>11. now - f.at < Ttl + Lag
  BY <1>6, <1>3, <1>7
<1>12. Follows(call[c].key, r)
  BY <1>1, <1>2, <1>3, <1>4, <1>6, <1>11, VerdictFollows
<1>13. \A d \in McpCalls : call'[d] = IF d = c THEN r ELSE call[d]
  BY <1>2, <1>4
<1> QED
  BY <1>10, <1>12, <1>13 DEF GoesOn

\* The fetch: its answer is what an issuer publishes at that time.
LEMMA TrustFetches ==
    ASSUME GatewayInv, NEW c \in McpCalls, NEW p \in Issuers, FetchStart(c, p)
    PROVE  GatewayInv' /\ GoesOn(c)
<1> DEFINE f == [keys |-> Jwks(atStage[p]), at |-> now]
           r == [call[c] EXCEPT !.fetch = f]
<1>1. GatewayTypeOK /\ Verifying(c)
  BY DEF GatewayInv, FetchStart
<1>2. call[c] \in Underway /\ call \in [McpCalls -> Ended \cup Underway] /\ now \in Nat
      /\ atStage[p] \in 1 .. Len(Plan) /\ call[c].phase \notin Handed /\ cache \in KeySets
  BY <1>1, UnderwayVerifies DEF GatewayTypeOK, Stages, Verifying, Handed
<1>3. Jwks(atStage[p]) \subseteq SigningKeys
  BY <1>2, PlanTyped
<1>4. f \in KeySets /\ f.keys = Jwks(atStage[p]) /\ f.at = now
  BY <1>2, <1>3 DEF KeySets
<1>5. UNCHANGED <<now, atStage, lastOut, allSince, cache, jobs>>
      /\ call' = [call EXCEPT ![c].fetch = [keys |-> Jwks(atStage[p]), at |-> now]]
  BY DEF FetchStart, Around
<1>6. Known(f.keys, f.at, lastOut, allSince)
  <2> SUFFICES ASSUME NEW k \in SigningKeys
               PROVE  /\ k \in Jwks(atStage[p]) => lastOut[k] >= now
                      /\ k \notin Jwks(atStage[p]) => allSince[k] >= now
    BY <1>4 DEF Known
  <2>1. /\ k \in Jwks(atStage[p]) => lastOut[k] >= now
        /\ k \notin Jwks(atStage[p]) => allSince[k] = NotAll
    BY DEF GatewayInv, Published
  <2>2. NotAll >= now
    BY <1>1 DEF GatewayTypeOK, NotAll
  <2> QED
    BY <2>1, <2>2
<1>7. OnItsWay(f, now, lastOut, allSince)
  BY <1>2, <1>4, <1>6 DEF OnItsWay
<1> HIDE DEF f
<1>8. r \in Underway
  BY <1>2, <1>4 DEF Underway
<1>9. r.fetch = f /\ r.phase = call[c].phase
  BY <1>2 DEF Underway
<1>10. call' = [call EXCEPT ![c] = r]
  BY <1>5, <1>2 DEF f
<1>11. CacheKnown(cache, now, lastOut, allSince)
  BY DEF GatewayInv
<1> HIDE DEF r
<1>12. GatewayInv'
  BY <1>2, <1>5, <1>7, <1>8, <1>9, <1>10, <1>11, CallMoves
<1>13. \A d \in McpCalls : call'[d] = IF d = c THEN r ELSE call[d]
  BY <1>2, <1>10
<1> QED
  BY <1>9, <1>12, <1>13 DEF GoesOn

\* A call that comes in, and a fetch that fails.
LEMMA TrustStarts ==
    ASSUME GatewayInv, NEW c \in McpCalls, NEW k \in SigningKeys, NEW u \in Purposes,
           StartCall(c, k, u)
    PROVE  GatewayInv' /\ GoesOn(c)
<1> DEFINE r == [phase |-> "gate", key |-> k, use |-> u, fetch |-> NoCache]
<1>1. GatewayTypeOK /\ call[c] = NoCall
  BY DEF GatewayInv, StartCall
<1>2. call \in [McpCalls -> Ended \cup Underway] /\ cache \in KeySets
  BY <1>1 DEF GatewayTypeOK
<1>3. call[c].phase = "none" /\ ~Verifying(c)
  BY <1>1 DEF NoCall, Verifying
<1>4. r \in Underway /\ r.fetch = NoCache
  BY NoCacheTyped DEF Underway
<1>5. UNCHANGED <<now, atStage, lastOut, allSince, cache, jobs>> /\ call' = [call EXCEPT ![c] = r]
  BY DEF StartCall, Around
<1>6. CacheKnown(cache, now, lastOut, allSince)
  BY DEF GatewayInv
<1> HIDE DEF r
<1>7. GatewayInv'
  BY <1>2, <1>3, <1>4, <1>5, <1>6, CallMoves DEF OnItsWay, Handed
<1>8. \A d \in McpCalls : call'[d] = IF d = c THEN r ELSE call[d]
  BY <1>2, <1>5
<1> QED
  BY <1>3, <1>7, <1>8 DEF GoesOn

\* A fetch of the keys that fails ends the call it was made for.
LEMMA TrustFails ==
    ASSUME GatewayInv, NEW c \in McpCalls, FetchFails(c)
    PROVE  GatewayInv' /\ GoesOn(c)
<1> DEFINE r == Over("unverified")
<1>1. GatewayTypeOK /\ Verifying(c)
  BY DEF GatewayInv, FetchFails
<1>2. call \in [McpCalls -> Ended \cup Underway] /\ cache \in KeySets /\ call[c].phase \notin Handed
  BY <1>1 DEF GatewayTypeOK, Verifying, Handed
<1>3. r \in Ended /\ r \notin Underway /\ r.phase = "unverified"
  BY EndedIs
<1>4. UNCHANGED <<now, atStage, lastOut, allSince, cache, jobs>> /\ call' = [call EXCEPT ![c] = r]
  BY DEF FetchFails, Around
<1>5. CacheKnown(cache, now, lastOut, allSince)
  BY DEF GatewayInv
<1> HIDE DEF r
<1>6. GatewayInv'
  BY <1>2, <1>3, <1>4, <1>5, CallMoves
<1>7. \A d \in McpCalls : call'[d] = IF d = c THEN r ELSE call[d]
  BY <1>2, <1>4
<1>8. Follows(call[c].key, r)
  BY <1>3 DEF Follows
<1> QED
  BY <1>6, <1>7, <1>8 DEF GoesOn

\* The thread takes a call from the channel, or ends: the calls that are being
\* verified are not its.
LEMMA TrustHandles ==
    ASSUME GatewayInv, NEW panics \in BOOLEAN, HandleRequest(panics)
    PROVE  GatewayInv' /\ \A d \in McpCalls : Verifying(d) => call'[d] = call[d]
<1>1. GatewayTypeOK /\ InChannel(jobs, call) /\ jobs # <<>>
  BY DEF GatewayInv, HandleRequest
<1>2. jobs \in Seq(McpCalls) /\ call \in [McpCalls -> Ended \cup Underway]
  BY <1>1 DEF GatewayTypeOK
<1>3. UNCHANGED <<now, atStage, cache, lastOut, allSince>>
      /\ jobs' = (IF panics THEN <<>> ELSE Tail(jobs))
      /\ call' = [c \in McpCalls |->
           IF panics /\ (\E j \in DOMAIN jobs : jobs[j] = c) THEN Over("failed")
           ELSE IF c = Head(jobs) THEN Over("ran") ELSE call[c]]
  BY DEF HandleRequest
<1>4. DOMAIN jobs = 1 .. Len(jobs) /\ Len(jobs) \in Nat \ {0} /\ Head(jobs) = jobs[1]
      /\ Tail(jobs) \in Seq(McpCalls) /\ Len(Tail(jobs)) = Len(jobs) - 1
      /\ \A i \in 1 .. Len(Tail(jobs)) : Tail(jobs)[i] = jobs[i + 1]
  BY <1>1, <1>2, HeadTailProperties, LenProperties, EmptySeq
<1>5. \A d \in McpCalls : call'[d] \in {Over("failed"), Over("ran"), call[d]}
  BY <1>3
<1>6. call' \in [McpCalls -> Ended \cup Underway]
  BY <1>2, <1>3, EndedIs
<1>7. ASSUME NEW d \in McpCalls, Verifying(d) PROVE call'[d] = call[d]
  <2>1. \A i \in 1 .. Len(jobs) : jobs[i] # d
    BY <1>1, <1>7 DEF InChannel, Verifying, Handed
  <2>2. Head(jobs) # d
    BY <2>1, <1>4
  <2> QED
    BY <2>1, <2>2, <1>3, <1>4
<1>8. FetchesKnown(call', now, lastOut, allSince)
  <2> SUFFICES ASSUME NEW d \in McpCalls, call'[d] \in Underway
               PROVE  OnItsWay(call'[d].fetch, now, lastOut, allSince)
    BY DEF FetchesKnown
  <2>1. call'[d] = call[d]
    BY <1>5, EndedIs
  <2> QED
    BY <2>1 DEF GatewayInv, FetchesKnown
<1>9. jobs' \in Seq(McpCalls) /\ InChannel(jobs', call')
  <2>1. CASE panics
    BY <2>1, <1>3, EmptySeq DEF InChannel
  <2>2. CASE ~panics
    <3>1. jobs' = Tail(jobs)
      BY <2>2, <1>3
    <3>2. ASSUME NEW i \in 1 .. Len(Tail(jobs)) PROVE call'[Tail(jobs)[i]].phase \in Handed
      <4>1. i + 1 \in 1 .. Len(jobs) /\ Tail(jobs)[i] = jobs[i + 1]
        BY <1>4
      <4>2. jobs[i + 1] \in McpCalls /\ call[jobs[i + 1]].phase \in Handed
        BY <4>1, <1>1, <1>2, ElementOfSeq DEF InChannel
      <4>3. call'[jobs[i + 1]].phase \in Handed
        BY <4>2, <1>5, EndedIs DEF Handed
      <4> QED
        BY <4>1, <4>3
    <3> QED
      BY <3>1, <3>2, <1>4 DEF InChannel
  <2> QED
    BY <2>1, <2>2
<1>10. GatewayTypeOK'
  BY <1>1, <1>3, <1>6, <1>9 DEF GatewayTypeOK
<1>11. GatewayInv'
  BY <1>3, <1>8, <1>9, <1>10 DEF GatewayInv
<1> QED
  BY <1>7, <1>11

\* A step that changes none of what the verifier holds.
LEMMA TrustKeeps ==
    ASSUME GatewayInv, UNCHANGED <<now, atStage, cache, call, jobs, lastOut, allSince>>
    PROVE  GatewayInv'
  BY DEF GatewayInv, GatewayTypeOK, InChannel, Published, FetchesKnown, OnItsWay, CacheKnown, Known

\* Every step keeps the invariant, and decides of a call as the property says.
LEMMA TrustStep ==
    ASSUME GatewayInv, [GatewayNext]_gatewayVars
    PROVE  /\ GatewayInv'
           /\ \A c \in McpCalls : (Verifying(c) /\ call'[c].phase # call[c].phase)
                                      => Follows(call[c].key, call'[c])
<1>1. ASSUME NEW p \in Issuers, RollOver(p) PROVE GatewayInv' /\ call' = call
  BY <1>1, TrustRollOver DEF RollOver
<1>2. ASSUME NEW c \in McpCalls, NEW k \in SigningKeys, NEW u \in Purposes, StartCall(c, k, u)
      PROVE  GatewayInv' /\ GoesOn(c)
  BY <1>2, TrustStarts
<1>3. ASSUME NEW c \in McpCalls, VerifyCached(c) \/ FetchArrives(c) \/ FetchFails(c)
      PROVE  GatewayInv' /\ GoesOn(c)
  BY <1>3, TrustCached, TrustArrives, TrustFails
<1>4. ASSUME NEW c \in McpCalls, NEW p \in Issuers, FetchStart(c, p)
      PROVE  GatewayInv' /\ GoesOn(c)
  BY <1>4, TrustFetches
<1>5. ASSUME NEW panics \in BOOLEAN, HandleRequest(panics)
      PROVE  GatewayInv' /\ \A d \in McpCalls : Verifying(d) => call'[d] = call[d]
  BY <1>5, TrustHandles
<1>6. ASSUME NEW role, GrantSelect(role) \/ RevokeSelect(role) PROVE GatewayInv' /\ call' = call
  BY <1>6, TrustKeeps DEF GrantSelect, RevokeSelect
<1>7. ASSUME GatewayTick PROVE GatewayInv' /\ call' = call
  BY <1>7, TrustTick DEF GatewayTick
<1>8. ASSUME UNCHANGED gatewayVars PROVE GatewayInv' /\ call' = call
  BY <1>8, TrustKeeps DEF gatewayVars
<1> QED
  BY <1>1, <1>2, <1>3, <1>4, <1>5, <1>6, <1>7, <1>8 DEF GatewayNext, GoesOn

\* The invariant holds at the start: nothing is held, and what the first stage
\* publishes has always been.
LEMMA TrustInit ==
    ASSUME GatewayInit
    PROVE  GatewayInv
<1>1. /\ now = 0 /\ atStage = [p \in Issuers |-> 1] /\ cache = NoCache
      /\ call = [c \in McpCalls |-> NoCall] /\ jobs = <<>>
      /\ lastOut = [k \in SigningKeys |-> 0]
      /\ allSince = [k \in SigningKeys |-> IF k \in Jwks(1) THEN 0 ELSE NotAll]
  BY DEF GatewayInit
<1>2. NotAll \in Nat /\ MaxTime \in Nat
  BY DEF NotAll
<1>3. NoCall \in Ended /\ NoCall \notin Underway
  BY DEF Ended, NoCall, Underway
<1>4. jobs \in Seq(McpCalls) /\ Len(jobs) = 0
  BY <1>1, EmptySeq
<1>5. GatewayTypeOK
  <2>1. atStage \in Stages
    BY <1>1, PlanTyped DEF Stages
  <2>2. call \in [McpCalls -> Ended \cup Underway]
    BY <1>1, <1>3
  <2>3. lastOut \in [SigningKeys -> Nat] /\ allSince \in [SigningKeys -> Nat]
    BY <1>1, <1>2
  <2>4. now \in Nat /\ now <= MaxTime /\ cache \in KeySets
    BY <1>1, <1>2, NoCacheTyped
  <2> QED
    BY <2>1, <2>2, <2>3, <2>4, <1>4 DEF GatewayTypeOK
<1>6. InChannel(jobs, call)
  BY <1>4 DEF InChannel
<1>7. Published(atStage, now, lastOut, allSince)
  <2> SUFFICES ASSUME NEW k \in SigningKeys, NEW p \in Issuers
               PROVE  /\ k \in Jwks(atStage[p]) => lastOut[k] >= now
                      /\ k \notin Jwks(atStage[p]) => allSince[k] = NotAll
    BY DEF Published
  <2>1. atStage[p] = 1 /\ lastOut[k] = 0 /\ now = 0
        /\ allSince[k] = (IF k \in Jwks(1) THEN 0 ELSE NotAll)
    BY <1>1
  <2> QED
    BY <2>1
<1>8. FetchesKnown(call, now, lastOut, allSince)
  BY <1>1, <1>3 DEF FetchesKnown
<1>9. CacheKnown(cache, now, lastOut, allSince)
  BY <1>1 DEF CacheKnown
<1> QED
  BY <1>5, <1>6, <1>7, <1>8, <1>9 DEF GatewayInv

(* TrustFollowsIssuer, for every plan, life of a key set, delay of a fetch *)
(* and number of calls and issuers: whatever order the fetches of          *)
(* concurrent calls arrive in, a token that is taken has a key that was    *)
(* published less than Ttl + Lag ago, and one that is turned away has a    *)
(* key some issuer did not publish then (oidc_verifier.rs jwks).           *)
THEOREM TrustBounded == GatewaySpec => TrustFollowsIssuer
<1>1. GatewayInit => GatewayInv
  BY TrustInit
<1>2. GatewayInv /\ [GatewayNext]_gatewayVars => GatewayInv'
  BY TrustStep
<1>3. GatewayInv /\ [GatewayNext]_gatewayVars =>
         [\A c \in McpCalls :
         (Verifying(c) /\ call'[c].phase # call[c].phase) =>
            LET k == call[c].key IN
            CASE call'[c].phase = "refused" -> allSince[k] = NotAll \/ now - allSince[k] < Ttl + Lag
              [] call'[c].phase = "unverified" -> TRUE
              [] OTHER -> now - lastOut[k] < Ttl + Lag]_gatewayVars
  BY TrustStep DEF Follows
<1> QED
  BY <1>1, <1>2, <1>3, PTL DEF GatewaySpec, TrustFollowsIssuer

HIDE PlanAssumption

-------------------------------------------------------------------------------
\* The agents' tools.

WriteStep == [at : {"write", "fill"}, name : ModelNames, layer : Layers, call : Nat \ {0}]
DeleteStep == [at : {"delete"}, name : ModelNames, layer : Layers]
CardsStep == [at : {"cards"}, asked : 1 .. MaxCards, made : SUBSET Nat, unread : Nat]
BoardStep == [at : {"place", "link"}, id : Nat, made : SUBSET Nat]
Files == [name : ModelNames, layer : Layers, by : Nat, whole : BOOLEAN]
Boards == [id : Nat, asked : 1 .. MaxCards, unread : Nat, placed : SUBSET Nat, public : BOOLEAN]

AgentOK(r) == \/ r = NoTool \/ r \in WriteStep \/ r \in DeleteStep
              \/ r \in CardsStep \/ r \in BoardStep \/ r.at = "smoke"
BoardsTyped(count, bs) == count \in Nat /\ IsFiniteSet(bs) /\ bs \subseteq Boards

ToolsTypeOK ==
    /\ agent = [a \in Agents |-> agent[a]]
    /\ \A a \in Agents : AgentOK(agent[a])
    /\ files \subseteq Files /\ written \in [ModelNames -> Nat]
    /\ toolCalls \in Nat
    /\ BoardsTyped(cards, boards)

(* A model that no two calls were at work on: one at a time, in the layer  *)
(* its file is in, and a call that fills the file is the one that opened it.*)
FilesOf(fs, n) == {f \in fs : f.name = n}
OnModel(r, n) == r.at \in {"write", "fill", "delete"} /\ r.name = n
HalfDone(ag, wr, cut, n) ==
    \/ wr[n] \in cut
    \/ \E a \in Agents : ag[a].at = "fill" /\ ag[a].name = n /\ ag[a].call = wr[n]
OneFile(ag, fs, wr, cut, n) ==
    IF wr[n] = 0 THEN FilesOf(fs, n) = {}
    ELSE \E l \in Layers, whole \in BOOLEAN :
           /\ FilesOf(fs, n) = {[name |-> n, layer |-> l, by |-> wr[n], whole |-> whole]}
           /\ whole \/ HalfDone(ag, wr, cut, n)
ModelOK(ag, fs, wr, cut, n) ==
    /\ \A a, b \in Agents : OnModel(ag[a], n) /\ OnModel(ag[b], n) => a = b
    /\ OneFile(ag, fs, wr, cut, n)
    /\ \A a \in Agents, f \in FilesOf(fs, n) : OnModel(ag[a], n) => f.layer = ag[a].layer
    /\ \A a \in Agents : OnModel(ag[a], n) /\ ag[a].at = "fill" => ag[a].call = wr[n]
ModelsOK(ag, fs, wr, cut, both) == \A n \in ModelNames \ both : ModelOK(ag, fs, wr, cut, n)

(* Cards are made once and placed by the call that made them; a board is   *)
(* changed by the call that made it.                                       *)
Making(r) == r.at \in {"cards", "place", "link"}
Owning(r) == r.at \in {"place", "link"}
HasCards(b) == b.asked <= Cardinality(b.placed) + b.unread
BoardsApart(n, bs) ==
    /\ \A b \in bs : b.id \in 1 .. n
    /\ \A b, c \in bs : b.id = c.id => b = c
    /\ \A b, c \in bs : b.id # c.id => b.placed \cap c.placed = {}
CardsApart(ag, count, bs) ==
    /\ \A a \in Agents : Making(ag[a]) => ag[a].made \subseteq 1 .. count
    /\ \A a, b \in Agents : Making(ag[a]) /\ Making(ag[b]) /\ a # b => ag[a].made \cap ag[b].made = {}
    /\ \A b \in bs : b.placed \subseteq 1 .. count
    /\ \A a \in Agents, b \in bs : Making(ag[a]) =>
          ag[a].made \cap b.placed = {} \/ (Owning(ag[a]) /\ ag[a].id = b.id)
OwnsCards(r, b) ==
    /\ r.at = "place" => b.asked <= Cardinality(r.made) + b.unread
    /\ r.at = "link" => HasCards(b)
OwnBoards(ag, n, bs) ==
    /\ \A a \in Agents : Owning(ag[a]) => ag[a].id \in 1 .. n
    /\ \A a, b \in Agents : Owning(ag[a]) /\ Owning(ag[b]) /\ ag[a].id = ag[b].id => a = b
    /\ \A a \in Agents, b \in bs : Owning(ag[a]) /\ ag[a].id = b.id => OwnsCards(ag[a], b)
BoardsOK(ag, count, bs) ==
    /\ BoardsApart(Cardinality(bs), bs)
    /\ CardsApart(ag, count, bs)
    /\ OwnBoards(ag, Cardinality(bs), bs)
    /\ \A b \in bs : b.public => HasCards(b)

Grouped(stmts) == \A s \in stmts : s.folded # {} => s.plain = s.group

ToolsInv ==
    /\ ToolsTypeOK
    /\ ModelsOK(agent, files, written, cutOff, contended)
    /\ BoardsOK(agent, cards, boards)
    /\ Grouped(statements)

\* What each step of an agent is told apart by.
LEMMA StepKinds ==
    /\ NoTool.at = "idle" /\ ~Making(NoTool) /\ ~Owning(NoTool)
    /\ \A n : ~OnModel(NoTool, n)
    /\ \A r : r.at \in {"cards", "place", "link", "smoke", "idle"} => \A n : ~OnModel(r, n)
    /\ \A r : r.at \in {"write", "fill", "delete", "smoke", "idle"} => ~Making(r) /\ ~Owning(r)
  BY DEF NoTool, Making, Owning, OnModel

\* What one agent's step leaves of the others.
LEMMA OneAgent ==
    ASSUME ToolsTypeOK, NEW a \in Agents, NEW r, AgentOK(r), agent' = [agent EXCEPT ![a] = r]
    PROVE  /\ agent' = [b \in Agents |-> agent'[b]]
           /\ \A b \in Agents : agent'[b] = IF b = a THEN r ELSE agent[b]
           /\ \A b \in Agents : AgentOK(agent'[b])
<1>1. DOMAIN agent = Agents
  BY DEF ToolsTypeOK
<1>2. agent' = [b \in Agents |-> IF b = a THEN r ELSE agent[b]]
  BY <1>1
<1>3. \A b \in Agents : agent'[b] = IF b = a THEN r ELSE agent[b]
  BY <1>2
<1> QED
  BY <1>2, <1>3 DEF ToolsTypeOK

\* What the agents at work on a model, its file and its last write make of it
\* stays while they do.
LEMMA ModelStays ==
    ASSUME NEW n \in ModelNames, ModelOK(agent, files, written, cutOff, n),
           \A b \in Agents : OnModel(agent'[b], n) => agent'[b] = agent[b],
           \A b \in Agents : OnModel(agent[b], n) /\ agent[b].at = "fill" => agent'[b] = agent[b],
           NEW fs, FilesOf(fs, n) = FilesOf(files, n), NEW wr, wr[n] = written[n],
           NEW cut, cutOff \subseteq cut
    PROVE  ModelOK(agent', fs, wr, cut, n)
<1>1. HalfDone(agent, written, cutOff, n) => HalfDone(agent', wr, cut, n)
  BY DEF HalfDone, OnModel
<1>2. OneFile(agent', fs, wr, cut, n)
  BY <1>1 DEF ModelOK, OneFile
<1> QED
  BY <1>2 DEF ModelOK

\* A step that works on no model leaves the models.
LEMMA ModelsStay ==
    ASSUME ToolsTypeOK, ModelsOK(agent, files, written, cutOff, contended),
           NEW a \in Agents, NEW r, AgentOK(r), \A n : ~OnModel(r, n), agent[a].at # "fill",
           agent' = [agent EXCEPT ![a] = r]
    PROVE  ModelsOK(agent', files, written, cutOff, contended)
<1>1. \A b \in Agents : agent'[b] = IF b = a THEN r ELSE agent[b]
  BY OneAgent
<1>2. ASSUME NEW n \in ModelNames \ contended PROVE ModelOK(agent', files, written, cutOff, n)
  <2>1. ModelOK(agent, files, written, cutOff, n)
    BY DEF ModelsOK
  <2>2. \A b \in Agents : OnModel(agent'[b], n) => agent'[b] = agent[b]
    BY <1>1
  <2>3. \A b \in Agents : OnModel(agent[b], n) /\ agent[b].at = "fill" => agent'[b] = agent[b]
    BY <1>1
  <2> QED
    BY <2>1, <2>2, <2>3, ModelStays
<1> QED
  BY <1>2 DEF ModelsOK

\* A step that makes and owns nothing leaves the boards.
LEMMA BoardsStay ==
    ASSUME ToolsTypeOK, NEW count, NEW bs, BoardsOK(agent, count, bs),
           NEW a \in Agents, NEW r, AgentOK(r), ~Making(r),
           agent' = [agent EXCEPT ![a] = r]
    PROVE  BoardsOK(agent', count, bs)
<1>1. \A b \in Agents : agent'[b] = IF b = a THEN r ELSE agent[b]
  BY OneAgent
<1>2. \A b \in Agents : Making(agent'[b]) => agent'[b] = agent[b]
  BY <1>1
<1>3. \A b \in Agents : Owning(agent'[b]) => Making(agent'[b])
  BY DEF Making, Owning
<1>4. CardsApart(agent', count, bs)
  BY <1>2 DEF BoardsOK, CardsApart
<1>5. OwnBoards(agent', Cardinality(bs), bs)
  BY <1>2, <1>3 DEF BoardsOK, OwnBoards
<1> QED
  BY <1>4, <1>5 DEF BoardsOK

\* The files of a model are named after it.
LEMMA FoundNamed == \A n : Found(n) = FilesOf(files, n)
  BY DEF Found, FilesOf

\* A call finds the file of a model, and is the only one at work on it, or the
\* model is contended from then on.
LEMMA ModelsTaken ==
    ASSUME ToolsInv, NEW a \in Agents, agent[a] = NoTool, NEW n \in ModelNames, Meets(n),
           NEW r, AgentOK(r), OnModel(r, n), r.at # "fill",
           agent' = [agent EXCEPT ![a] = r],
           n \notin contended => \A f \in FilesOf(files, n) : f.layer = r.layer
    PROVE  ModelsOK(agent', files, written, cutOff, contended')
<1>1. \A b \in Agents : agent'[b] = IF b = a THEN r ELSE agent[b]
  BY OneAgent DEF ToolsInv
<1>2. \A m : OnModel(r, m) => m = n
  BY DEF OnModel
<1>3. contended' = IF AtModel(n) = {} THEN contended ELSE contended \cup {n}
  BY DEF Meets
<1>4. \A b \in Agents : agent[b].at = "fill" => agent'[b] = agent[b]
  BY <1>1, StepKinds
<1>5. ASSUME NEW m \in ModelNames \ contended'
      PROVE  ModelOK(agent', files, written, cutOff, m)
  <2>1. m \in ModelNames \ contended
    BY <1>3, <1>5
  <2>2. ModelOK(agent, files, written, cutOff, m)
    BY <2>1 DEF ToolsInv, ModelsOK
  <2>3. CASE m = n
    <3>1. AtModel(n) = {}
      BY <1>3, <1>5, <2>3
    <3>2. \A b \in Agents : ~OnModel(agent[b], n)
      BY <3>1 DEF AtModel, OnModel
    <3>3. \A b \in Agents : OnModel(agent'[b], n) => b = a
      BY <3>2, <1>1
    <3>4. HalfDone(agent, written, cutOff, n) => HalfDone(agent', written, cutOff, n)
      BY <1>4 DEF HalfDone
    <3>5. OneFile(agent', files, written, cutOff, n)
      BY <3>4, <2>2, <2>3 DEF ModelOK, OneFile
    <3>6. \A b \in Agents, f \in FilesOf(files, n) :
             OnModel(agent'[b], n) => f.layer = agent'[b].layer
      BY <2>1, <2>3, <3>3, <1>1
    <3>7. \A b \in Agents : OnModel(agent'[b], n) => agent'[b].at # "fill"
      BY <3>3, <1>1
    <3> QED
      BY <2>3, <3>3, <3>5, <3>6, <3>7 DEF ModelOK
  <2>4. CASE m # n
    <3>1. \A b \in Agents : OnModel(agent'[b], m) => agent'[b] = agent[b]
      BY <1>1, <1>2, <2>4
    <3> QED
      BY <2>2, <3>1, <1>4, ModelStays
  <2> QED
    BY <2>3, <2>4
<1> QED
  BY <1>5 DEF ModelsOK

\* Taking a call to write a model: the layer is that of the file, when there is one.
LEMMA ToolsWriteModel ==
    ASSUME ToolsInv, NEW a \in Agents, NEW n \in ModelNames, NEW layer \in Layers \cup {"none"},
           WriteModel(a, n, layer)
    PROVE  ToolsInv'
<1>1. ToolsTypeOK /\ agent[a] = NoTool /\ toolCalls' = toolCalls + 1 /\ Meets(n)
  BY DEF ToolsInv, WriteModel, Takes
<1>2. UNCHANGED <<files, written, cutOff, cards, boards, statements>>
  BY DEF WriteModel, FileVars, BoardVars
<1>3. PICK l \in IF Found(n) # {} THEN {f.layer : f \in Found(n)}
                 ELSE {IF layer = "none" THEN "marts" ELSE layer} :
          agent' = [agent EXCEPT ![a] = [at |-> "write", name |-> n, layer |-> l,
                                         call |-> toolCalls']]
  BY DEF WriteModel
<1> DEFINE r == [at |-> "write", name |-> n, layer |-> l, call |-> toolCalls']
<1>4. l \in Layers
  BY <1>1, <1>3 DEF Layers, Found, ToolsTypeOK, Files
<1>5. toolCalls' \in Nat \ {0}
  BY <1>1 DEF ToolsTypeOK
<1>6. r \in WriteStep /\ r.at = "write" /\ r.name = n /\ r.layer = l
  BY <1>4, <1>5 DEF WriteStep
<1>7. agent' = [agent EXCEPT ![a] = r]
  BY <1>3
<1> HIDE DEF r
<1>8. AgentOK(r) /\ OnModel(r, n) /\ ~Making(r)
  BY <1>6, StepKinds DEF AgentOK, OnModel
<1>9. ASSUME n \notin contended, NEW f \in FilesOf(files, n) PROVE f.layer = l
  <2>1. Found(n) = FilesOf(files, n)
    BY FoundNamed
  <2>2. l \in {g.layer : g \in FilesOf(files, n)}
    BY <2>1, <1>3, <1>9
  <2>3. OneFile(agent, files, written, cutOff, n)
    BY <1>9 DEF ToolsInv, ModelsOK, ModelOK
  <2>4. PICK x : FilesOf(files, n) = {x}
    BY <1>9, <2>3 DEF OneFile
  <2> QED
    BY <2>2, <2>4, <1>9
<1>10. ModelsOK(agent', files, written, cutOff, contended')
  BY <1>1, <1>6, <1>7, <1>8, <1>9, ModelsTaken
<1>11. BoardsOK(agent', cards, boards)
  BY <1>1, <1>7, <1>8, BoardsStay DEF ToolsInv
<1>12. ToolsTypeOK'
  BY <1>1, <1>2, <1>5, <1>7, <1>8, OneAgent DEF ToolsTypeOK, BoardsTyped
<1> QED
  BY <1>2, <1>10, <1>11, <1>12 DEF ToolsInv

\* Taking a call to delete a model: the file that was found.
LEMMA ToolsDeleteModel ==
    ASSUME ToolsInv, NEW a \in Agents, NEW n \in ModelNames, DeleteModel(a, n)
    PROVE  ToolsInv'
<1>1. ToolsTypeOK /\ agent[a] = NoTool /\ toolCalls' = toolCalls + 1 /\ Meets(n)
  BY DEF ToolsInv, DeleteModel, Takes
<1>2. UNCHANGED <<files, written, cutOff, cards, boards, statements>>
  BY DEF DeleteModel, FileVars, BoardVars
<1>3. PICK g \in Found(n) :
          agent' = [agent EXCEPT ![a] = [at |-> "delete", name |-> n, layer |-> g.layer]]
  BY DEF DeleteModel
<1> DEFINE r == [at |-> "delete", name |-> n, layer |-> g.layer]
<1>4. g.layer \in Layers
  BY <1>1, <1>3 DEF Found, ToolsTypeOK, Files
<1>5. toolCalls' \in Nat
  BY <1>1 DEF ToolsTypeOK
<1>6. r \in DeleteStep /\ r.at = "delete" /\ r.name = n /\ r.layer = g.layer
  BY <1>4 DEF DeleteStep
<1>7. agent' = [agent EXCEPT ![a] = r]
  BY <1>3
<1> HIDE DEF r
<1>8. AgentOK(r) /\ OnModel(r, n) /\ ~Making(r)
  BY <1>6, StepKinds DEF AgentOK, OnModel
<1>9. ASSUME n \notin contended, NEW f \in FilesOf(files, n) PROVE f.layer = g.layer
  <2>1. g \in FilesOf(files, n)
    BY <1>3, FoundNamed
  <2>2. OneFile(agent, files, written, cutOff, n)
    BY <1>9 DEF ToolsInv, ModelsOK, ModelOK
  <2>3. PICK x : FilesOf(files, n) = {x}
    BY <1>9, <2>2 DEF OneFile
  <2> QED
    BY <2>1, <2>3, <1>9
<1>10. ModelsOK(agent', files, written, cutOff, contended')
  BY <1>1, <1>6, <1>7, <1>8, <1>9, ModelsTaken
<1>11. BoardsOK(agent', cards, boards)
  BY <1>1, <1>7, <1>8, BoardsStay DEF ToolsInv
<1>12. ToolsTypeOK'
  BY <1>1, <1>2, <1>5, <1>7, <1>8, OneAgent DEF ToolsTypeOK, BoardsTyped
<1> QED
  BY <1>2, <1>10, <1>11, <1>12 DEF ToolsInv

\* A step of a call on its model leaves the other models as they are.
LEMMA OtherModels ==
    ASSUME ToolsInv, NEW a \in Agents, NEW n \in ModelNames, OnModel(agent[a], n),
           NEW r, AgentOK(r), \A m : OnModel(r, m) => m = n, agent' = [agent EXCEPT ![a] = r],
           \A m : m # n => FilesOf(files', m) = FilesOf(files, m),
           \A m \in ModelNames : m # n => written'[m] = written[m],
           cutOff \subseteq cutOff',
           n \notin contended =>
              /\ OneFile(agent', files', written', cutOff', n)
              /\ OnModel(r, n) => \A f \in FilesOf(files', n) : f.layer = r.layer
              /\ OnModel(r, n) /\ r.at = "fill" => r.call = written'[n]
    PROVE  ModelsOK(agent', files', written', cutOff', contended)
<1>1. \A b \in Agents : agent'[b] = IF b = a THEN r ELSE agent[b]
  BY OneAgent DEF ToolsInv
<1>2. ASSUME NEW m \in ModelNames \ contended
      PROVE  ModelOK(agent', files', written', cutOff', m)
  <2>1. ModelOK(agent, files, written, cutOff, m)
    BY DEF ToolsInv, ModelsOK
  <2>2. CASE m = n
    <3>1. \A b \in Agents : OnModel(agent'[b], n) => b = a
      BY <1>1, <2>1, <2>2 DEF ModelOK
    <3>2. /\ OneFile(agent', files', written', cutOff', n)
          /\ OnModel(r, n) => \A f \in FilesOf(files', n) : f.layer = r.layer
          /\ OnModel(r, n) /\ r.at = "fill" => r.call = written'[n]
      BY <1>2, <2>2
    <3>3. \A b \in Agents, f \in FilesOf(files', n) :
             OnModel(agent'[b], n) => f.layer = agent'[b].layer
      BY <1>1, <3>1, <3>2
    <3>4. \A b \in Agents : OnModel(agent'[b], n) /\ agent'[b].at = "fill"
                               => agent'[b].call = written'[n]
      BY <1>1, <3>1, <3>2
    <3> QED
      BY <2>2, <3>1, <3>2, <3>3, <3>4 DEF ModelOK
  <2>3. CASE m # n
    <3>1. FilesOf(files', m) = FilesOf(files, m) /\ written'[m] = written[m]
      BY <2>3
    <3>2. ~OnModel(agent[a], m) /\ ~OnModel(r, m)
      BY <2>3 DEF OnModel
    <3>3. \A b \in Agents : OnModel(agent'[b], m) => agent'[b] = agent[b]
      BY <1>1, <3>2
    <3>4. \A b \in Agents : OnModel(agent[b], m) => agent'[b] = agent[b]
      BY <1>1, <3>2
    <3> QED
      BY <2>1, <3>1, <3>3, <3>4, ModelStays
  <2> QED
    BY <2>2, <2>3
<1> QED
  BY <1>2 DEF ModelsOK

\* The call that is alone at work on a model has its file's layer.
LEMMA AloneOnModel ==
    ASSUME ToolsInv, NEW a \in Agents, NEW n \in ModelNames \ contended, OnModel(agent[a], n)
    PROVE  /\ \A f \in FilesOf(files, n) : f.layer = agent[a].layer
           /\ OneFile(agent, files, written, cutOff, n)
           /\ agent[a].at = "fill" => agent[a].call = written[n]
           /\ \A b \in Agents : OnModel(agent[b], n) => b = a
  BY DEF ToolsInv, ModelsOK, ModelOK

\* A step on a model keeps the boards; what is left is the models' part.
LEMMA ToolsOnModel ==
    ASSUME ToolsInv, NEW a \in Agents, NEW r, AgentOK(r), ~Making(r),
           agent' = [agent EXCEPT ![a] = r],
           files' \subseteq Files, written' \in [ModelNames -> Nat],
           ModelsOK(agent', files', written', cutOff', contended'),
           UNCHANGED <<cards, boards, statements, toolCalls>>
    PROVE  ToolsInv'
<1>1. ToolsTypeOK /\ BoardsOK(agent, cards, boards)
  BY DEF ToolsInv
<1>2. BoardsOK(agent', cards, boards)
  BY <1>1, BoardsStay
<1>3. ToolsTypeOK'
  BY <1>1, OneAgent DEF ToolsTypeOK, BoardsTyped
<1> QED
  BY <1>2, <1>3 DEF ToolsInv

\* What opening the file of a model for writing leaves: that file, all empty.
LEMMA ToolsTruncateFile ==
    ASSUME ToolsInv, NEW a \in Agents, TruncateFile(a)
    PROVE  ToolsInv'
<1> DEFINE c == agent[a]
           r == [c EXCEPT !.at = "fill"]
           new == Written(c, FALSE)
<1>1. ToolsTypeOK /\ c.at = "write" /\ agent' = [agent EXCEPT ![a].at = "fill"]
  BY DEF ToolsInv, TruncateFile, Is
<1>2. /\ files' = Others(c) \cup {new}
      /\ written' = [written EXCEPT ![c.name] = c.call]
      /\ UNCHANGED <<cards, boards, statements, toolCalls, contended, cutOff>>
  BY DEF TruncateFile, ModelsIdle, BoardVars
<1>3. c \in WriteStep
  BY <1>1 DEF ToolsTypeOK, AgentOK, NoTool, DeleteStep, CardsStep, BoardStep
<1>4. c.name \in ModelNames /\ c.layer \in Layers /\ c.call \in Nat /\ c.call # 0
  BY <1>3 DEF WriteStep
<1>5. /\ r \in WriteStep /\ r.at = "fill" /\ r.name = c.name /\ r.layer = c.layer
      /\ r.call = c.call
  BY <1>3 DEF WriteStep
<1>6. agent' = [agent EXCEPT ![a] = r]
  BY <1>1
<1>7. new \in Files /\ new.name = c.name /\ new.layer = c.layer
      /\ new = [name |-> c.name, layer |-> c.layer, by |-> c.call, whole |-> FALSE]
  BY <1>4 DEF Files, Written
<1>8. OnModel(c, c.name)
  BY <1>1 DEF OnModel
<1> HIDE DEF c, r, new
<1>9. AgentOK(r) /\ OnModel(r, c.name) /\ ~Making(r) /\ \A m : OnModel(r, m) => m = c.name
  BY <1>5, StepKinds DEF AgentOK, OnModel
<1>10. ASSUME NEW m, m # c.name PROVE FilesOf(files', m) = FilesOf(files, m)
  BY <1>2, <1>7, <1>10 DEF FilesOf, Others
<1>11. /\ written' \in [ModelNames -> Nat] /\ written'[c.name] = c.call
       /\ \A m \in ModelNames : m # c.name => written'[m] = written[m]
  BY <1>1, <1>2, <1>4 DEF ToolsTypeOK
<1>12. agent'[a] = r
  BY <1>1, <1>6, <1>9, OneAgent
<1>13. ASSUME c.name \notin contended
       PROVE  /\ OneFile(agent', files', written', cutOff', c.name)
              /\ OnModel(r, c.name) => \A f \in FilesOf(files', c.name) : f.layer = r.layer
              /\ OnModel(r, c.name) /\ r.at = "fill" => r.call = written'[c.name]
  <2>1. \A f \in FilesOf(files, c.name) : f.layer = c.layer
    BY <1>4, <1>8, <1>13, AloneOnModel DEF c
  <2>2. FilesOf(files', c.name) = {new}
    BY <1>2, <1>7, <2>1 DEF FilesOf, Others
  <2>3. HalfDone(agent', written', cutOff', c.name)
    BY <1>5, <1>11, <1>12 DEF HalfDone
  <2>4. OneFile(agent', files', written', cutOff', c.name)
    BY <2>2, <2>3, <1>4, <1>7, <1>11 DEF OneFile
  <2> QED
    BY <2>2, <2>4, <1>5, <1>7, <1>11
<1>14. ModelsOK(agent', files', written', cutOff', contended)
  BY <1>2, <1>4, <1>6, <1>8, <1>9, <1>10, <1>11, <1>13, OtherModels DEF c
<1>15. files' \subseteq Files
  BY <1>1, <1>2, <1>7 DEF ToolsTypeOK, Others
<1> QED
  BY <1>2, <1>6, <1>9, <1>11, <1>14, <1>15, ToolsOnModel

\* The end of a write: the file that was opened is whole.
LEMMA ToolsFillFile ==
    ASSUME ToolsInv, NEW a \in Agents, FillFile(a)
    PROVE  ToolsInv'
<1> DEFINE c == agent[a]
           new == Written(c, TRUE)
<1>1. ToolsTypeOK /\ c.at = "fill" /\ agent' = [agent EXCEPT ![a] = NoTool]
  BY DEF ToolsInv, FillFile, Is, Done
<1>2. /\ files' = IF files = Others(c) THEN files ELSE Others(c) \cup {new}
      /\ UNCHANGED <<written, cards, boards, statements, toolCalls, contended, cutOff>>
  BY DEF FillFile, ModelsIdle, BoardVars
<1>3. c \in WriteStep
  BY <1>1 DEF ToolsTypeOK, AgentOK, NoTool, DeleteStep, CardsStep, BoardStep
<1>4. c.name \in ModelNames /\ c.layer \in Layers /\ c.call \in Nat /\ c.call # 0
  BY <1>3 DEF WriteStep
<1>5. new \in Files /\ new.name = c.name /\ new.layer = c.layer
      /\ new = [name |-> c.name, layer |-> c.layer, by |-> c.call, whole |-> TRUE]
  BY <1>4 DEF Files, Written
<1>6. OnModel(c, c.name)
  BY <1>1 DEF OnModel
<1> HIDE DEF c, new
<1>7. AgentOK(NoTool) /\ ~Making(NoTool) /\ \A m : ~OnModel(NoTool, m)
  BY StepKinds DEF AgentOK
<1>8. ASSUME NEW m, m # c.name PROVE FilesOf(files', m) = FilesOf(files, m)
  BY <1>2, <1>5, <1>8 DEF FilesOf, Others
<1>9. ASSUME c.name \notin contended
      PROVE  OneFile(agent', files', written, cutOff, c.name)
  <2>1. /\ \A f \in FilesOf(files, c.name) : f.layer = c.layer
        /\ OneFile(agent, files, written, cutOff, c.name)
        /\ c.call = written[c.name]
    BY <1>1, <1>4, <1>6, <1>9, AloneOnModel DEF c
  <2>2. FilesOf(files, c.name) # {}
    BY <2>1, <1>4 DEF OneFile
  <2>3. files # Others(c)
    BY <2>1, <2>2 DEF FilesOf, Others
  <2>4. FilesOf(files', c.name) = {new}
    BY <1>2, <1>5, <2>1, <2>3 DEF FilesOf, Others
  <2> QED
    BY <2>1, <2>4, <1>4, <1>5 DEF OneFile
<1>10. ModelsOK(agent', files', written', cutOff', contended)
  BY <1>1, <1>2, <1>4, <1>6, <1>7, <1>8, <1>9, OtherModels DEF c
<1>11. files' \subseteq Files
  BY <1>1, <1>2, <1>5 DEF ToolsTypeOK, Others
<1>12. written' \in [ModelNames -> Nat]
  BY <1>1, <1>2 DEF ToolsTypeOK
<1> QED
  BY <1>1, <1>2, <1>7, <1>10, <1>11, <1>12, ToolsOnModel

\* The removal: no file, or what another call left of it.
LEMMA ToolsRemoveFile ==
    ASSUME ToolsInv, NEW a \in Agents, RemoveFile(a)
    PROVE  ToolsInv'
<1> DEFINE c == agent[a]
<1>1. ToolsTypeOK /\ c.at = "delete" /\ agent' = [agent EXCEPT ![a] = NoTool]
  BY DEF ToolsInv, RemoveFile, Is, Done
<1>2. /\ files' = Others(c)
      /\ written' = IF files' = files THEN written ELSE [written EXCEPT ![c.name] = 0]
      /\ UNCHANGED <<cards, boards, statements, toolCalls, contended, cutOff>>
  BY DEF RemoveFile, ModelsIdle, BoardVars
<1>3. c \in DeleteStep
  BY <1>1 DEF ToolsTypeOK, AgentOK, NoTool, WriteStep, CardsStep, BoardStep
<1>4. c.name \in ModelNames /\ c.layer \in Layers
  BY <1>3 DEF DeleteStep
<1>5. OnModel(c, c.name)
  BY <1>1 DEF OnModel
<1> HIDE DEF c
<1>6. AgentOK(NoTool) /\ ~Making(NoTool) /\ \A m : ~OnModel(NoTool, m)
  BY StepKinds DEF AgentOK
<1>7. ASSUME NEW m, m # c.name PROVE FilesOf(files', m) = FilesOf(files, m)
  BY <1>2, <1>7 DEF FilesOf, Others
<1>8. written \in [ModelNames -> Nat]
  BY <1>1 DEF ToolsTypeOK
<1>9. /\ written' \in [ModelNames -> Nat]
      /\ written'[c.name] = IF files' = files THEN written[c.name] ELSE 0
      /\ \A m \in ModelNames : m # c.name => written'[m] = written[m]
  BY <1>2, <1>4, <1>8
<1>10. ASSUME c.name \notin contended
       PROVE  OneFile(agent', files', written', cutOff', c.name)
  <2>1. \A f \in FilesOf(files, c.name) : f.layer = c.layer
    BY <1>4, <1>5, <1>10, AloneOnModel DEF c
  <2>2. FilesOf(files', c.name) = {}
    BY <1>2, <2>1 DEF FilesOf, Others
  <2>3. OneFile(agent, files, written, cutOff, c.name)
    BY <1>4, <1>5, <1>10, AloneOnModel DEF c
  <2>4. CASE files' = files
    <3>1. written[c.name] = 0
      BY <2>2, <2>3, <2>4 DEF OneFile
    <3> QED
      BY <2>2, <2>4, <3>1, <1>9 DEF OneFile
  <2>5. CASE files' # files
    BY <2>2, <2>5, <1>9 DEF OneFile
  <2> QED
    BY <2>4, <2>5
<1>11. ModelsOK(agent', files', written', cutOff', contended)
  BY <1>1, <1>2, <1>4, <1>5, <1>6, <1>7, <1>9, <1>10, OtherModels DEF c
<1>12. files' \subseteq Files
  BY <1>1, <1>2 DEF ToolsTypeOK, Others
<1> QED
  BY <1>1, <1>2, <1>6, <1>9, <1>11, <1>12, ToolsOnModel

\* An error of the file system: the call is known to be cut off within its write.
LEMMA ToolsFileFails ==
    ASSUME ToolsInv, NEW a \in Agents, FileFails(a)
    PROVE  ToolsInv'
<1> DEFINE c == agent[a]
<1>1. /\ ToolsTypeOK /\ c.at \in {"write", "fill", "delete"}
      /\ agent' = [agent EXCEPT ![a] = NoTool]
      /\ cutOff' = IF c.at = "fill" THEN cutOff \cup {c.call} ELSE cutOff
  BY DEF ToolsInv, FileFails, Is, Done
<1>2. UNCHANGED <<files, written, cards, boards, statements, toolCalls, contended>>
  BY DEF FileFails, ModelsIdle, BoardVars
<1>3. c.name \in ModelNames
  <2>1. c \in WriteStep \/ c \in DeleteStep
    BY <1>1 DEF ToolsTypeOK, AgentOK, NoTool, CardsStep, BoardStep
  <2> QED
    BY <2>1 DEF WriteStep, DeleteStep
<1>4. OnModel(c, c.name)
  BY <1>1 DEF OnModel
<1> HIDE DEF c
<1>5. AgentOK(NoTool) /\ ~Making(NoTool) /\ \A m : ~OnModel(NoTool, m)
  BY StepKinds DEF AgentOK
<1>6. \A b \in Agents : agent'[b] = IF b = a THEN NoTool ELSE agent[b]
  BY <1>1, <1>5, OneAgent
<1>7. ASSUME c.name \notin contended
      PROVE  OneFile(agent', files', written', cutOff', c.name)
  <2>1. OneFile(agent, files, written, cutOff, c.name)
    BY <1>3, <1>4, <1>7, AloneOnModel DEF c
  <2>2. ASSUME HalfDone(agent, written, cutOff, c.name)
        PROVE  HalfDone(agent', written', cutOff', c.name)
    <3>1. CASE written[c.name] \in cutOff
      BY <3>1, <1>1, <1>2 DEF HalfDone
    <3>2. CASE \E b \in Agents : agent[b].at = "fill" /\ agent[b].name = c.name
                                   /\ agent[b].call = written[c.name]
      <4>1. PICK b \in Agents : agent[b].at = "fill" /\ agent[b].name = c.name
                                   /\ agent[b].call = written[c.name]
        BY <3>2
      <4>2. b = a
        BY <4>1, <1>3, <1>4, <1>7, AloneOnModel DEF c, OnModel
      <4> QED
        BY <4>1, <4>2, <1>1, <1>2 DEF HalfDone, c
    <3> QED
      BY <2>2, <3>1, <3>2 DEF HalfDone
  <2> QED
    BY <2>1, <2>2, <1>2 DEF OneFile
<1>8. ModelsOK(agent', files', written', cutOff', contended)
  BY <1>1, <1>2, <1>3, <1>4, <1>5, <1>7, OtherModels DEF c
<1>9. files' \subseteq Files /\ written' \in [ModelNames -> Nat]
  BY <1>1, <1>2 DEF ToolsTypeOK
<1> QED
  BY <1>1, <1>2, <1>5, <1>8, <1>9, ToolsOnModel

\* The steps of a dashboard: first what Metabase does with a request, then what
\* the agent makes of the answer.

\* A step on a dashboard keeps the models; what is left is the boards' part.
LEMMA ToolsOnBoard ==
    ASSUME ToolsInv, NEW a \in Agents, NEW r, AgentOK(r), \A n : ~OnModel(r, n),
           agent[a].at \in {"cards", "place", "link"}, agent' = [agent EXCEPT ![a] = r],
           BoardsTyped(cards', boards'), BoardsOK(agent', cards', boards'),
           UNCHANGED MetabaseIdle
    PROVE  ToolsInv'
<1>1. UNCHANGED <<files, written, cutOff, statements, toolCalls, contended>>
  BY DEF MetabaseIdle, FileVars
<1>2. ToolsTypeOK /\ agent[a].at # "fill" /\ ModelsOK(agent, files, written, cutOff, contended)
  BY DEF ToolsInv
<1>3. ModelsOK(agent', files, written, cutOff, contended)
  BY <1>2, ModelsStay
<1>4. ToolsTypeOK'
  BY <1>1, <1>2, OneAgent DEF ToolsTypeOK, BoardsTyped
<1> QED
  BY <1>1, <1>3, <1>4 DEF ToolsInv

\* A card that Metabase makes is no one's yet.
LEMMA CardMade ==
    ASSUME ToolsInv, NewCard
    PROVE  BoardsTyped(cards', boards') /\ BoardsOK(agent, cards', boards')
<1>1. cards' = cards + 1 /\ boards' = boards /\ cards \in Nat /\ BoardsTyped(cards, boards)
      /\ BoardsOK(agent, cards, boards)
  BY DEF NewCard, ToolsInv, ToolsTypeOK, BoardsTyped
<1>2. \A s : s \subseteq 1 .. cards => s \subseteq 1 .. cards'
  BY <1>1
<1>3. CardsApart(agent, cards', boards)
  BY <1>1, <1>2 DEF BoardsOK, CardsApart
<1> QED
  BY <1>1, <1>3 DEF BoardsOK, BoardsTyped

\* A board that Metabase makes is no one's yet, and has no cards.
LEMMA BoardMade ==
    ASSUME ToolsInv, NEW a \in Agents, agent[a].at = "cards", NewBoard(a)
    PROVE  /\ BoardsTyped(cards', boards') /\ BoardsOK(agent, cards', boards')
           /\ Cardinality(boards') = Cardinality(boards) + 1
           /\ \A b \in boards' : b.id = Cardinality(boards) + 1 =>
                 b.asked = agent[a].asked /\ b.unread = agent[a].unread
<1> DEFINE c == agent[a]
           n == Cardinality(boards)
           id == n + 1
           new == [id |-> id, asked |-> c.asked, unread |-> c.unread,
                   placed |-> {}, public |-> FALSE]
<1>1. BoardsTyped(cards, boards) /\ boards' = boards \cup {new} /\ cards' = cards
  BY DEF ToolsInv, ToolsTypeOK, NewBoard
<1>2. c \in CardsStep
  BY DEF ToolsInv, ToolsTypeOK, AgentOK, NoTool, WriteStep, DeleteStep, BoardStep
<1>3. c.asked \in 1 .. MaxCards /\ c.unread \in Nat
  BY <1>2 DEF CardsStep
<1>4. n \in Nat /\ IsFiniteSet(boards)
  BY <1>1, FS_CardinalityType DEF BoardsTyped
<1>5. new \in Boards
  BY <1>3, <1>4 DEF Boards
<1>6. new.id = id /\ new.asked = c.asked /\ new.unread = c.unread /\ new.placed = {}
      /\ ~new.public
  OBVIOUS
<1>7. id \notin 1 .. n /\ id \in 1 .. id /\ 1 .. n \subseteq 1 .. id
  BY <1>4
<1> HIDE DEF new, id
<1>8. /\ BoardsApart(n, boards) /\ CardsApart(agent, cards, boards) /\ OwnBoards(agent, n, boards)
      /\ \A b \in boards : b.public => HasCards(b)
  BY DEF ToolsInv, BoardsOK
<1>9. \A b \in boards : b.id \in 1 .. n /\ b.id # id
  BY <1>8, <1>7 DEF BoardsApart
<1>10. new \notin boards
  BY <1>9, <1>6
<1>11. Cardinality(boards') = id /\ IsFiniteSet(boards')
  BY <1>1, <1>4, <1>10, FS_AddElement DEF id
<1>12. BoardsApart(id, boards')
  BY <1>1, <1>6, <1>7, <1>8, <1>9 DEF BoardsApart
<1>13. CardsApart(agent, cards, boards')
  BY <1>1, <1>6, <1>8 DEF CardsApart
<1>14. OwnBoards(agent, id, boards')
  <2>1. \A b \in Agents : Owning(agent[b]) => agent[b].id \in 1 .. id /\ agent[b].id # id
    BY <1>7, <1>8 DEF OwnBoards
  <2>2. \A b \in Agents, x \in boards' : Owning(agent[b]) /\ agent[b].id = x.id => x \in boards
    BY <2>1, <1>1, <1>6
  <2> QED
    BY <2>1, <2>2, <1>8 DEF OwnBoards
<1>15. \A b \in boards' : b.public => HasCards(b)
  BY <1>1, <1>6, <1>8
<1>16. BoardsOK(agent, cards, boards')
  BY <1>11, <1>12, <1>13, <1>14, <1>15 DEF BoardsOK
<1>17. \A b \in boards' : b.id = id => b.asked = c.asked /\ b.unread = c.unread
  BY <1>1, <1>6, <1>9
<1>18. BoardsTyped(cards', boards')
  BY <1>1, <1>5, <1>11 DEF BoardsTyped
<1> QED
  BY <1>1, <1>11, <1>16, <1>17, <1>18 DEF id

\* A change of one board, by the call that made it, keeps their number and who
\* they are.
LEMMA BoardsChange ==
    ASSUME IsFiniteSet(boards), BoardsApart(Cardinality(boards), boards),
           NEW ch \in [boards -> Boards], boards' = {ch[b] : b \in boards},
           \A b \in boards : ch[b].id = b.id
    PROVE  /\ IsFiniteSet(boards') /\ Cardinality(boards') = Cardinality(boards)
           /\ boards' \subseteq Boards
<1>1. ch \in [boards -> boards']
  OBVIOUS
<1>2. \A b, d \in boards : ch[b] = ch[d] => b = d
  BY DEF BoardsApart
<1>3. \A x \in boards' : \E b \in boards : ch[b] = x
  OBVIOUS
<1>4. ch \in Bijection(boards, boards')
  BY <1>1, <1>2, <1>3 DEF Bijection, Injection, Surjection, IsInjective
<1>5. ExistsBijection(boards, boards')
  BY <1>4 DEF ExistsBijection
<1> QED
  BY <1>5, FS_Bijection

\* What the owner of a board may have Metabase do with it: place its cards,
\* or leave those that are there.
LEMMA OwnBoardChanged ==
    ASSUME ToolsInv, NEW a \in Agents, Owning(agent[a]), cards' = cards,
           NEW ch, DOMAIN ch = boards, ch = [b \in boards |-> ch[b]],
           boards' = {ch[b] : b \in boards},
           \A b \in boards : ch[b] \in Boards /\ ch[b].id = b.id,
           \A b \in boards : b.id # agent[a].id => ch[b] = b,
           \A b \in boards : b.id = agent[a].id =>
              /\ ch[b].placed = b.placed \/ ch[b].placed = agent[a].made
              /\ HasCards(ch[b]) /\ OwnsCards(agent[a], ch[b])
    PROVE  /\ BoardsTyped(cards', boards') /\ BoardsOK(agent, cards', boards')
           /\ Cardinality(boards') = Cardinality(boards)
           /\ \A x \in boards' : x.id = agent[a].id => HasCards(x)
<1> DEFINE c == agent[a]
           n == Cardinality(boards)
<1>1. IsFiniteSet(boards) /\ cards \in Nat
  BY DEF ToolsInv, ToolsTypeOK, BoardsTyped
<1>2. /\ BoardsApart(n, boards) /\ CardsApart(agent, cards, boards) /\ OwnBoards(agent, n, boards)
      /\ \A b \in boards : b.public => HasCards(b)
  BY DEF ToolsInv, BoardsOK
<1>3. ch \in [boards -> Boards]
  OBVIOUS
<1>4. IsFiniteSet(boards') /\ Cardinality(boards') = n /\ boards' \subseteq Boards
  BY <1>1, <1>2, <1>3, BoardsChange
<1>5. Making(c)
  BY DEF Making, Owning
<1> HIDE DEF c
<1>6. ASSUME NEW x \in boards'
      PROVE  \E b \in boards :
               /\ x = ch[b] /\ x.id = b.id
               /\ x.id # c.id => x = b
               /\ x.id = c.id => /\ x.placed = b.placed \/ x.placed = c.made
                                 /\ HasCards(x) /\ OwnsCards(c, x)
  <2>1. PICK b \in boards : x = ch[b]
    OBVIOUS
  <2>2. ch[b].id = b.id
    OBVIOUS
  <2>3. b.id # c.id => ch[b] = b
    BY DEF c
  <2>4. b.id = c.id => /\ ch[b].placed = b.placed \/ ch[b].placed = c.made
                       /\ HasCards(ch[b]) /\ OwnsCards(c, ch[b])
    BY DEF c
  <2> QED
    BY <2>1, <2>2, <2>3, <2>4
<1>7. \A b \in boards : b.id # c.id => c.made \cap b.placed = {}
  BY <1>2, <1>5 DEF CardsApart, c
<1>8. BoardsApart(n, boards')
  <2>1. \A x \in boards' : x.id \in 1 .. n
    BY <1>2, <1>6 DEF BoardsApart
  <2>2. \A x, y \in boards' : x.id = y.id => x = y
    BY <1>2, <1>6 DEF BoardsApart
  <2>3. ASSUME NEW x \in boards', NEW y \in boards', x.id # y.id
        PROVE  x.placed \cap y.placed = {}
    <3>1. PICK b \in boards : /\ x.id = b.id
                              /\ x.id # c.id => x = b
                              /\ x.id = c.id => x.placed = b.placed \/ x.placed = c.made
      BY <1>6
    <3>2. PICK d \in boards : /\ y.id = d.id
                              /\ y.id # c.id => y = d
                              /\ y.id = c.id => y.placed = d.placed \/ y.placed = c.made
      BY <1>6
    <3>3. b.placed \cap d.placed = {}
      BY <2>3, <3>1, <3>2, <1>2 DEF BoardsApart
    <3>4. CASE x.id = c.id
      BY <2>3, <3>1, <3>2, <3>3, <3>4, <1>7
    <3>5. CASE y.id = c.id
      BY <2>3, <3>1, <3>2, <3>3, <3>5, <1>7
    <3> QED
      BY <3>1, <3>2, <3>3, <3>4, <3>5
  <2> QED
    BY <2>1, <2>2, <2>3 DEF BoardsApart
<1>9. CardsApart(agent, cards, boards')
  <2>1. c.made \subseteq 1 .. cards /\ \A b \in boards : b.placed \subseteq 1 .. cards
    BY <1>2, <1>5 DEF CardsApart, c
  <2>2. \A x \in boards' : x.placed \subseteq 1 .. cards
    BY <2>1, <1>6
  <2>3. ASSUME NEW d \in Agents, NEW x \in boards', Making(agent[d])
        PROVE  agent[d].made \cap x.placed = {} \/ (Owning(agent[d]) /\ agent[d].id = x.id)
    <3>1. PICK b \in boards : /\ x.id = b.id
                              /\ x.id # c.id => x = b
                              /\ x.id = c.id => x.placed = b.placed \/ x.placed = c.made
      BY <1>6
    <3>2. agent[d].made \cap b.placed = {} \/ (Owning(agent[d]) /\ agent[d].id = b.id)
      BY <2>3, <1>2 DEF CardsApart
    <3>3. CASE x.placed = b.placed
      BY <3>1, <3>2, <3>3
    <3>4. CASE x.id = c.id /\ d = a
      BY <3>4 DEF c
    <3>5. CASE x.placed = c.made /\ d # a
      <4>1. agent[d].made \cap c.made = {}
        BY <2>3, <3>5, <1>2, <1>5 DEF CardsApart, c
      <4> QED
        BY <4>1, <3>5
    <3> QED
      BY <3>1, <3>3, <3>4, <3>5
  <2> QED
    BY <2>2, <2>3, <1>2 DEF CardsApart
<1>10. OwnBoards(agent, n, boards')
  <2>1. ASSUME NEW d \in Agents, NEW x \in boards', Owning(agent[d]), agent[d].id = x.id
        PROVE  OwnsCards(agent[d], x)
    <3>1. CASE x.id = c.id
      <4>1. d = a
        BY <2>1, <3>1, <1>2 DEF OwnBoards, c
      <4> QED
        BY <4>1, <3>1, <1>6 DEF c
    <3>2. CASE x.id # c.id
      <4>1. x \in boards
        BY <3>2, <1>6
      <4> QED
        BY <4>1, <2>1, <1>2 DEF OwnBoards
    <3> QED
      BY <3>1, <3>2
  <2> QED
    BY <2>1, <1>2 DEF OwnBoards
<1>11. \A x \in boards' : x.public => HasCards(x)
  <2> TAKE x \in boards'
  <2>1. CASE x.id = c.id
    BY <2>1, <1>6
  <2>2. CASE x.id # c.id
    BY <2>2, <1>2, <1>6
  <2> QED
    BY <2>1, <2>2
<1>12. BoardsOK(agent, cards, boards')
  BY <1>4, <1>8, <1>9, <1>10, <1>11 DEF BoardsOK
<1>13. \A x \in boards' : x.id = c.id => HasCards(x)
  BY <1>6
<1> QED
  BY <1>1, <1>4, <1>12, <1>13 DEF BoardsTyped, c

\* There are as many cards as have been made.
LEMMA FiniteCards == ASSUME NEW n \in Nat, NEW S, S \subseteq 1 .. n PROVE IsFiniteSet(S)
<1>1. IsFiniteSet(1 .. n)
  BY FS_Interval
<1> QED
  BY <1>1, FS_Subset

\* What each request of the owner does with its board.
LEMMA OwnerRequests ==
    ASSUME ToolsInv, NEW a \in Agents,
           \/ agent[a].at = "place" /\ Placed(a)
           \/ /\ agent[a].at = "place"
              /\ OnBoard(a, LAMBDA b : [b EXCEPT !.unread = b.asked])
           \/ agent[a].at = "link" /\ Linked(a)
    PROVE  /\ BoardsTyped(cards', boards') /\ BoardsOK(agent, cards', boards')
           /\ Cardinality(boards') = Cardinality(boards)
           /\ \A x \in boards' : x.id = agent[a].id => HasCards(x)
<1> DEFINE c == agent[a]
<1>1. c \in BoardStep /\ Owning(c)
  BY DEF ToolsInv, ToolsTypeOK, AgentOK, NoTool, WriteStep, DeleteStep, CardsStep, Owning
<1>2. c.made \in SUBSET Nat
  BY <1>1 DEF BoardStep
<1>3. ASSUME NEW b \in boards
      PROVE  /\ b \in Boards /\ b.asked \in Nat /\ b.unread \in Nat
             /\ b.placed \in SUBSET Nat /\ Cardinality(b.placed) \in Nat
  <2>1. b \in Boards
    BY DEF ToolsInv, ToolsTypeOK, BoardsTyped
  <2>2. b.placed \subseteq 1 .. cards /\ cards \in Nat
    BY DEF ToolsInv, ToolsTypeOK, BoardsTyped, BoardsOK, CardsApart
  <2>3. IsFiniteSet(b.placed)
    BY <2>2, FiniteCards
  <2>4. b.asked \in Nat /\ b.unread \in Nat /\ b.placed \in SUBSET Nat
    BY <2>1 DEF Boards
  <2> QED
    BY <2>1, <2>3, <2>4, FS_CardinalityType
<1>4. ASSUME NEW b \in boards, b.id = c.id PROVE OwnsCards(c, b)
  BY <1>1, <1>4 DEF ToolsInv, BoardsOK, OwnBoards
<1>5. CASE c.at = "place" /\ Placed(a)
  <2> DEFINE ch == [b \in boards |-> IF b.id = c.id THEN [b EXCEPT !.placed = c.made] ELSE b]
  <2>1. boards' = {ch[b] : b \in boards} /\ cards' = cards
    BY <1>5 DEF Placed, OnBoard
  <2>2. DOMAIN ch = boards /\ ch = [b \in boards |-> ch[b]]
    OBVIOUS
  <2>3. ASSUME NEW b \in boards
        PROVE  /\ ch[b] \in Boards /\ ch[b].id = b.id
               /\ b.id # c.id => ch[b] = b
               /\ b.id = c.id => ch[b].placed = c.made /\ HasCards(ch[b]) /\ OwnsCards(c, ch[b])
    <3>1. b \in Boards
      BY <1>3
    <3>2. [b EXCEPT !.placed = c.made] \in Boards
      BY <3>1, <1>2 DEF Boards
    <3>3. /\ [b EXCEPT !.placed = c.made].id = b.id
          /\ [b EXCEPT !.placed = c.made].asked = b.asked
          /\ [b EXCEPT !.placed = c.made].unread = b.unread
          /\ [b EXCEPT !.placed = c.made].placed = c.made
      BY <3>1 DEF Boards
    <3>4. ch[b] = IF b.id = c.id THEN [b EXCEPT !.placed = c.made] ELSE b
      OBVIOUS
    <3> HIDE DEF ch
    <3>5. b.id = c.id => b.asked <= Cardinality(c.made) + b.unread
      BY <1>4, <1>5 DEF OwnsCards
    <3> QED
      BY <3>1, <3>2, <3>3, <3>4, <3>5 DEF OwnsCards, HasCards
  <2> HIDE DEF ch
  <2>4. \A b \in boards : ch[b] \in Boards /\ ch[b].id = b.id
    BY <2>3
  <2>5. \A b \in boards : b.id # agent[a].id => ch[b] = b
    BY <2>3
  <2>6. \A b \in boards : b.id = agent[a].id =>
           /\ ch[b].placed = b.placed \/ ch[b].placed = agent[a].made
           /\ HasCards(ch[b]) /\ OwnsCards(agent[a], ch[b])
    BY <2>3
  <2> QED
    BY <1>1, <2>1, <2>2, <2>4, <2>5, <2>6, OwnBoardChanged
<1>6. CASE c.at = "place" /\ OnBoard(a, LAMBDA b : [b EXCEPT !.unread = b.asked])
  <2> DEFINE ch == [b \in boards |-> IF b.id = c.id THEN [b EXCEPT !.unread = b.asked] ELSE b]
  <2>1. boards' = {ch[b] : b \in boards} /\ cards' = cards
    BY <1>6 DEF OnBoard
  <2>2. DOMAIN ch = boards /\ ch = [b \in boards |-> ch[b]]
    OBVIOUS
  <2>3. Cardinality(c.made) \in Nat
    <3>1. c.made \subseteq 1 .. cards /\ cards \in Nat
      BY <1>1 DEF ToolsInv, ToolsTypeOK, BoardsTyped, BoardsOK, CardsApart, Making, Owning
    <3> QED
      BY <3>1, FiniteCards, FS_CardinalityType
  <2>4. ASSUME NEW b \in boards
        PROVE  /\ ch[b] \in Boards /\ ch[b].id = b.id
               /\ b.id # c.id => ch[b] = b
               /\ b.id = c.id => ch[b].placed = b.placed /\ HasCards(ch[b]) /\ OwnsCards(c, ch[b])
    <3>1. b \in Boards /\ b.asked \in Nat
      BY <1>3
    <3>2. [b EXCEPT !.unread = b.asked] \in Boards
      BY <3>1 DEF Boards
    <3>3. /\ [b EXCEPT !.unread = b.asked].id = b.id
          /\ [b EXCEPT !.unread = b.asked].asked = b.asked
          /\ [b EXCEPT !.unread = b.asked].unread = b.asked
          /\ [b EXCEPT !.unread = b.asked].placed = b.placed
      BY <3>1 DEF Boards
    <3>4. ch[b] = IF b.id = c.id THEN [b EXCEPT !.unread = b.asked] ELSE b
      OBVIOUS
    <3> HIDE DEF ch
    <3>5. /\ b.asked <= Cardinality(b.placed) + b.asked
          /\ b.asked <= Cardinality(c.made) + b.asked
      BY <1>3, <2>3, <3>1
    <3> QED
      BY <3>1, <3>2, <3>3, <3>4, <3>5 DEF OwnsCards, HasCards
  <2> HIDE DEF ch
  <2>5. \A b \in boards : ch[b] \in Boards /\ ch[b].id = b.id
    BY <2>4
  <2>6. \A b \in boards : b.id # agent[a].id => ch[b] = b
    BY <2>4
  <2>7. \A b \in boards : b.id = agent[a].id =>
           /\ ch[b].placed = b.placed \/ ch[b].placed = agent[a].made
           /\ HasCards(ch[b]) /\ OwnsCards(agent[a], ch[b])
    BY <2>4
  <2> QED
    BY <1>1, <2>1, <2>2, <2>5, <2>6, <2>7, OwnBoardChanged
<1>7. CASE c.at = "link" /\ Linked(a)
  <2> DEFINE ch == [b \in boards |-> IF b.id = c.id THEN [b EXCEPT !.public = TRUE] ELSE b]
  <2>1. boards' = {ch[b] : b \in boards} /\ cards' = cards
    BY <1>7 DEF Linked, OnBoard
  <2>2. DOMAIN ch = boards /\ ch = [b \in boards |-> ch[b]]
    OBVIOUS
  <2>3. ASSUME NEW b \in boards
        PROVE  /\ ch[b] \in Boards /\ ch[b].id = b.id
               /\ b.id # c.id => ch[b] = b
               /\ b.id = c.id => ch[b].placed = b.placed /\ HasCards(ch[b]) /\ OwnsCards(c, ch[b])
    <3>1. b \in Boards
      BY <1>3
    <3>2. [b EXCEPT !.public = TRUE] \in Boards
      BY <3>1 DEF Boards
    <3>3. /\ [b EXCEPT !.public = TRUE].id = b.id
          /\ [b EXCEPT !.public = TRUE].asked = b.asked
          /\ [b EXCEPT !.public = TRUE].unread = b.unread
          /\ [b EXCEPT !.public = TRUE].placed = b.placed
      BY <3>1 DEF Boards
    <3>4. ch[b] = IF b.id = c.id THEN [b EXCEPT !.public = TRUE] ELSE b
      OBVIOUS
    <3> HIDE DEF ch
    <3>5. b.id = c.id => HasCards(b)
      BY <1>4, <1>7 DEF OwnsCards
    <3> QED
      BY <3>1, <3>2, <3>3, <3>4, <3>5, <1>7 DEF OwnsCards, HasCards
  <2> HIDE DEF ch
  <2>4. \A b \in boards : ch[b] \in Boards /\ ch[b].id = b.id
    BY <2>3
  <2>5. \A b \in boards : b.id # agent[a].id => ch[b] = b
    BY <2>3
  <2>6. \A b \in boards : b.id = agent[a].id =>
           /\ ch[b].placed = b.placed \/ ch[b].placed = agent[a].made
           /\ HasCards(ch[b]) /\ OwnsCards(agent[a], ch[b])
    BY <2>3
  <2> QED
    BY <1>1, <2>1, <2>2, <2>4, <2>5, <2>6, OwnBoardChanged
<1> QED
  BY <1>5, <1>6, <1>7

\* An agent that goes on with the cards it made, as the owner of a board that
\* no other owns.
LEMMA OwnerGoesOn ==
    ASSUME ToolsTypeOK, NEW count, NEW bs, BoardsOK(agent, count, bs),
           NEW a \in Agents, NEW r, AgentOK(r), agent' = [agent EXCEPT ![a] = r],
           Making(agent[a]), Owning(r), r.made = agent[a].made,
           Owning(agent[a]) => r.id = agent[a].id,
           r.id \in 1 .. Cardinality(bs),
           \A b \in Agents : b # a /\ Owning(agent[b]) => agent[b].id # r.id,
           \A b \in bs : b.id = r.id => OwnsCards(r, b)
    PROVE  BoardsOK(agent', count, bs)
<1>1. \A b \in Agents : agent'[b] = IF b = a THEN r ELSE agent[b]
  BY OneAgent
<1>2. Making(r)
  BY DEF Making, Owning
<1>3. CardsApart(agent', count, bs)
  <2>1. \A b \in Agents : Making(agent'[b]) => Making(agent[b]) /\ agent'[b].made = agent[b].made
    BY <1>1, <1>2
  <2>2. CardsApart(agent, count, bs)
    BY DEF BoardsOK
  <2>3. ASSUME NEW d \in Agents, NEW b \in bs, Making(agent'[d])
        PROVE  agent'[d].made \cap b.placed = {} \/ (Owning(agent'[d]) /\ agent'[d].id = b.id)
    <3>1. agent[d].made \cap b.placed = {} \/ (Owning(agent[d]) /\ agent[d].id = b.id)
      BY <2>1, <2>2, <2>3 DEF CardsApart
    <3>2. CASE d = a
      BY <3>1, <3>2, <1>1, <2>1, <2>3
    <3>3. CASE d # a
      BY <3>1, <3>3, <1>1
    <3> QED
      BY <3>2, <3>3
  <2>4. \A b \in Agents : Making(agent'[b]) => agent'[b].made \subseteq 1 .. count
    BY <2>1, <2>2 DEF CardsApart
  <2>5. \A b, d \in Agents : Making(agent'[b]) /\ Making(agent'[d]) /\ b # d
                                => agent'[b].made \cap agent'[d].made = {}
    BY <2>1, <2>2 DEF CardsApart
  <2> QED
    BY <2>2, <2>3, <2>4, <2>5 DEF CardsApart
<1>4. OwnBoards(agent', Cardinality(bs), bs)
  <2>1. OwnBoards(agent, Cardinality(bs), bs)
    BY DEF BoardsOK
  <2> QED
    BY <2>1, <1>1 DEF OwnBoards
<1> QED
  BY <1>3, <1>4 DEF BoardsOK

\* A card is new when it is created, and belongs to the agent that made it.
LEMMA ToolsNewCard ==
    ASSUME ToolsInv, NEW a \in Agents, agent[a].at = "cards", NewCard, UNCHANGED MetabaseIdle,
           agent' = [agent EXCEPT ![a].made = @ \cup {cards + 1}]
    PROVE  ToolsInv'
<1> DEFINE c == agent[a]
           new == cards + 1
           r == [agent[a] EXCEPT !.made = agent[a].made \cup {cards + 1}]
<1>1. ToolsTypeOK /\ cards' = new /\ boards' = boards
  BY DEF ToolsInv, NewCard
<1>2. c \in CardsStep /\ cards \in Nat
  BY <1>1 DEF ToolsTypeOK, BoardsTyped, AgentOK, NoTool, WriteStep, DeleteStep, BoardStep
<1>3. r \in CardsStep
  BY <1>2 DEF CardsStep
<1>4. r.at = "cards" /\ r.made = c.made \cup {new}
  BY <1>2 DEF CardsStep
<1>5. agent' = [agent EXCEPT ![a] = r]
  OBVIOUS
<1> HIDE DEF r, new
<1>6. AgentOK(r) /\ (\A n : ~OnModel(r, n)) /\ Making(r) /\ ~Owning(r) /\ Making(c) /\ ~Owning(c)
  BY <1>3, <1>4, StepKinds DEF AgentOK, Making, Owning
<1>7. \A b \in Agents : agent'[b] = IF b = a THEN r ELSE agent[b]
  BY <1>1, <1>5, <1>6, OneAgent
<1>8. new \in Nat /\ new \notin 1 .. cards /\ 1 .. cards \subseteq 1 .. new /\ new \in 1 .. new
  BY <1>2 DEF new
<1>9. CardsApart(agent, cards, boards)
  BY DEF ToolsInv, BoardsOK
<1>10. CardsApart(agent', new, boards)
  <2>1. ASSUME NEW b \in Agents, Making(agent'[b]) PROVE agent'[b].made \subseteq 1 .. new
    BY <2>1, <1>4, <1>6, <1>7, <1>8, <1>9 DEF CardsApart
  <2>2. ASSUME NEW b \in Agents, NEW d \in Agents, Making(agent'[b]), Making(agent'[d]), b # d
        PROVE  agent'[b].made \cap agent'[d].made = {}
    <3>1. CASE b # a /\ d # a
      BY <3>1, <2>2, <1>7, <1>9 DEF CardsApart
    <3>2. CASE b = a
      <4>1. agent'[d] = agent[d] /\ agent'[b] = r /\ agent[d].made \subseteq 1 .. cards
            /\ c.made \cap agent[d].made = {}
        BY <3>2, <2>2, <1>6, <1>7, <1>9 DEF CardsApart
      <4> QED
        BY <4>1, <1>4, <1>8
    <3>3. CASE d = a
      <4>1. agent'[b] = agent[b] /\ agent'[d] = r /\ agent[b].made \subseteq 1 .. cards
            /\ c.made \cap agent[b].made = {}
        BY <3>3, <2>2, <1>6, <1>7, <1>9 DEF CardsApart
      <4> QED
        BY <4>1, <1>4, <1>8
    <3> QED
      BY <3>1, <3>2, <3>3
  <2>3. \A b \in boards : b.placed \subseteq 1 .. cards
    BY <1>9 DEF CardsApart
  <2>4. ASSUME NEW d \in Agents, NEW b \in boards, Making(agent'[d])
        PROVE  agent'[d].made \cap b.placed = {} \/ (Owning(agent'[d]) /\ agent'[d].id = b.id)
    <3>1. CASE d # a
      BY <3>1, <2>4, <1>7, <1>9 DEF CardsApart
    <3>2. CASE d = a
      <4>1. c.made \cap b.placed = {}
        BY <1>6, <1>9 DEF CardsApart
      <4> QED
        BY <4>1, <3>2, <2>3, <1>4, <1>7, <1>8
    <3> QED
      BY <3>1, <3>2
  <2>5. \A b \in boards : b.placed \subseteq 1 .. new
    BY <2>3, <1>8
  <2> QED
    BY <2>1, <2>2, <2>4, <2>5 DEF CardsApart
<1>11. OwnBoards(agent', Cardinality(boards), boards)
  <2>1. \A b \in Agents : Owning(agent'[b]) => agent'[b] = agent[b]
    BY <1>6, <1>7
  <2> QED
    BY <2>1 DEF ToolsInv, BoardsOK, OwnBoards
<1>12. BoardsOK(agent', cards', boards')
  BY <1>1, <1>10, <1>11 DEF ToolsInv, BoardsOK
<1>13. BoardsTyped(cards', boards')
  BY <1>1, <1>8 DEF ToolsTypeOK, BoardsTyped
<1> QED
  BY <1>5, <1>6, <1>12, <1>13, ToolsOnBoard

\* A card whose answer could not be read belongs to no one.
LEMMA ToolsLostCard ==
    ASSUME ToolsInv, NEW a \in Agents, agent[a].at = "cards", NewCard \/ UNCHANGED BoardVars,
           UNCHANGED MetabaseIdle, agent' = [agent EXCEPT ![a].unread = @ + 1]
    PROVE  ToolsInv'
<1> DEFINE c == agent[a]
           r == [agent[a] EXCEPT !.unread = agent[a].unread + 1]
<1>1. ToolsTypeOK
  BY DEF ToolsInv
<1>2. c \in CardsStep
  BY <1>1 DEF ToolsTypeOK, AgentOK, NoTool, WriteStep, DeleteStep, BoardStep
<1>3. r \in CardsStep /\ r.at = "cards" /\ r.made = c.made
  BY <1>2 DEF CardsStep
<1>4. agent' = [agent EXCEPT ![a] = r]
  OBVIOUS
<1> HIDE DEF r
<1>5. AgentOK(r) /\ (\A n : ~OnModel(r, n)) /\ ~Owning(r) /\ Making(c) /\ ~Owning(c)
  BY <1>3, StepKinds DEF AgentOK, Making, Owning
<1>6. \A b \in Agents : agent'[b] = IF b = a THEN r ELSE agent[b]
  BY <1>1, <1>4, <1>5, OneAgent
<1>7. BoardsTyped(cards', boards') /\ BoardsOK(agent, cards', boards')
  <2>1. CASE NewCard
    BY <2>1, CardMade
  <2>2. CASE UNCHANGED BoardVars
    BY <2>2 DEF BoardVars, ToolsInv, ToolsTypeOK
  <2> QED
    BY <2>1, <2>2
<1>8. \A b \in Agents : Making(agent'[b]) => Making(agent[b]) /\ agent'[b].made = agent[b].made
  BY <1>3, <1>5, <1>6
<1>9. \A b \in Agents : /\ Owning(agent[b]) => agent'[b] = agent[b]
                        /\ Owning(agent'[b]) => agent'[b] = agent[b]
  BY <1>5, <1>6
<1>10. CardsApart(agent', cards', boards')
  <2>1. CardsApart(agent, cards', boards')
    BY <1>7 DEF BoardsOK
  <2>2. \A b \in Agents : Making(agent'[b]) => agent'[b].made \subseteq 1 .. cards'
    BY <2>1, <1>8 DEF CardsApart
  <2>3. \A b, d \in Agents : Making(agent'[b]) /\ Making(agent'[d]) /\ b # d
                                => agent'[b].made \cap agent'[d].made = {}
    BY <2>1, <1>8 DEF CardsApart
  <2>4. \A d \in Agents, b \in boards' : Making(agent'[d]) =>
           agent'[d].made \cap b.placed = {} \/ (Owning(agent'[d]) /\ agent'[d].id = b.id)
    BY <2>1, <1>8, <1>9 DEF CardsApart
  <2> QED
    BY <2>1, <2>2, <2>3, <2>4 DEF CardsApart
<1>11. OwnBoards(agent', Cardinality(boards'), boards')
  BY <1>7, <1>9 DEF BoardsOK, OwnBoards
<1>12. BoardsOK(agent', cards', boards')
  BY <1>7, <1>10, <1>11 DEF BoardsOK
<1> QED
  BY <1>4, <1>5, <1>7, <1>12, ToolsOnBoard

\* Either way, a card is created.
LEMMA ToolsCreateCard ==
    ASSUME ToolsInv, NEW a \in Agents, CreateCard(a)
    PROVE  ToolsInv'
<1>1. agent[a].at = "cards" /\ UNCHANGED MetabaseIdle
  BY DEF CreateCard, Is
<1>2. CASE NewCard /\ agent' = [agent EXCEPT ![a].made = @ \cup {cards + 1}]
  BY <1>1, <1>2, ToolsNewCard
<1>3. CASE (NewCard \/ UNCHANGED BoardVars) /\ agent' = [agent EXCEPT ![a].unread = @ + 1]
  BY <1>1, <1>3, ToolsLostCard
<1> QED
  BY <1>2, <1>3 DEF CreateCard

\* A board becomes its maker's.
LEMMA ToolsCreateBoard ==
    ASSUME ToolsInv, NEW a \in Agents, CreateBoard(a)
    PROVE  ToolsInv'
<1> DEFINE c == agent[a]
           id == Cardinality(boards) + 1
           r == [at |-> "place", id |-> id, made |-> c.made]
<1>1. /\ ToolsTypeOK /\ c.at = "cards" /\ ~MoreCards(a) /\ NewBoard(a)
      /\ agent' = [agent EXCEPT ![a] = r] /\ UNCHANGED MetabaseIdle
  BY DEF ToolsInv, CreateBoard, Is
<1>2. c \in CardsStep
  BY <1>1 DEF ToolsTypeOK, AgentOK, NoTool, WriteStep, DeleteStep, BoardStep
<1>3. c.asked \in Nat /\ c.made \in SUBSET Nat /\ c.unread \in Nat
  BY <1>2 DEF CardsStep
<1>4. Cardinality(boards) \in Nat
  BY <1>1, FS_CardinalityType DEF ToolsTypeOK, BoardsTyped
<1>5. r \in BoardStep /\ r.at = "place" /\ r.id = id /\ r.made = c.made
  BY <1>3, <1>4 DEF BoardStep
<1> HIDE DEF r
<1>6. AgentOK(r) /\ (\A m : ~OnModel(r, m)) /\ Making(r) /\ Owning(r) /\ Making(c) /\ ~Owning(c)
  BY <1>1, <1>5, StepKinds DEF AgentOK, Making, Owning
<1>7. /\ BoardsTyped(cards', boards') /\ BoardsOK(agent, cards', boards')
      /\ Cardinality(boards') = id
      /\ \A b \in boards' : b.id = id => b.asked = c.asked /\ b.unread = c.unread
  BY <1>1, BoardMade
<1>8. c.asked <= Cardinality(c.made) + c.unread
  <2>1. c.made \subseteq 1 .. cards /\ cards \in Nat
    BY <1>6 DEF ToolsInv, ToolsTypeOK, BoardsTyped, BoardsOK, CardsApart
  <2>2. Cardinality(c.made) \in Nat
    BY <2>1, FiniteCards, FS_CardinalityType
  <2>3. ~(Cardinality(c.made) + c.unread < c.asked)
    BY <1>1 DEF MoreCards
  <2> QED
    BY <2>2, <2>3, <1>3
<1>9. \A b \in Agents : b # a /\ Owning(agent[b]) => agent[b].id # r.id
  <2>1. OwnBoards(agent, Cardinality(boards), boards)
    BY DEF ToolsInv, BoardsOK
  <2>2. \A b \in Agents : Owning(agent[b]) => agent[b].id \in 1 .. Cardinality(boards)
    BY <2>1 DEF OwnBoards
  <2> QED
    BY <2>2, <1>4, <1>5
<1>10. r.id \in 1 .. Cardinality(boards')
  BY <1>4, <1>5, <1>7
<1>11. \A b \in boards' : b.id = r.id => OwnsCards(r, b)
  BY <1>5, <1>7, <1>8 DEF OwnsCards
<1>12. BoardsOK(agent', cards', boards')
  BY <1>1, <1>5, <1>6, <1>7, <1>9, <1>10, <1>11, OwnerGoesOn
<1> QED
  BY <1>1, <1>6, <1>7, <1>12, ToolsOnBoard

\* The cards of an agent go on the board of that agent only.
LEMMA ToolsPlaceCards ==
    ASSUME ToolsInv, NEW a \in Agents, PlaceCards(a)
    PROVE  ToolsInv'
<1> DEFINE c == agent[a]
           r == [c EXCEPT !.at = "link"]
<1>1. ToolsTypeOK /\ c.at = "place" /\ agent' = [agent EXCEPT ![a].at = "link"]
      /\ UNCHANGED MetabaseIdle
  BY DEF ToolsInv, PlaceCards, Is
<1>2. c \in BoardStep
  BY <1>1 DEF ToolsTypeOK, AgentOK, NoTool, WriteStep, DeleteStep, CardsStep
<1>3. r \in BoardStep /\ r.at = "link" /\ r.id = c.id /\ r.made = c.made
  BY <1>2 DEF BoardStep
<1>4. agent' = [agent EXCEPT ![a] = r]
  BY <1>1
<1> HIDE DEF r
<1>5. AgentOK(r) /\ (\A m : ~OnModel(r, m)) /\ Making(r) /\ Owning(r) /\ Making(c) /\ Owning(c)
  BY <1>1, <1>3, StepKinds DEF AgentOK, Making, Owning
<1>6. /\ BoardsTyped(cards', boards') /\ BoardsOK(agent, cards', boards')
      /\ \A x \in boards' : x.id = c.id => HasCards(x)
  BY <1>1, OwnerRequests DEF PlaceCards
<1>7. OwnBoards(agent, Cardinality(boards'), boards')
  BY <1>6 DEF BoardsOK
<1>8. r.id \in 1 .. Cardinality(boards')
  BY <1>3, <1>5, <1>7 DEF OwnBoards
<1>9. \A b \in Agents : b # a /\ Owning(agent[b]) => agent[b].id # r.id
  BY <1>3, <1>5, <1>7 DEF OwnBoards
<1>10. \A b \in boards' : b.id = r.id => OwnsCards(r, b)
  BY <1>3, <1>6 DEF OwnsCards
<1>11. BoardsOK(agent', cards', boards')
  BY <1>1, <1>3, <1>4, <1>5, <1>6, <1>8, <1>9, <1>10, OwnerGoesOn
<1> QED
  BY <1>1, <1>4, <1>5, <1>6, <1>11, ToolsOnBoard

\* The end of the tool, with its public link or with an error, after a request
\* that was carried out or not.
LEMMA ToolsDashboardEnds ==
    ASSUME ToolsInv, NEW a \in Agents, PublicLink(a) \/ MetabaseFails(a)
    PROVE  ToolsInv'
<1>1. /\ ToolsTypeOK /\ agent[a].at \in {"cards", "place", "link"}
      /\ agent' = [agent EXCEPT ![a] = NoTool] /\ UNCHANGED MetabaseIdle
  BY DEF ToolsInv, PublicLink, MetabaseFails, Is, Done
<1>2. AgentOK(NoTool) /\ ~Making(NoTool) /\ \A m : ~OnModel(NoTool, m)
  BY StepKinds DEF AgentOK
<1>3. BoardsTyped(cards', boards') /\ BoardsOK(agent, cards', boards')
  <2>1. CASE UNCHANGED BoardVars
    BY <2>1 DEF BoardVars, ToolsInv, ToolsTypeOK
  <2>2. CASE NewCard
    BY <2>2, CardMade
  <2>3. CASE agent[a].at = "cards" /\ NewBoard(a)
    BY <2>3, BoardMade
  <2>4. CASE agent[a].at = "place" /\ Placed(a)
    BY <2>4, OwnerRequests
  <2>5. CASE agent[a].at = "link" /\ Linked(a)
    BY <2>5, OwnerRequests
  <2> QED
    BY <2>1, <2>2, <2>3, <2>4, <2>5 DEF PublicLink, MetabaseFails, Is
<1>4. BoardsOK(agent', cards', boards')
  BY <1>1, <1>2, <1>3, BoardsStay
<1> QED
  BY <1>1, <1>2, <1>3, <1>4, ToolsOnBoard

\* A step of one agent that leaves models, cards and boards alone.
LEMMA ToolsAside ==
    ASSUME ToolsInv, NEW a \in Agents, NEW r, r = NoTool \/ r.at = "smoke" \/ r \in CardsStep,
           r \in CardsStep => r.made = {}, agent[a].at # "fill",
           agent' = [agent EXCEPT ![a] = r], toolCalls' \in Nat, Grouped(statements'),
           UNCHANGED <<files, written, cutOff, cards, boards, contended>>
    PROVE  ToolsInv'
<1>1. ToolsTypeOK
  BY DEF ToolsInv
<1>2. AgentOK(r) /\ (\A n : ~OnModel(r, n)) /\ ~Owning(r)
  BY StepKinds DEF AgentOK, CardsStep, NoTool, Owning
<1>3. ModelsOK(agent', files, written, cutOff, contended)
  BY <1>1, <1>2, ModelsStay DEF ToolsInv
<1>4. \A b \in Agents : agent'[b] = IF b = a THEN r ELSE agent[b]
  BY <1>1, <1>2, OneAgent
<1>5. Making(r) => r.made = {}
  BY StepKinds DEF CardsStep, NoTool
<1>6. CardsApart(agent', cards, boards)
  <2>1. CardsApart(agent, cards, boards)
    BY DEF ToolsInv, BoardsOK
  <2> QED
    BY <2>1, <1>4, <1>5 DEF CardsApart
<1>7. OwnBoards(agent', Cardinality(boards), boards)
  <2>1. \A b \in Agents : Owning(agent'[b]) => agent'[b] = agent[b]
    BY <1>2, <1>4
  <2> QED
    BY <2>1 DEF ToolsInv, BoardsOK, OwnBoards
<1>8. BoardsOK(agent', cards, boards)
  BY <1>6, <1>7 DEF ToolsInv, BoardsOK
<1>9. ToolsTypeOK'
  BY <1>1, <1>2, OneAgent DEF ToolsTypeOK, BoardsTyped
<1> QED
  BY <1>3, <1>8, <1>9 DEF ToolsInv

\* A statement that folds a column groups by exactly the plain ones.
LEMMA ChartGroups ==
    ASSUME NEW type \in ChartTypes, NEW agg \in ChartAggs, NEW series \in BOOLEAN
    PROVE  Grouped({ChartSql(type, agg, series)})
<1>1. CASE type = "table"
  BY <1>1 DEF ChartSql, Grouped
<1>2. CASE type # "table" /\ agg = "none"
  BY <1>2 DEF ChartSql, Grouped
<1>3. CASE type # "table" /\ agg # "none"
  BY <1>3 DEF ChartSql, Grouped
<1> QED
  BY <1>1, <1>2, <1>3

\* The steps that touch neither models nor boards.
LEMMA ToolsElse ==
    ASSUME ToolsInv, NEW a \in Agents,
           \/ \E s \in {"cron", "interval"} : SetSchedule(a, s)
           \/ \E n \in 1 .. MaxCards : DashboardCreate(a, n)
           \/ \E type \in ChartTypes, agg \in ChartAggs, series \in BOOLEAN :
                 ChartCreate(a, type, agg, series)
           \/ \E t \in Relations :
                \/ \E kind \in {"add", "remove", "read"} : EngineTool(a, kind, t)
                \/ \E plan \in Plans(t) : SmokeTest(a, t, plan)
           \/ \E given \in SUBSET Relations : Refactor(a, given)
           \/ Report(a)
    PROVE  ToolsInv'
<1>1. toolCalls \in Nat /\ toolCalls + 1 \in Nat /\ Grouped(statements)
      /\ agent = [b \in Agents |-> agent[b]]
  BY DEF ToolsInv, ToolsTypeOK
<1>2. agent[a] = NoTool => agent = [agent EXCEPT ![a] = NoTool] /\ agent[a].at # "fill"
  BY <1>1, StepKinds
<1>3. ASSUME NEW s, SetSchedule(a, s) PROVE ToolsInv'
  <2>1. agent[a] = NoTool /\ agent' = agent /\ toolCalls' = toolCalls + 1
        /\ UNCHANGED <<files, written, cutOff, cards, boards, contended, statements>>
    BY <1>3 DEF SetSchedule, Takes, FileVars, BoardVars
  <2>2. agent' = [agent EXCEPT ![a] = NoTool]
    BY <2>1, <1>2
  <2> QED
    BY <2>1, <2>2, <1>1, <1>2, ToolsAside DEF CardsStep, NoTool
<1>4. ASSUME NEW n \in 1 .. MaxCards, DashboardCreate(a, n) PROVE ToolsInv'
  <2> DEFINE r == [at |-> "cards", asked |-> n, made |-> {}, unread |-> 0]
  <2>1. agent' = [agent EXCEPT ![a] = r] /\ toolCalls' = toolCalls + 1 /\ agent[a] = NoTool
        /\ UNCHANGED <<files, written, cutOff, cards, boards, contended, statements>>
    BY <1>4 DEF DashboardCreate, Takes, FileVars, BoardVars
  <2>2. r \in CardsStep /\ r.made = {}
    BY DEF CardsStep
  <2> HIDE DEF r
  <2> QED
    BY <2>1, <2>2, <1>1, <1>2, ToolsAside
<1>5. ASSUME NEW type \in ChartTypes, NEW agg \in ChartAggs, NEW series \in BOOLEAN,
             ChartCreate(a, type, agg, series)
      PROVE  ToolsInv'
  <2>1. agent[a] = NoTool /\ agent' = agent /\ toolCalls' = toolCalls + 1
        /\ statements' = statements \cup {ChartSql(type, agg, series)}
        /\ UNCHANGED <<files, written, cutOff, cards, boards, contended>>
    BY <1>5 DEF ChartCreate, Takes, FileVars, BoardVars
  <2>2. agent' = [agent EXCEPT ![a] = NoTool]
    BY <2>1, <1>2
  <2>3. Grouped(statements')
    BY <2>1, <1>1, ChartGroups DEF Grouped
  <2> QED
    BY <2>1, <2>2, <2>3, <1>1, <1>2, ToolsAside DEF CardsStep, NoTool
<1>6. ASSUME NEW t, NEW kind, EngineTool(a, kind, t) PROVE ToolsInv'
  <2>1. agent[a] = NoTool /\ agent' = agent /\ toolCalls' = toolCalls + 1
        /\ UNCHANGED <<files, written, cutOff, cards, boards, contended, statements>>
    BY <1>6 DEF EngineTool, Takes, FileVars, BoardVars
  <2>2. agent' = [agent EXCEPT ![a] = NoTool]
    BY <2>1, <1>2
  <2> QED
    BY <2>1, <2>2, <1>1, <1>2, ToolsAside DEF CardsStep, NoTool
<1>7. ASSUME NEW t, NEW plan, SmokeTest(a, t, plan) PROVE ToolsInv'
  <2>1. \E todo, total, passed :
           agent' = [agent EXCEPT ![a] =
                        [at |-> "smoke", todo |-> todo, total |-> total, passed |-> passed]]
    BY <1>7 DEF SmokeTest
  <2>2. PICK todo, total, passed :
           agent' = [agent EXCEPT ![a] =
                        [at |-> "smoke", todo |-> todo, total |-> total, passed |-> passed]]
    BY <2>1
  <2> DEFINE r == [at |-> "smoke", todo |-> todo, total |-> total, passed |-> passed]
  <2>3. r.at = "smoke" /\ r \notin CardsStep
    BY DEF CardsStep
  <2>4. /\ toolCalls' = toolCalls /\ agent[a].at # "fill"
        /\ UNCHANGED <<files, written, cutOff, cards, boards, contended, statements>>
    BY <1>7 DEF SmokeTest, Is, FileVars, BoardVars
  <2>5. agent' = [agent EXCEPT ![a] = r]
    BY <2>2
  <2> HIDE DEF r
  <2> QED
    BY <2>3, <2>4, <2>5, <1>1, ToolsAside
<1>8. ASSUME NEW given, Refactor(a, given) PROVE ToolsInv'
  <2>1. PICK candidates :
           agent' = [agent EXCEPT ![a] =
              [at |-> "smoke", todo |-> candidates, total |-> 0, passed |-> 0]]
    BY <1>8 DEF Refactor
  <2> DEFINE r == [at |-> "smoke", todo |-> candidates, total |-> 0, passed |-> 0]
  <2>2. r.at = "smoke" /\ r \notin CardsStep
    BY DEF CardsStep
  <2>3. toolCalls' = toolCalls + 1 /\ agent[a] = NoTool
        /\ UNCHANGED <<files, written, cutOff, cards, boards, contended, statements>>
    BY <1>8 DEF Refactor, Takes, FileVars, BoardVars
  <2>4. agent' = [agent EXCEPT ![a] = r]
    BY <2>1
  <2> HIDE DEF r
  <2> QED
    BY <2>2, <2>3, <2>4, <1>1, <1>2, ToolsAside
<1>9. ASSUME Report(a) PROVE ToolsInv'
  <2>1. /\ agent' = [agent EXCEPT ![a] = NoTool] /\ toolCalls' = toolCalls
        /\ agent[a].at # "fill"
        /\ UNCHANGED <<files, written, cutOff, cards, boards, contended, statements>>
    BY <1>9 DEF Report, Is, Done, FileVars, BoardVars
  <2> QED
    BY <2>1, <1>1, ToolsAside DEF CardsStep, NoTool
<1> QED
  BY <1>3, <1>4, <1>5, <1>6, <1>7, <1>8, <1>9

\* Every step of every agent keeps the invariant.
LEMMA ToolsStep ==
    ASSUME ToolsInv, [ToolsNext]_toolVars
    PROVE  ToolsInv'
<1>1. CASE UNCHANGED toolVars
  BY <1>1 DEF toolVars, ToolsInv, ToolsTypeOK, BoardsTyped, ModelsOK, ModelOK, OneFile,
              HalfDone, FilesOf, OnModel, BoardsOK, HasCards, OwnsCards, BoardsApart, CardsApart, OwnBoards, Making, Owning, Grouped, AgentOK
<1>2. CASE ToolsNext
  <2>1. PICK a \in Agents :
          \/ \E n \in ModelNames : DeleteModel(a, n)
                                      \/ \E l \in Layers \cup {"none"} : WriteModel(a, n, l)
          \/ TruncateFile(a) \/ FillFile(a) \/ RemoveFile(a) \/ FileFails(a)
          \/ CreateCard(a) \/ CreateBoard(a) \/ PlaceCards(a) \/ PublicLink(a)
          \/ \E s \in {"cron", "interval"} : SetSchedule(a, s)
          \/ \E n \in 1 .. MaxCards : DashboardCreate(a, n)
          \/ MetabaseFails(a)
          \/ \E type \in ChartTypes, agg \in ChartAggs, series \in BOOLEAN :
                ChartCreate(a, type, agg, series)
          \/ \E t \in Relations :
               \/ \E kind \in {"add", "remove", "read"} : EngineTool(a, kind, t)
               \/ \E plan \in Plans(t) : SmokeTest(a, t, plan)
          \/ \E given \in SUBSET Relations : Refactor(a, given)
          \/ Report(a)
    BY <1>2 DEF ToolsNext
  <2> QED
    BY <2>1, ToolsDeleteModel, ToolsWriteModel, ToolsTruncateFile, ToolsFillFile,
       ToolsRemoveFile, ToolsFileFails, ToolsCreateCard, ToolsCreateBoard, ToolsPlaceCards,
       ToolsDashboardEnds, ToolsElse
<1> QED
  BY <1>1, <1>2

\* Nothing is there at the start.
LEMMA ToolsStart ==
    ASSUME ToolsInit
    PROVE  ToolsInv
<1>1. /\ agent = [a \in Agents |-> NoTool] /\ files = {} /\ cards = 0 /\ boards = {}
      /\ statements = {} /\ toolCalls = 0 /\ written = [n \in ModelNames |-> 0]
  BY DEF ToolsInit
<1>2. \A a \in Agents : agent[a] = NoTool
  BY <1>1
<1>3. \A a \in Agents : ~Making(agent[a]) /\ ~Owning(agent[a]) /\ \A n : ~OnModel(agent[a], n)
  BY <1>2, StepKinds
<1>4. ToolsTypeOK
  BY <1>1, <1>2, FS_EmptySet DEF ToolsTypeOK, BoardsTyped, AgentOK
<1>5. ModelsOK(agent, files, written, cutOff, contended)
  BY <1>1, <1>3 DEF ModelsOK, ModelOK, OneFile, FilesOf
<1>6. BoardsOK(agent, cards, boards)
  BY <1>1, <1>3 DEF BoardsOK, BoardsApart, CardsApart, OwnBoards
<1> QED
  BY <1>1, <1>4, <1>5, <1>6 DEF ToolsInv, Grouped

(* ToolsLeaveWhole, for any number of agents, models and calls: whichever  *)
(* of them fails and however they interleave, a model is one file by the   *)
(* call that wrote last, whole unless that write did not finish (and       *)
(* unless two calls were at work on it at once), and a public dashboard    *)
(* has all the cards it was asked for but those whose answer could not be  *)
(* read, its own (dbt_write_model, dbt_delete_model, dashboard_create,     *)
(* build_chart_sql).                                                       *)
THEOREM ToolsWhole == ToolsSpec => []ToolsLeaveWhole
<1>1. ToolsInit => ToolsInv
  BY ToolsStart
<1>2. ToolsInv /\ [ToolsNext]_toolVars => ToolsInv'
  BY ToolsStep
<1>3. ToolsInv => ToolsLeaveWhole
  <2> SUFFICES ASSUME ToolsInv PROVE OneFilePerModel /\ PublishedIsWhole
    BY DEF ToolsLeaveWhole
  <2>1. OneFilePerModel
    BY FoundNamed DEF ToolsInv, ModelsOK, ModelOK, OneFile, HalfDone, OneFilePerModel,
       Unfinished, Is
  <2>2. PublishedIsWhole
    BY DEF ToolsInv, BoardsOK, BoardsApart, HasCards, Grouped, PublishedIsWhole
  <2> QED
    BY <2>1, <2>2
<1> QED
  BY <1>1, <1>2, <1>3, PTL DEF ToolsSpec

-------------------------------------------------------------------------------
\* Service clients.

Phases == {"reread", "register", "authorize"}
Statuses == {"active", "suspended", "revoked"}
ClientRecords == [kind : {"durable", "evaluation", "configured"}, status : Statuses,
                  key : Keys \cup {FirstKey}, used : Nat]
Durables == {m \in ClientRecords : m.kind = "durable"}

(* A request that is under way is at one phase, for one client.            *)
Asking(r) ==
    /\ r.phase \in Phases /\ r.at \in Procs /\ r.client \in AllClients
    /\ r.op \in {"admin", "bearer"}
    /\ r.phase = "register" => r.record \in ClientRecords /\ r.client \in Clients
    /\ r.phase = "reread" => r.client \in Clients
    /\ r.phase = "authorize" => r.op = "bearer"

ClientTypeOK(rw, mem, rq, ch) ==
    /\ rw \in [Clients -> ClientRecords \cup {Unknown}]
    /\ mem \in [Procs -> [AllClients -> ClientRecords \cup {Unknown}]]
    /\ DOMAIN rq = Requests
    /\ \A q \in Requests : rq[q] = Free \/ Asking(rq[q])
    /\ ch \in [Clients -> Nat]

(* A row that waits to be registered had a row behind it.                  *)
RowsThere(rw, rq) ==
    \A q \in Requests : rq[q].phase \in {"reread", "register"} => rw[rq[q].client] # Unknown

(* The bearer request r found its row revoked, and nobody has created or   *)
(* rotated the client since.                                               *)
FoundRevoked(r, ch) ==
    /\ r.phase \in {"register", "authorize"} /\ r.op = "bearer"
    /\ r.since # Never /\ r.since = ch[r.client]

SinceCounted(rq, ch) ==
    \A q \in Requests :
        rq[q].phase \in {"register", "authorize"} /\ rq[q].op = "bearer" /\ rq[q].since # Never
            => rq[q].client \in Clients /\ rq[q].since \in Nat /\ rq[q].since <= ch[rq[q].client]

Turned(m) == m # Unknown /\ m.status # "active"

(* So the row is revoked, whoever is about to register it registers it as  *)
(* revoked, and once the request itself has, the process knows.            *)
StaysRevoked(rw, mem, rq, ch) ==
    \A q \in Requests : FoundRevoked(rq[q], ch) =>
        /\ rw[rq[q].client] # Unknown /\ rw[rq[q].client].status = "revoked"
        /\ \A o \in Requests :
              rq[o].phase = "register" /\ rq[o].at = rq[q].at /\ rq[o].client = rq[q].client
                  => rq[o].record.status = "revoked"
        /\ rq[q].phase = "authorize" => Turned(mem[rq[q].at][rq[q].client])

ClientInv ==
    /\ ClientTypeOK(row, memory, req, changes)
    /\ RowsThere(row, req)
    /\ SinceCounted(req, changes)
    /\ StaysRevoked(row, memory, req, changes)

\* A record differs from a free request and from an unknown client.
LEMMA FreeIsFree ==
    /\ Free.phase = "free" /\ \A r : Asking(r) => r # Free
    /\ Unknown.kind = "unknown" /\ \A m \in ClientRecords : m # Unknown
<1>1. Free.phase = "free"
  BY DEF Free
<1>2. ASSUME NEW r, Asking(r) PROVE r # Free
  BY <1>1, <1>2 DEF Asking, Phases
<1>3. Unknown.kind = "unknown"
  BY DEF Unknown
<1>4. ASSUME NEW m \in ClientRecords PROVE m # Unknown
  BY <1>3 DEF ClientRecords
<1> QED
  BY <1>1, <1>2, <1>3, <1>4

\* One request goes on: it keeps what the others found, and its own.
LEMMA RequestGoesOn ==
    ASSUME ClientInv, NEW q \in Requests, NEW r, req' = [req EXCEPT ![q] = r],
           ClientTypeOK(row', memory', req', changes'),
           \A c \in Clients : row[c] # Unknown => row'[c] # Unknown,
           \A c \in Clients : \/ changes'[c] > changes[c]
                              \/ /\ changes'[c] = changes[c]
                                 /\ row[c].status = "revoked" => row'[c].status = "revoked",
           \A o \in Requests : FoundRevoked(req[o], changes) /\ req[o].phase = "authorize"
               /\ Turned(memory[req[o].at][req[o].client])
                   => Turned(memory'[req[o].at][req[o].client]),
           r.phase \in {"reread", "register"} => r.client \in Clients /\ row'[r.client] # Unknown,
           r.phase \in {"register", "authorize"} /\ r.op = "bearer" /\ r.since # Never
               => r.client \in Clients /\ r.since \in Nat /\ r.since <= changes'[r.client],
           \A o \in Requests \ {q} : FoundRevoked(req[o], changes') /\ r.phase = "register"
               /\ r.at = req[o].at /\ r.client = req[o].client => r.record.status = "revoked",
           FoundRevoked(r, changes') =>
               /\ row'[r.client].status = "revoked" /\ row'[r.client] # Unknown
               /\ \A o \in Requests \ {q} :
                      req[o].phase = "register" /\ req[o].at = r.at /\ req[o].client = r.client
                          => req[o].record.status = "revoked"
               /\ r.phase = "register" => r.record.status = "revoked"
               /\ r.phase = "authorize" => Turned(memory'[r.at][r.client])
    PROVE  ClientInv'
<1>1. ClientTypeOK(row, memory, req, changes)
  BY DEF ClientInv
<1>2. \A o \in Requests : req'[o] = IF o = q THEN r ELSE req[o]
  BY <1>1 DEF ClientTypeOK
<1>3. \A o \in Requests : req[o].phase \in {"reread", "register"} => req[o].client \in Clients
  BY <1>1, FreeIsFree DEF ClientTypeOK, Asking
<1>4. RowsThere(row', req')
  BY <1>2, <1>3 DEF ClientInv, RowsThere
<1>5. \A c \in Clients : changes[c] \in Nat /\ changes'[c] \in Nat
  BY <1>1 DEF ClientTypeOK
<1>6. SinceCounted(req', changes')
  <2>1. ASSUME NEW o \in Requests, o # q, req[o].phase \in {"register", "authorize"},
               req[o].op = "bearer", req[o].since # Never
        PROVE  /\ req[o].client \in Clients /\ req[o].since \in Nat
               /\ req[o].since <= changes'[req[o].client]
    <3>1. req[o].client \in Clients /\ req[o].since \in Nat
          /\ req[o].since <= changes[req[o].client]
      BY <2>1 DEF ClientInv, SinceCounted
    <3> QED
      BY <3>1, <1>5
  <2> QED
    BY <2>1, <1>2 DEF SinceCounted
<1>7. ASSUME NEW o \in Requests, o # q, FoundRevoked(req[o], changes')
      PROVE  /\ FoundRevoked(req[o], changes) /\ req[o].client \in Clients
             /\ changes'[req[o].client] = changes[req[o].client]
  <2>1. req[o].client \in Clients /\ req[o].since \in Nat /\ req[o].since <= changes[req[o].client]
        /\ req[o].since = changes'[req[o].client]
    BY <1>7 DEF ClientInv, SinceCounted, FoundRevoked
  <2>2. changes'[req[o].client] = changes[req[o].client]
    BY <2>1, <1>5
  <2> QED
    BY <2>1, <2>2, <1>7 DEF FoundRevoked
<1>8. StaysRevoked(row', memory', req', changes')
  <2> SUFFICES ASSUME NEW o \in Requests, FoundRevoked(req'[o], changes')
               PROVE  /\ row'[req'[o].client] # Unknown
                      /\ row'[req'[o].client].status = "revoked"
                      /\ \A g \in Requests :
                           req'[g].phase = "register" /\ req'[g].at = req'[o].at
                               /\ req'[g].client = req'[o].client
                             => req'[g].record.status = "revoked"
                      /\ req'[o].phase = "authorize"
                           => Turned(memory'[req'[o].at][req'[o].client])
    BY DEF StaysRevoked
  <2>1. CASE o = q
    BY <2>1, <1>2
  <2>2. CASE o # q
    <3>1. req'[o] = req[o] /\ FoundRevoked(req[o], changes) /\ req[o].client \in Clients
          /\ changes'[req[o].client] = changes[req[o].client]
      BY <2>2, <1>2, <1>7
    <3>2. /\ row[req[o].client] # Unknown /\ row[req[o].client].status = "revoked"
          /\ \A g \in Requests :
               req[g].phase = "register" /\ req[g].at = req[o].at /\ req[g].client = req[o].client
                   => req[g].record.status = "revoked"
          /\ req[o].phase = "authorize" => Turned(memory[req[o].at][req[o].client])
      BY <3>1 DEF ClientInv, StaysRevoked
    <3>3. row'[req[o].client] # Unknown /\ row'[req[o].client].status = "revoked"
      BY <3>1, <3>2, <1>5
    <3>4. ASSUME NEW g \in Requests, req'[g].phase = "register", req'[g].at = req[o].at,
                 req'[g].client = req[o].client
          PROVE  req'[g].record.status = "revoked"
      BY <3>1, <3>2, <3>4, <2>2, <1>2
    <3>5. req[o].phase = "authorize" => Turned(memory'[req[o].at][req[o].client])
      BY <3>1, <3>2
    <3> QED
      BY <3>1, <3>3, <3>4, <3>5
  <2> QED
    BY <2>1, <2>2
<1> QED
  BY <1>4, <1>6, <1>8 DEF ClientInv

\* What a process knows changes, and no request does.
LEMMA KnowledgeChanges ==
    ASSUME ClientInv, UNCHANGED <<row, req, changes>>,
           memory' \in [Procs -> [AllClients -> ClientRecords \cup {Unknown}]],
           \A p \in Procs, c \in AllClients : Turned(memory[p][c]) => Turned(memory'[p][c])
    PROVE  ClientInv'
<1>1. ClientTypeOK(row, memory, req, changes)
  BY DEF ClientInv
<1>2. ClientTypeOK(row', memory', req', changes')
  BY <1>1 DEF ClientTypeOK
<1>3. ASSUME NEW q \in Requests, FoundRevoked(req[q], changes)
      PROVE  req[q].at \in Procs /\ req[q].client \in AllClients
  <2>1. req[q] # Free
    BY <1>3, FreeIsFree DEF FoundRevoked
  <2> QED
    BY <2>1, <1>1 DEF ClientTypeOK, Asking
<1>4. StaysRevoked(row', memory', req', changes')
  BY <1>3 DEF ClientInv, StaysRevoked
<1> QED
  BY <1>2, <1>4 DEF ClientInv, RowsThere, SinceCounted

\* A statement on a row leaves the others as they are, and counts what it
\* gives a new secret.
LEMMA RowWritten ==
    ASSUME ClientInv, NEW c \in Clients, NEW m \in ClientRecords,
           row' = [row EXCEPT ![c] = m],
           \/ changes' = [changes EXCEPT ![c] = changes[c] + 1]
           \/ changes' = changes /\ m.status = "revoked"
    PROVE  /\ row' \in [Clients -> ClientRecords \cup {Unknown}] /\ changes' \in [Clients -> Nat]
           /\ row'[c] = m /\ m # Unknown
           /\ \A d \in Clients : row[d] # Unknown => row'[d] # Unknown
           /\ \A d \in Clients : \/ changes'[d] > changes[d]
                                 \/ /\ changes'[d] = changes[d]
                                    /\ row[d].status = "revoked" => row'[d].status = "revoked"
<1>1. row \in [Clients -> ClientRecords \cup {Unknown}] /\ changes \in [Clients -> Nat]
  BY DEF ClientInv, ClientTypeOK
<1>2. m # Unknown
  BY FreeIsFree
<1>3. \A d \in Clients : row'[d] = IF d = c THEN m ELSE row[d]
  BY <1>1
<1>4. changes[c] \in Nat /\ changes[c] + 1 > changes[c]
  BY <1>1
<1>5. CASE changes' = [changes EXCEPT ![c] = changes[c] + 1]
  <2>1. \A d \in Clients : changes'[d] = IF d = c THEN changes[c] + 1 ELSE changes[d]
    BY <1>1, <1>5
  <2> QED
    BY <1>1, <1>2, <1>3, <1>4, <1>5, <2>1
<1>6. CASE changes' = changes /\ m.status = "revoked"
  BY <1>1, <1>2, <1>3, <1>6
<1> QED
  BY <1>5, <1>6

\* The records the handlers write are records.
LEMMA RecordsTyped ==
    /\ \A key \in Keys, status \in Statuses :
           /\ Durable(status, key) \in ClientRecords
           /\ Durable(status, key).status = status
    /\ Evaluation \in ClientRecords /\ FromConfig \in ClientRecords
<1>1. \A key \in Keys, status \in Statuses :
           /\ Durable(status, key) \in ClientRecords
           /\ Durable(status, key).status = status
  BY DEF Durable, ClientRecords
<1>2. Evaluation \in ClientRecords
  BY DEF Evaluation, NewClient, ClientRecords, Statuses
<1>3. FromConfig \in ClientRecords
  BY DEF FromConfig, NewClient, ClientRecords, Statuses
<1> QED
  BY <1>1, <1>2, <1>3

\* Creating and rotating a client: its row is new, and waits to be registered.
LEMMA ClientGiven ==
    ASSUME ClientInv, NEW q \in Requests, NEW p \in Procs, NEW c \in Clients, NEW key \in Keys,
           CreateClient(q, p, c, key) \/ RotateClient(q, p, c, key)
    PROVE  ClientInv'
<1> DEFINE m == Durable("active", key)
           new == [phase |-> "register", op |-> "admin", at |-> p, client |-> c, record |-> m]
           again == [phase |-> "reread", op |-> "admin", at |-> p, client |-> c]
<1>1. ClientTypeOK(row, memory, req, changes)
  BY DEF ClientInv
<1>2. m \in ClientRecords
  BY RecordsTyped DEF Statuses
<1>3. /\ row' = [row EXCEPT ![c] = m] /\ changes' = [changes EXCEPT ![c] = changes[c] + 1]
      /\ memory' = memory
      /\ req' = [req EXCEPT ![q] = new] \/ req' = [req EXCEPT ![q] = again]
  BY DEF CreateClient, RotateClient, InsertRow, UpdateSecret
<1> HIDE DEF m
<1>4. /\ row' \in [Clients -> ClientRecords \cup {Unknown}] /\ changes' \in [Clients -> Nat]
      /\ row'[c] = m /\ m # Unknown
      /\ \A d \in Clients : row[d] # Unknown => row'[d] # Unknown
      /\ \A d \in Clients : \/ changes'[d] > changes[d]
                            \/ /\ changes'[d] = changes[d]
                               /\ row[d].status = "revoked" => row'[d].status = "revoked"
  BY <1>2, <1>3, RowWritten
<1>5. Asking(new) /\ Asking(again)
  BY <1>2 DEF Asking, Phases, AllClients
<1>6. PICK r \in {new, again} : req' = [req EXCEPT ![q] = r]
  BY <1>3
<1>7. Asking(r) /\ r.op = "admin" /\ r.phase \in {"register", "reread"} /\ r.client = c
  BY <1>5, <1>6
<1> HIDE DEF new, again
<1>8. ClientTypeOK(row', memory', req', changes')
  BY <1>1, <1>3, <1>4, <1>6, <1>7 DEF ClientTypeOK
<1>9. ~FoundRevoked(r, changes')
  BY <1>7 DEF FoundRevoked
<1>10. ASSUME NEW o \in Requests \ {q}, FoundRevoked(req[o], changes'), req[o].client = c
       PROVE  FALSE
  <2>1. req[o].since \in Nat /\ req[o].since <= changes[c] /\ req[o].since = changes'[c]
    BY <1>10 DEF ClientInv, SinceCounted, FoundRevoked
  <2>2. changes[c] \in Nat /\ changes'[c] = changes[c] + 1
    BY <1>1, <1>3 DEF ClientTypeOK
  <2> QED
    BY <2>1, <2>2
<1>11. r.phase \in {"reread", "register"} => r.client \in Clients /\ row'[r.client] # Unknown
  BY <1>4, <1>7
<1>12. \A o \in Requests \ {q} : FoundRevoked(req[o], changes') /\ r.phase = "register"
         /\ r.at = req[o].at /\ r.client = req[o].client => r.record.status = "revoked"
  BY <1>7, <1>10
<1>13. r.op # "bearer" /\ memory' = memory
  BY <1>3, <1>7
<1> QED
  BY <1>4, <1>6, <1>8, <1>9, <1>11, <1>12, <1>13, RequestGoesOn

\* A client is revoked: its row is, for good until somebody rotates it.
LEMMA ClientRevoked ==
    ASSUME ClientInv, NEW q \in Requests, NEW p \in Procs, NEW c \in Clients, RevokeClient(q, p, c)
    PROVE  ClientInv'
<1> DEFINE m == [row[c] EXCEPT !.status = "revoked"]
           r == [phase |-> "reread", op |-> "admin", at |-> p, client |-> c]
<1>1. ClientTypeOK(row, memory, req, changes)
  BY DEF ClientInv
<1>2. row[c] \in ClientRecords
  BY <1>1 DEF ClientTypeOK, RevokeClient, RevokeRow
<1>3. m \in ClientRecords
  BY <1>2 DEF ClientRecords, Statuses
<1>4. m.status = "revoked"
  BY <1>2 DEF ClientRecords
<1>5. row' = [row EXCEPT ![c] = m] /\ UNCHANGED <<memory, changes>>
      /\ req' = [req EXCEPT ![q] = r]
  BY DEF RevokeClient, RevokeRow
<1> HIDE DEF m
<1>6. /\ row' \in [Clients -> ClientRecords \cup {Unknown}] /\ changes' \in [Clients -> Nat]
      /\ row'[c] = m /\ m # Unknown
      /\ \A d \in Clients : row[d] # Unknown => row'[d] # Unknown
      /\ \A d \in Clients : \/ changes'[d] > changes[d]
                            \/ /\ changes'[d] = changes[d]
                               /\ row[d].status = "revoked" => row'[d].status = "revoked"
  BY <1>3, <1>4, <1>5, RowWritten
<1>7. Asking(r) /\ r.phase = "reread" /\ r.client = c
  BY DEF Asking, Phases, AllClients
<1> HIDE DEF r
<1>8. ClientTypeOK(row', memory', req', changes')
  BY <1>1, <1>5, <1>6, <1>7 DEF ClientTypeOK
<1>9. ~FoundRevoked(r, changes')
  BY <1>7 DEF FoundRevoked
<1>10. r.phase \in {"reread", "register"} => r.client \in Clients /\ row'[r.client] # Unknown
  BY <1>6, <1>7
<1>11. r.phase # "register" /\ r.phase # "authorize" /\ memory' = memory
       /\ req' = [req EXCEPT ![q] = r]
  BY <1>5, <1>7
<1> QED
  BY <1>6, <1>8, <1>9, <1>10, <1>11, RequestGoesOn

\* The row that is read again is the one that is there.
LEMMA RowReread ==
    ASSUME ClientInv, NEW q \in Requests, Reread(q)
    PROVE  ClientInv'
<1> DEFINE r == [phase |-> "register", op |-> "admin", at |-> req[q].at,
                 client |-> req[q].client, record |-> row[req[q].client]]
<1>1. ClientTypeOK(row, memory, req, changes) /\ req[q].phase = "reread"
      /\ req' = [req EXCEPT ![q] = r] /\ UNCHANGED <<row, memory, changes>>
  BY DEF ClientInv, Reread
<1>2. Asking(req[q])
  BY <1>1, FreeIsFree DEF ClientTypeOK
<1>3. req[q].client \in Clients /\ row[req[q].client] # Unknown
  BY <1>1, <1>2 DEF ClientInv, RowsThere, Asking
<1>4. row[req[q].client] \in ClientRecords
  BY <1>1, <1>3 DEF ClientTypeOK
<1>5. Asking(r) /\ r.phase = "register" /\ r.op = "admin" /\ r.client = req[q].client
      /\ r.record = row[req[q].client]
  BY <1>2, <1>3, <1>4 DEF Asking, Phases
<1> HIDE DEF r
<1>6. ClientTypeOK(row', memory', req', changes')
  BY <1>1, <1>5 DEF ClientTypeOK
<1>7. ~FoundRevoked(r, changes')
  BY <1>5 DEF FoundRevoked
<1>8. ASSUME NEW o \in Requests \ {q}, FoundRevoked(req[o], changes'), r.client = req[o].client
      PROVE  r.record.status = "revoked"
  BY <1>1, <1>5, <1>8 DEF ClientInv, StaysRevoked
<1>9. r.phase \in {"reread", "register"} => r.client \in Clients /\ row'[r.client] # Unknown
  BY <1>1, <1>3, <1>5
<1>10. \A o \in Requests \ {q} : FoundRevoked(req[o], changes') /\ r.phase = "register"
         /\ r.at = req[o].at /\ r.client = req[o].client => r.record.status = "revoked"
  BY <1>8
<1>11. r.op # "bearer"
  BY <1>5
<1>12. \A c \in Clients : changes'[c] = changes[c] /\ row'[c] = row[c]
  BY <1>1
<1> QED
  BY <1>1, <1>6, <1>7, <1>9, <1>10, <1>11, <1>12, RequestGoesOn

\* What a request read is now what its process knows.
LEMMA RowRegistered ==
    ASSUME ClientInv, NEW q \in Requests, RegisterDurable(q)
    PROVE  ClientInv'
<1> DEFINE c == req[q].client
           p == req[q].at
           m == req[q].record
           next == [phase |-> "authorize", op |-> "bearer", at |-> p, client |-> c,
                    since |-> req[q].since]
           r == IF req[q].op = "admin" THEN Free ELSE next
<1>1. ClientTypeOK(row, memory, req, changes) /\ req[q].phase = "register"
      /\ memory' = [memory EXCEPT ![p][c] = m] /\ UNCHANGED <<row, changes>>
  BY DEF ClientInv, RegisterDurable
<1>2. req' = [req EXCEPT ![q] = r]
  BY DEF RegisterDurable, Answer
<1>3. p \in Procs /\ c \in AllClients /\ c \in Clients /\ m \in ClientRecords
      /\ req[q].op \in {"admin", "bearer"}
  BY <1>1, FreeIsFree DEF ClientTypeOK, Asking
<1>4. /\ memory' \in [Procs -> [AllClients -> ClientRecords \cup {Unknown}]]
      /\ \A g \in Procs, d \in AllClients :
             memory'[g][d] = IF g = p /\ d = c THEN m ELSE memory[g][d]
  <2>1. memory \in [Procs -> [AllClients -> ClientRecords \cup {Unknown}]]
    BY <1>1 DEF ClientTypeOK
  <2>2. memory' = [memory EXCEPT ![p] = [memory[p] EXCEPT ![c] = m]]
    BY <1>1
  <2>3. [memory[p] EXCEPT ![c] = m] \in [AllClients -> ClientRecords \cup {Unknown}]
    BY <2>1, <1>3
  <2> QED
    BY <2>1, <2>2, <2>3, <1>3
<1>5. /\ r = Free \/ (Asking(r) /\ r.phase = "authorize")
      /\ r.phase = "authorize" => /\ r.op = "bearer" /\ req[q].op = "bearer" /\ r.client = c
                                  /\ r.at = p /\ r.since = req[q].since
  <2>1. CASE req[q].op = "admin"
    <3>1. r = Free
      BY <2>1
    <3> QED
      BY <3>1, FreeIsFree
  <2>2. CASE req[q].op # "admin"
    <3>1. r = next /\ req[q].op = "bearer"
      BY <2>2, <1>3
    <3>2. Asking(next)
      BY <1>3 DEF Asking, Phases
    <3> QED
      BY <3>1, <3>2
  <2> QED
    BY <2>1, <2>2
<1> HIDE DEF r
<1>6. ClientTypeOK(row', memory', req', changes')
  BY <1>1, <1>2, <1>4, <1>5 DEF ClientTypeOK
<1>7. r.phase \in {"free", "authorize"}
  BY <1>5, FreeIsFree
<1>8. ASSUME NEW o \in Requests, FoundRevoked(req[o], changes), req[o].at = p, req[o].client = c
      PROVE  Turned(m)
  BY <1>1, <1>3, <1>8, FreeIsFree DEF ClientInv, StaysRevoked, Turned
<1>9. ASSUME NEW o \in Requests, FoundRevoked(req[o], changes), req[o].phase = "authorize",
             Turned(memory[req[o].at][req[o].client])
      PROVE  Turned(memory'[req[o].at][req[o].client])
  <2>1. req[o].at \in Procs /\ req[o].client \in AllClients
    BY <1>1, <1>9, FreeIsFree DEF ClientTypeOK, Asking
  <2> QED
    BY <2>1, <1>4, <1>8, <1>9
<1>10. r.phase \in {"register", "authorize"} /\ r.op = "bearer" /\ r.since # Never
         => r.client \in Clients /\ r.since \in Nat /\ r.since <= changes'[r.client]
  BY <1>1, <1>5, <1>7 DEF ClientInv, SinceCounted
<1>11. ASSUME FoundRevoked(r, changes')
       PROVE  /\ row'[r.client].status = "revoked" /\ row'[r.client] # Unknown
              /\ \A o \in Requests \ {q} :
                     req[o].phase = "register" /\ req[o].at = r.at /\ req[o].client = r.client
                         => req[o].record.status = "revoked"
              /\ Turned(memory'[r.at][r.client])
  <2>1. r.phase = "authorize" /\ FoundRevoked(req[q], changes)
    BY <1>11, <1>1, <1>5, <1>7 DEF FoundRevoked
  <2>2. Turned(m)
    BY <2>1, <1>8
  <2> QED
    BY <2>1, <2>2, <1>1, <1>3, <1>4, <1>5 DEF ClientInv, StaysRevoked
<1>12. \A d \in Clients : changes'[d] = changes[d] /\ row'[d] = row[d]
  BY <1>1
<1> QED
  BY <1>2, <1>6, <1>7, <1>9, <1>10, <1>11, <1>12, RequestGoesOn

\* A bearer request is refused, or takes the row with it.
LEMMA BearerArrives ==
    ASSUME ClientInv, NEW q \in Requests, NEW p \in Procs, NEW c \in AllClients,
           NEW readable \in BOOLEAN, BearerStart(q, p, c, readable)
    PROVE  ClientInv'
<1> DEFINE found == c \in Clients /\ row[c] # Unknown
           since == IF row[c].status = "revoked" /\ ~InFlight(p, c) THEN changes[c] ELSE Never
           with == [phase |-> "register", op |-> "bearer", at |-> p, client |-> c,
                    record |-> row[c], since |-> since]
           without == [phase |-> "authorize", op |-> "bearer", at |-> p, client |-> c,
                       since |-> Never]
           r == IF ~readable THEN Free ELSE IF found THEN with ELSE without
<1>1. ClientTypeOK(row, memory, req, changes) /\ req[q] = Free
      /\ UNCHANGED <<row, memory, changes>>
  BY DEF ClientInv, BearerStart
<1>2. req' = [req EXCEPT ![q] = r]
  BY DEF BearerStart, Answer
<1>3. found => row[c] \in ClientRecords /\ changes[c] \in Nat
  BY <1>1 DEF ClientTypeOK
<1> HIDE DEF since
<1>4. \/ r = Free
      \/ r = with /\ found
      \/ r = without
  OBVIOUS
<1>5. /\ found => Asking(with)
      /\ with.phase = "register" /\ with.client = c /\ with.at = p
      /\ with.record = row[c] /\ with.since = since
  BY <1>3 DEF Asking, Phases
<1>6. Asking(without) /\ without.phase = "authorize" /\ without.since = Never
  BY DEF Asking, Phases
<1> HIDE DEF r, with, without
<1>7. r = Free \/ Asking(r)
  BY <1>4, <1>5, <1>6
<1>8. ClientTypeOK(row', memory', req', changes')
  BY <1>1, <1>2, <1>7 DEF ClientTypeOK
<1>9. /\ r.phase = "register" => r = with /\ found
      /\ FoundRevoked(r, changes') => r = with
      /\ r.since # Never => r.phase # "authorize"
      /\ r.phase # "reread"
  <2>1. r = Free => r.phase = "free"
    BY FreeIsFree
  <2> QED
    BY <2>1, <1>4, <1>5, <1>6 DEF FoundRevoked
<1>10. since # Never => /\ row[c].status = "revoked" /\ ~InFlight(p, c)
                        /\ since = changes[c]
  BY DEF since
<1>11. r.phase \in {"reread", "register"} => r.client \in Clients /\ row'[r.client] # Unknown
  BY <1>1, <1>5, <1>9
<1>12. r.phase \in {"register", "authorize"} /\ r.op = "bearer" /\ r.since # Never
         => r.client \in Clients /\ r.since \in Nat /\ r.since <= changes'[r.client]
  BY <1>1, <1>3, <1>5, <1>9, <1>10
<1>13. ASSUME NEW o \in Requests \ {q}, FoundRevoked(req[o], changes'), r.phase = "register",
              r.at = req[o].at, r.client = req[o].client
       PROVE  r.record.status = "revoked"
  BY <1>13, <1>1, <1>5, <1>9 DEF ClientInv, StaysRevoked
<1>14. ASSUME FoundRevoked(r, changes')
       PROVE  /\ row'[r.client].status = "revoked" /\ row'[r.client] # Unknown
              /\ \A o \in Requests \ {q} :
                     req[o].phase = "register" /\ req[o].at = r.at /\ req[o].client = r.client
                         => req[o].record.status = "revoked"
              /\ r.phase = "register" /\ r.record.status = "revoked"
  <2>1. r = with /\ r.phase = "register" /\ found /\ r.since # Never
    BY <1>14, <1>5, <1>9 DEF FoundRevoked
  <2>2. row[c].status = "revoked" /\ ~InFlight(p, c)
    BY <2>1, <1>5, <1>10
  <2>3. ASSUME NEW o \in Requests \ {q}, req[o].phase = "register", req[o].at = p,
               req[o].client = c
        PROVE  FALSE
    BY <2>2, <2>3, FreeIsFree DEF InFlight
  <2> QED
    BY <2>1, <2>2, <2>3, <1>1, <1>5
<1>15. \A d \in Clients : changes'[d] = changes[d] /\ row'[d] = row[d]
  BY <1>1
<1> QED
  BY <1>1, <1>2, <1>8, <1>11, <1>12, <1>13, <1>14, <1>15, RequestGoesOn

\* A request that comes to its end leaves the others what they found.
LEMMA RequestEnds ==
    ASSUME ClientInv, NEW q \in Requests, req' = [req EXCEPT ![q] = Free],
           UNCHANGED <<row, changes>>,
           memory' \in [Procs -> [AllClients -> ClientRecords \cup {Unknown}]],
           \A p \in Procs, c \in AllClients : Turned(memory[p][c]) => Turned(memory'[p][c])
    PROVE  ClientInv'
<1>1. ClientTypeOK(row, memory, req, changes)
  BY DEF ClientInv
<1>2. ClientTypeOK(row', memory', req', changes')
  BY <1>1 DEF ClientTypeOK
<1>3. Free.phase = "free" /\ ~FoundRevoked(Free, changes')
  BY FreeIsFree DEF FoundRevoked
<1>4. \A o \in Requests : FoundRevoked(req[o], changes)
         => req[o].at \in Procs /\ req[o].client \in AllClients
  BY <1>1, FreeIsFree DEF FoundRevoked, ClientTypeOK, Asking
<1>5. \A c \in Clients : changes'[c] = changes[c] /\ row'[c] = row[c]
  OBVIOUS
<1> QED
  BY <1>2, <1>3, <1>4, <1>5, RequestGoesOn

\* One field of what a process knows of a client.
LEMMA FieldKnown ==
    ASSUME ClientTypeOK(row, memory, req, changes), NEW p \in Procs, NEW c \in AllClients,
           NEW m \in ClientRecords, memory' = [memory EXCEPT ![p][c] = m],
           Turned(memory[p][c]) => Turned(m)
    PROVE  /\ memory' \in [Procs -> [AllClients -> ClientRecords \cup {Unknown}]]
           /\ \A g \in Procs, d \in AllClients : Turned(memory[g][d]) => Turned(memory'[g][d])
<1>1. memory \in [Procs -> [AllClients -> ClientRecords \cup {Unknown}]]
  BY DEF ClientTypeOK
<1>2. memory' = [memory EXCEPT ![p] = [memory[p] EXCEPT ![c] = m]]
  OBVIOUS
<1>3. [memory[p] EXCEPT ![c] = m] \in [AllClients -> ClientRecords \cup {Unknown}]
  BY <1>1
<1>4. memory' \in [Procs -> [AllClients -> ClientRecords \cup {Unknown}]]
  BY <1>1, <1>2, <1>3
<1>5. \A g \in Procs, d \in AllClients :
         memory'[g][d] = IF g = p /\ d = c THEN m ELSE memory[g][d]
  BY <1>1, <1>2, <1>3
<1> QED
  BY <1>4, <1>5

\* The rest of a bearer request: the registry is asked, and a query counted.
LEMMA BearerAnswered ==
    ASSUME ClientInv, NEW q \in Requests, NEW query \in BOOLEAN, NEW foreign \in BOOLEAN,
           Authorize(q, query, foreign)
    PROVE  ClientInv'
<1> DEFINE p == req[q].at
           c == req[q].client
           k == memory[p][c]
           m == [k EXCEPT !.used = k.used + 1]
<1>1. ClientTypeOK(row, memory, req, changes) /\ req[q].phase = "authorize"
      /\ req' = [req EXCEPT ![q] = Free] /\ UNCHANGED <<row, changes>>
  BY DEF ClientInv, Authorize, Answer
<1>2. p \in Procs /\ c \in AllClients
  BY <1>1, FreeIsFree DEF ClientTypeOK, Asking
<1>3. CASE memory' = memory
  BY <1>1, <1>3, RequestEnds DEF ClientTypeOK
<1>4. CASE k # Unknown /\ memory' = [memory EXCEPT ![p][c].used = @ + 1]
  <2>1. k \in ClientRecords
    BY <1>1, <1>2, <1>4 DEF ClientTypeOK
  <2>2. m \in ClientRecords
    BY <2>1 DEF ClientRecords
  <2>3. m.status = k.status /\ m # Unknown
    BY <2>1, <2>2, FreeIsFree DEF ClientRecords
  <2>4. memory' = [memory EXCEPT ![p][c] = m]
    BY <1>4
  <2> HIDE DEF m
  <2>5. Turned(memory[p][c]) => Turned(m)
    BY <2>3 DEF Turned
  <2> QED
    BY <2>2, <2>4, <2>5, <1>1, <1>2, FieldKnown, RequestEnds
<1> QED
  BY <1>3, <1>4 DEF Authorize

\* Suspended or revoked in memory: turned in any case.
LEMMA StatusSet ==
    ASSUME ClientInv, NEW p \in Procs, NEW c \in AllClients, NEW status \in {"suspended", "revoked"},
           SetStatus(p, c, status)
    PROVE  ClientInv'
<1> DEFINE m == [memory[p][c] EXCEPT !.status = status]
<1>1. ClientTypeOK(row, memory, req, changes) /\ UNCHANGED <<row, req, changes>>
  BY DEF ClientInv, SetStatus
<1>2. memory[p][c] \in ClientRecords
  BY <1>1 DEF ClientTypeOK, SetStatus
<1>3. m \in ClientRecords
  BY <1>2 DEF ClientRecords, Statuses
<1>4. m.status = status
  BY <1>2 DEF ClientRecords
<1>5. Turned(m)
  BY <1>3, <1>4, FreeIsFree DEF Turned
<1>6. memory' = [memory EXCEPT ![p][c] = m]
  BY DEF SetStatus
<1> HIDE DEF m
<1> QED
  BY <1>1, <1>3, <1>5, <1>6, FieldKnown, KnowledgeChanges

\* An evaluation account is new in every process.
LEMMA EvaluationRegistered ==
    ASSUME ClientInv, NEW p \in Procs, NEW c \in EvalClients, RegisterEvaluation(p, c)
    PROVE  ClientInv'
<1>1. ClientTypeOK(row, memory, req, changes) /\ UNCHANGED <<row, req, changes>>
      /\ c \in AllClients /\ memory' = [memory EXCEPT ![p][c] = Evaluation]
  BY DEF ClientInv, RegisterEvaluation, AllClients
<1>2. ~Turned(memory[p][c])
  BY DEF RegisterEvaluation, Turned
<1> QED
  BY <1>1, <1>2, RecordsTyped, FieldKnown, KnowledgeChanges

\* A process that starts has no requests.
LEMMA ProcessStarts ==
    ASSUME ClientInv, NEW p \in Procs, NEW loaded \in BOOLEAN, Start(p, loaded)
    PROVE  ClientInv'
<1> DEFINE restored == [c \in AllClients |->
               IF c \in Clients /\ loaded /\ row[c] # Unknown THEN row[c]
               ELSE IF c \in Configured THEN FromConfig ELSE Unknown]
<1>1. ClientTypeOK(row, memory, req, changes) /\ UNCHANGED <<row, changes>>
      /\ memory' = [memory EXCEPT ![p] = restored]
  BY DEF ClientInv, Start
<1>2. req' = [q \in Requests |-> IF req[q] # Free /\ req[q].at = p THEN Free ELSE req[q]]
  BY DEF Start
<1>3. restored \in [AllClients -> ClientRecords \cup {Unknown}]
  <2>1. ASSUME NEW c \in AllClients PROVE restored[c] \in ClientRecords \cup {Unknown}
    <3>1. CASE c \in Clients /\ loaded /\ row[c] # Unknown
      BY <3>1, <1>1 DEF ClientTypeOK
    <3>2. CASE ~(c \in Clients /\ loaded /\ row[c] # Unknown)
      BY <3>2, RecordsTyped
    <3> QED
      BY <3>1, <3>2
  <2> QED
    BY <2>1
<1> HIDE DEF restored
<1>4. /\ memory' \in [Procs -> [AllClients -> ClientRecords \cup {Unknown}]]
      /\ \A g \in Procs : g # p => memory'[g] = memory[g]
  BY <1>1, <1>3 DEF ClientTypeOK
<1>5. \A q \in Requests : req'[q] = Free \/ (req'[q] = req[q] /\ req[q].at # p)
                          \/ (req'[q] = req[q] /\ req[q] = Free)
  BY <1>2
<1>6. ClientTypeOK(row', memory', req', changes')
  BY <1>1, <1>2, <1>4, <1>5 DEF ClientTypeOK
<1>7. \A q \in Requests : req'[q].phase # "free" => req'[q] = req[q] /\ req[q].at # p
  BY <1>5, FreeIsFree
<1>8. \A q \in Requests : FoundRevoked(req'[q], changes) => req[q].at \in Procs \ {p}
  BY <1>1, <1>7, FreeIsFree DEF FoundRevoked, ClientTypeOK, Asking
<1>9. StaysRevoked(row', memory', req', changes')
  <2> SUFFICES ASSUME NEW q \in Requests, FoundRevoked(req'[q], changes)
               PROVE  /\ row[req'[q].client] # Unknown /\ row[req'[q].client].status = "revoked"
                      /\ \A o \in Requests :
                           req'[o].phase = "register" /\ req'[o].at = req'[q].at
                               /\ req'[o].client = req'[q].client
                             => req'[o].record.status = "revoked"
                      /\ req'[q].phase = "authorize"
                           => Turned(memory'[req'[q].at][req'[q].client])
    BY <1>1 DEF StaysRevoked
  <2>1. req'[q] = req[q] /\ req[q].at \in Procs \ {p}
    BY <1>7, <1>8 DEF FoundRevoked
  <2>2. /\ row[req[q].client] # Unknown /\ row[req[q].client].status = "revoked"
        /\ \A o \in Requests :
             req[o].phase = "register" /\ req[o].at = req[q].at /\ req[o].client = req[q].client
                 => req[o].record.status = "revoked"
        /\ req[q].phase = "authorize" => Turned(memory[req[q].at][req[q].client])
    BY <2>1 DEF ClientInv, StaysRevoked
  <2> QED
    BY <2>1, <2>2, <1>4, <1>7
<1>10. RowsThere(row', req') /\ SinceCounted(req', changes')
  BY <1>1, <1>7 DEF ClientInv, RowsThere, SinceCounted
<1> QED
  BY <1>6, <1>9, <1>10 DEF ClientInv

\* Every step keeps what the requests found.
LEMMA ClientStep == ClientInv /\ [IdentityNext]_identityVars => ClientInv'
<1> SUFFICES ASSUME ClientInv, [IdentityNext]_identityVars PROVE ClientInv'
  OBVIOUS
<1>1. ASSUME NEW p \in Procs, NEW loaded \in BOOLEAN, Start(p, loaded) PROVE ClientInv'
  BY <1>1, ProcessStarts
<1>2. ASSUME NEW p \in Procs, NEW c \in EvalClients, RegisterEvaluation(p, c) PROVE ClientInv'
  BY <1>2, EvaluationRegistered
<1>3. ASSUME NEW p \in Procs, NEW c \in AllClients, SuspendEvaluation(p, c) \/ RevokeEvaluation(p, c)
      PROVE  ClientInv'
  BY <1>3, StatusSet DEF SuspendEvaluation, RevokeEvaluation
<1>4. ASSUME NEW c \in Clients, Expire(c) PROVE ClientInv'
  BY <1>4 DEF Expire, ClientInv
<1>5. ASSUME NEW q \in Requests, NEW p \in Procs, NEW c \in Clients, NEW key \in Keys,
             CreateClient(q, p, c, key) \/ RotateClient(q, p, c, key)
      PROVE  ClientInv'
  BY <1>5, ClientGiven
<1>6. ASSUME NEW q \in Requests, NEW p \in Procs, NEW c \in Clients, RevokeClient(q, p, c)
      PROVE  ClientInv'
  BY <1>6, ClientRevoked
<1>7. ASSUME NEW q \in Requests, NEW p \in Procs, NEW c \in AllClients, NEW up \in BOOLEAN,
             BearerStart(q, p, c, up)
      PROVE  ClientInv'
  BY <1>7, BearerArrives
<1>8. ASSUME NEW q \in Requests, NEW p \in Procs, NEW c \in AllClients, NEW up \in BOOLEAN,
             NEW key \in Keys, IssueToken(q, p, c, key, up)
      PROVE  ClientInv'
  <2>1. req' = [req EXCEPT ![q] = Free] /\ UNCHANGED <<row, memory, changes>>
    BY <1>8 DEF IssueToken, Answer
  <2> QED
    BY <2>1, RequestEnds DEF ClientInv, ClientTypeOK
<1>9. ASSUME NEW q \in Requests, Reread(q) \/ RegisterDurable(q) PROVE ClientInv'
  BY <1>9, RowReread, RowRegistered
<1>10. ASSUME NEW q \in Requests, NEW query \in BOOLEAN, NEW foreign \in BOOLEAN,
              Authorize(q, query, foreign)
       PROVE  ClientInv'
  BY <1>10, BearerAnswered
<1>11. CASE UNCHANGED identityVars
  BY <1>11 DEF identityVars, ClientInv
<1> QED
  BY <1>1, <1>2, <1>3, <1>4, <1>5, <1>6, <1>7, <1>8, <1>9, <1>10, <1>11 DEF IdentityNext

(* RevokedIsRefused, for any number of processes, requests and clients: a  *)
(* bearer token of a client that was revoked before the request came in is *)
(* refused in every process, unless the client was rotated meanwhile or an *)
(* older request of the process still carries the row as it was            *)
(* (auth.rs jwt_required, register_durable_client).                        *)
THEOREM RevokedTurnedAway == IdentitySpec => RevokedIsRefused
<1> DEFINE Refuses(q) ==
             (req[q].phase = "authorize" /\ req'[q] = Free /\ req[q].since # Never)
                 => ((changes[req[q].client] = req[q].since /\ answer' # Free) => ~answer'.ok)
<1>1. IdentityInit => ClientInv
  <2> SUFFICES ASSUME IdentityInit PROVE ClientInv
    OBVIOUS
  <2>1. \A q \in Requests : req[q] = Free /\ req[q].phase = "free"
    BY FreeIsFree DEF IdentityInit
  <2> QED
    BY <2>1 DEF IdentityInit, ClientInv, ClientTypeOK, RowsThere, SinceCounted, StaysRevoked,
                FoundRevoked
<1>2. ASSUME ClientInv, [IdentityNext]_identityVars, NEW q \in Requests PROVE Refuses(q)
  <2> SUFFICES ASSUME req[q].phase = "authorize", req'[q] = Free, req[q].since # Never,
                      changes[req[q].client] = req[q].since, answer' # Free
               PROVE  ~answer'.ok
    OBVIOUS
  <2>1. ClientTypeOK(row, memory, req, changes) /\ req[q] # Free /\ Asking(req[q])
    BY <1>2, FreeIsFree DEF ClientInv, ClientTypeOK
  <2>2. Turned(memory[req[q].at][req[q].client])
    BY <1>2, <2>1 DEF ClientInv, StaysRevoked, FoundRevoked, Asking
  <2>3. ASSUME NEW query \in BOOLEAN, NEW foreign \in BOOLEAN, Authorize(q, query, foreign)
        PROVE  ~answer'.ok
    <3>1. ~Admits(memory[req[q].at][req[q].client], req[q].client, query)
      BY <2>2 DEF Admits, Usable, Turned
    <3> QED
      BY <2>3, <3>1 DEF Authorize, Answer
  <2>4. ASSUME NEW o \in Requests, o # q, NEW r, req' = [req EXCEPT ![o] = r] PROVE FALSE
    BY <2>1, <2>4 DEF ClientTypeOK
  <2>5. ASSUME req' = req PROVE FALSE
    BY <2>1, <2>5
  <2>6. CASE \E p \in Procs :
               \/ \E loaded \in BOOLEAN : Start(p, loaded)
               \/ \E c \in EvalClients : RegisterEvaluation(p, c)
    BY <2>6 DEF Start, RegisterEvaluation, Silent
  <2>7. CASE \E p \in Procs, c \in AllClients : SuspendEvaluation(p, c) \/ RevokeEvaluation(p, c)
    BY <2>7 DEF SuspendEvaluation, RevokeEvaluation, SetStatus, Silent
  <2>8. CASE \E c \in Clients : Expire(c)
    BY <2>8 DEF Expire, Silent
  <2>9. ASSUME NEW o \in Requests, NEW p \in Procs,
               \/ \E c \in Clients :
                    \/ \E key \in Keys : CreateClient(o, p, c, key) \/ RotateClient(o, p, c, key)
                    \/ RevokeClient(o, p, c)
               \/ \E c \in AllClients, up \in BOOLEAN :
                    \/ BearerStart(o, p, c, up)
                    \/ \E key \in Keys : IssueToken(o, p, c, key, up)
        PROVE  FALSE
    <3>1. req[o] = Free /\ o # q
      BY <2>9, <2>1 DEF CreateClient, RotateClient, RevokeClient, BearerStart, IssueToken
    <3>2. \E r : req' = [req EXCEPT ![o] = r]
      BY <2>9 DEF CreateClient, RotateClient, RevokeClient, BearerStart, IssueToken, Answer
    <3> QED
      BY <3>1, <3>2, <2>4
  <2>10. ASSUME NEW o \in Requests, Reread(o) \/ RegisterDurable(o) PROVE FALSE
    <3>1. o # q
      BY <2>10 DEF Reread, RegisterDurable
    <3>2. \E r : req' = [req EXCEPT ![o] = r]
      BY <2>10 DEF Reread, RegisterDurable, Answer
    <3> QED
      BY <3>1, <3>2, <2>4
  <2>11. ASSUME NEW o \in Requests, NEW query \in BOOLEAN, NEW foreign \in BOOLEAN,
                Authorize(o, query, foreign)
         PROVE  ~answer'.ok
    <3>1. \E r : req' = [req EXCEPT ![o] = r]
      BY <2>11 DEF Authorize, Answer
    <3> QED
      BY <3>1, <2>3, <2>4, <2>11
  <2>12. CASE UNCHANGED identityVars
    BY <2>5, <2>12 DEF identityVars
  <2> QED
    BY <1>2, <2>6, <2>7, <2>8, <2>9, <2>10, <2>11, <2>12 DEF IdentityNext
<1>3. ClientInv /\ [IdentityNext]_identityVars => \A q \in Requests : Refuses(q)
  BY <1>2
<1>4. IdentitySpec => [](ClientInv)
  BY <1>1, ClientStep, PTL DEF IdentitySpec
<1>5. IdentitySpec => [][\A q \in Requests : Refuses(q)]_identityVars
  BY <1>3, <1>4, PTL DEF IdentitySpec
<1> QED
  BY <1>5 DEF RevokedIsRefused
===============================================================================
