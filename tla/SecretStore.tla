------------------------------ MODULE SecretStore ------------------------------
(***************************************************************************)
(* The sealed secret store of opensnow-auth (secrets.rs).  One store is    *)
(* shared by several threads; each call takes the database mutex once per  *)
(* statement, so the reads and the writes of one call interleave with      *)
(* those of the others.  The key ring needs exclusive access to the store, *)
(* and a restart opens the same database with the legacy key alone.        *)
(***************************************************************************)
EXTENDS Naturals, FiniteSets

CONSTANTS Threads,      \* threads that share the store
          Handles,      \* secret handles of one organization
          Secrets,      \* raw secret values
          RotatedKeys,  \* ids given to with_rotated_key / register_decrypt_key
          Legacy,       \* LEGACY_KEY_ID, the key of the v1 format
          MaxVersion    \* bound: a row at this version starts no rotation

ASSUME SecretAssumption == /\ Legacy \notin RotatedKeys
                           /\ MaxVersion \in Nat
                           /\ Secrets # {}

VARIABLES ring,     \* ids of the data keys the open store holds
          current,  \* current_key_id
          rows,     \* table secret_handles, by handle
          calls,    \* the call each thread is in
          lastSet,  \* history: the value the last create or rotate wrote
          migrated  \* history: a reseal_all finished under the current key

secretVars == <<ring, current, rows, calls, lastSet, migrated>>

DataKeys == RotatedKeys \cup {Legacy}
NoRow == [state |-> "none"]
Row == [state : {"active", "revoked"}, version : Nat,
        secret : Secrets, key : DataKeys]
Idle == [phase |-> "idle"]
Call == [phase : {"next", "opened", "write"}, kind : {"rotate", "reseal", "reseal_all"},
         handle : Handles, secret : Secrets, todo : SUBSET Handles]

ActiveHandles == {h \in Handles : rows[h].state = "active"}
AllIdle == \A t \in Threads : calls[t] = Idle
Return(t) == calls' = [calls EXCEPT ![t] = Idle]

SecretInit == /\ ring = {Legacy} /\ current = Legacy
              /\ rows = [h \in Handles |-> NoRow]
              /\ calls = [t \in Threads |-> Idle]
              /\ lastSet = [h \in Handles |-> CHOOSE s \in Secrets : TRUE]
              /\ migrated = FALSE

(* add_key: the id must be new; with_rotated_key also promotes it.         *)
AddKey(k, promote) ==
    /\ AllIdle /\ k \notin ring
    /\ ring' = ring \cup {k}
    /\ current' = IF promote THEN k ELSE current
    /\ migrated' = (migrated /\ ~promote)
    /\ UNCHANGED <<rows, calls, lastSet>>

SetCurrentKey(k) ==
    /\ AllIdle /\ k \in ring
    /\ current' = k
    /\ migrated' = (migrated /\ k = current)
    /\ UNCHANGED <<ring, rows, calls, lastSet>>

(* A new process opens the database: local_dev holds the legacy key only.  *)
Reopen == /\ ring' = {Legacy} /\ current' = Legacy
          /\ calls' = [t \in Threads |-> Idle]
          /\ migrated' = FALSE
          /\ UNCHANGED <<rows, lastSet>>

(* The INSERT fails on a handle that exists.                               *)
CreateSecret(t, h, s) ==
    /\ calls[t] = Idle /\ rows[h] = NoRow
    /\ rows' = [rows EXCEPT ![h] = [state |-> "active", version |-> 1,
                                    secret |-> s, key |-> current]]
    /\ lastSet' = [lastSet EXCEPT ![h] = s]
    /\ UNCHANGED <<ring, current, calls, migrated>>

RevokeSecret(h) ==
    /\ rows[h] # NoRow
    /\ rows' = [rows EXCEPT ![h].state = "revoked"]
    /\ UNCHANGED <<ring, current, calls, lastSet, migrated>>

(* What resolve_secret and unseal return: a value, or an error.            *)
Readable(h) == /\ rows[h].state = "active"
               /\ rows[h].key \in ring

(* rotate_secret, up to the unlock after get_metadata.                     *)
BeginRotate(t, h, s) ==
    /\ calls[t] = Idle
    /\ rows[h].state = "active" /\ rows[h].version < MaxVersion
    /\ calls' = [calls EXCEPT ![t] = [phase |-> "write", kind |-> "rotate",
                                      handle |-> h, secret |-> s, todo |-> {}]]
    /\ UNCHANGED <<ring, current, rows, lastSet, migrated>>

(* reseal_secret of one handle, and the listing of reseal_all.             *)
BeginReseal(t, kind, hs) ==
    /\ calls[t] = Idle /\ hs # {}
    /\ kind = "reseal_all" => hs = ActiveHandles
    /\ \A h \in hs : rows[h].state = "active" => rows[h].version < MaxVersion
    /\ LET h == CHOOSE h \in hs : TRUE IN
         calls' = [calls EXCEPT ![t] = [phase |-> "next", kind |-> kind,
                      handle |-> h, secret |-> lastSet[h], todo |-> hs]]
    /\ UNCHANGED <<ring, current, rows, lastSet, migrated>>

\* Mutant: reseal_all goes on past a row it cannot open.
OpenNext_Skips(t) ==
    /\ calls[t] # Idle /\ calls[t].phase = "next"
    /\ \E h \in calls[t].todo :
         calls' = [calls EXCEPT ![t] =
             IF Readable(h) THEN [@ EXCEPT !.phase = "opened", !.handle = h,
                                           !.secret = rows[h].secret, !.todo = @ \ {h}]
             ELSE [@ EXCEPT !.todo = @ \ {h}]]
    /\ UNCHANGED <<ring, current, rows, lastSet, migrated>>

(* The first locked section of reseal_secret: the row is opened, or the    *)
(* error ends the call and leaves the rest of reseal_all undone.           *)
OpenNext(t) ==
    /\ calls[t] # Idle /\ calls[t].phase = "next"
    /\ \E h \in calls[t].todo :
         \/ /\ Readable(h)
            /\ calls' = [calls EXCEPT ![t] = [@ EXCEPT !.phase = "opened", !.handle = h,
                                        !.secret = rows[h].secret, !.todo = calls[t].todo \ {h}]]
         \/ ~Readable(h) /\ Return(t)
    /\ UNCHANGED <<ring, current, rows, lastSet, migrated>>

(* rotate_secret as reseal_secret calls it: the state is read once more.   *)
CheckAgain(t) ==
    /\ calls[t] # Idle /\ calls[t].phase = "opened"
    /\ IF rows[calls[t].handle].state = "active"
       THEN calls' = [calls EXCEPT ![t].phase = "write"]
       ELSE Return(t)
    /\ UNCHANGED <<ring, current, rows, lastSet, migrated>>

Sealed(row, s) == [row EXCEPT !.version = @ + 1, !.secret = s, !.key = current]

\* Mutant: the UPDATE lacks its condition on the state.
WriteRow_AnyState(t) ==
    LET c == calls[t] IN
    /\ c # Idle /\ c.phase = "write"
    /\ rows' = [rows EXCEPT ![c.handle] = Sealed(rows[c.handle], c.secret)]
    /\ calls' = [calls EXCEPT ![t].phase = "next"]
    /\ UNCHANGED <<ring, current, lastSet, migrated>>

(* UPDATE ... WHERE state = 'active': no row matches a revoked handle, and *)
(* the call returns Ok all the same.                                       *)
WriteRow(t) ==
    LET c == calls[t] IN
    /\ c # Idle /\ c.phase = "write"
    /\ IF rows[c.handle].state = "active"
       THEN /\ rows' = [rows EXCEPT ![c.handle] = Sealed(rows[c.handle], c.secret)]
            /\ lastSet' = IF c.kind = "rotate"
                          THEN [lastSet EXCEPT ![c.handle] = c.secret] ELSE lastSet
       ELSE UNCHANGED <<rows, lastSet>>
    /\ calls' = [calls EXCEPT ![t].phase = "next"]
    /\ UNCHANGED <<ring, current, migrated>>

Finish(t) ==
    /\ calls[t] # Idle /\ calls[t].phase = "next" /\ calls[t].todo = {}
    /\ migrated' = (migrated \/ calls[t].kind = "reseal_all")
    /\ Return(t)
    /\ UNCHANGED <<ring, current, rows, lastSet>>

SecretNext ==
    \/ \E k \in DataKeys, promote \in BOOLEAN : AddKey(k, promote)
    \/ \E k \in DataKeys : SetCurrentKey(k)
    \/ Reopen
    \/ \E h \in Handles : RevokeSecret(h)
    \/ \E t \in Threads :
         \/ \E h \in Handles, s \in Secrets : CreateSecret(t, h, s) \/ BeginRotate(t, h, s)
         \/ \E h \in Handles : BeginReseal(t, "reseal", {h})
         \/ BeginReseal(t, "reseal_all", ActiveHandles)
         \/ OpenNext(t) \/ CheckAgain(t) \/ WriteRow(t) \/ Finish(t)

SecretSpec == SecretInit /\ [][SecretNext]_secretVars

-------------------------------------------------------------------------------
(* Rows, calls and history have their types, the legacy key is always in   *)
(* the ring, and the current key always is, which current_key() relies on. *)
SecretTypeOK ==
    /\ ring \subseteq DataKeys /\ Legacy \in ring /\ current \in ring
    /\ rows \in [Handles -> Row \cup {NoRow}]
    /\ calls \in [Threads -> Call \cup {Idle}]
    /\ lastSet \in [Handles -> Secrets]
    /\ migrated \in BOOLEAN

(* A revoked handle is never written again, although rotate_secret and     *)
(* reseal_secret read the state under one lock and write under another.    *)
RevokedStays == \A h \in Handles : rows[h].state = "revoked" => rows'[h] = rows[h]
RevokedIsFinal == [][RevokedStays]_secretVars

(* After a reseal_all that returned Ok, every active handle is sealed with *)
(* the current key, whatever the other threads created, rotated or revoked *)
(* meanwhile: the retired keys can be dropped.                             *)
RetireSafe == migrated => \A h \in ActiveHandles : rows[h].key = current

(* "writes it back sealed under the current key": a reseal never changes   *)
(* the value a handle holds.  The code does not keep this, so no run       *)
(* checks it: a rotation between a reseal's read and its write is undone.  *)
ResealKeepsValue == \A h \in ActiveHandles : rows[h].secret = lastSet[h]
===============================================================================
