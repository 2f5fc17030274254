--------------------------- MODULE Feeds_proofs -------------------------------
(***************************************************************************)
(* Proofs about how rows come in: the ingest buffer (IngestBuffer), for    *)
(* any tenants, tables, rows and bounds; the Kafka consumer (KafkaIngest), *)
(* for any topic, batch size and number of faults and crashes; and the     *)
(* watchers of pipes (FilePipes), for any pipes, files and statements.     *)
(***************************************************************************)
EXTENDS IngestBuffer, KafkaIngest, FilePipes, FiniteSetTheorems, SequenceTheorems,
        WellFoundedInduction, TLAPS

-------------------------------------------------------------------------------
\* The ingest buffer: type correctness, that no error path loses or doubles
\* an acknowledged row, and that the buffer implements the durable log.

USE TenantAssumption, PrefixedAssumption, RowAssumption, BoundsAssumption

\* A batch is finite, so counting its rows gives a number.
LEMMA CountIsNat == ASSUME NEW S \in SUBSET Row PROVE Cardinality(S) \in Nat
  BY FS_Subset, FS_CardinalityType

\* The name of a key is a session name.
LEMMA NameType == ASSUME NEW k \in Key PROVE RegisteredName(k) \in Name
  BY DEF RegisteredName, Key

\* Initially every variable has its type.
LEMMA InitType == Init => TypeOK
  <1>. SUFFICES ASSUME Init PROVE TypeOK
    OBVIOUS
  <1>1. session \in UNION {[N -> Key] : N \in SUBSET Name}
    <2>1. session \in [{} -> Key]
      BY DEF Init
    <2>2. {} \in SUBSET Name
      OBVIOUS
    <2>. QED  BY <2>1, <2>2
  <1>. QED  BY <1>1, FS_EmptySet DEF Init, TypeOK, NoRows

\* Type correctness is inductive.
LEMMA NextType == TypeOK /\ [Next]_vars => TypeOK'
  <1>. SUFFICES ASSUME TypeOK, [Next]_vars PROVE TypeOK'
    OBVIOUS
  <1>. USE DEF TypeOK, bufferVars, flushVars, diskVars, faultVars, histVars, NoRows
  <1>1. ASSUME NEW k \in Key, NEW rows \in SUBSET Row, Push(k, rows) PROVE TypeOK'
    BY <1>1 DEF Push
  <1>2. CASE IntervalElapses
    BY <1>2 DEF IntervalElapses
  <1>3. CASE Tick
    BY <1>3 DEF Tick
  <1>4. CASE Drain
    BY <1>4, FS_EmptySet DEF Drain
  <1>5. ASSUME NEW k \in Key, CreateFile(k) PROVE TypeOK'
    BY <1>5 DEF CreateFile
  <1>6. CASE FinishFile
    <2>. DEFINE file == [key |-> current, rows |-> drained[current]]
    <2>1. file \in File /\ drained[current] \in SUBSET Row
      BY DEF File
    <2>2. Cardinality(file.rows) \in Nat
      BY <2>1, CountIsNat
    <2>3. IsFiniteSet(flushed \cup {file})
      BY FS_AddElement
    <2>. QED  BY <1>6, <2>1, <2>2, <2>3 DEF FinishFile
  <1>7. ASSUME NEW k \in Key, WriteRejected(k) PROVE TypeOK'
    BY <1>7 DEF WriteRejected, Rebuffer
  <1>8. CASE WriteFails
    BY <1>8 DEF WriteFails, Rebuffer
  <1>9. CASE FinishFlush
    <2>1. Cardinality(flushed) \in Nat
      BY FS_CardinalityType
    <2>. QED  BY <1>9, <2>1 DEF FinishFlush
  <1>10. ASSUME NEW f \in flushed, Register(f) PROVE TypeOK'
    <2>1. f.key \in Key /\ RegisteredName(f.key) \in Name
      BY NameType DEF File
    <2>2. session' \in UNION {[N -> Key] : N \in SUBSET Name}
      <3>1. PICK N \in SUBSET Name : session \in [N -> Key]
        OBVIOUS
      <3>. DEFINE n == RegisteredName(f.key)
      <3>. DEFINE extended == [m \in DOMAIN session \cup {n} |->
                                 IF m = n THEN f.key ELSE session[m]]
      <3>2. extended \in UNION {[M -> Key] : M \in SUBSET Name}
        <4>1. N \cup {n} \in SUBSET Name
          BY <2>1
        <4>2. extended \in [N \cup {n} -> Key]
          BY <2>1, <3>1
        <4>. QED  BY <4>1, <4>2
      <3>3. session' = session \/ session' = extended
        BY <1>10 DEF Register
      <3>. QED  BY <3>2, <3>3
    <2>3. IsFiniteSet(flushed \ {f})
      BY FS_RemoveElement
    <2>. QED  BY <1>10, <2>2, <2>3 DEF Register
  <1>11. CASE FlushDone
    BY <1>11 DEF FlushDone
  <1>12. CASE Crash
    <2>1. session' \in UNION {[N -> Key] : N \in SUBSET Name}
      <3>1. session' \in [{} -> Key]
        BY <1>12 DEF Crash
      <3>2. {} \in SUBSET Name
        OBVIOUS
      <3>. QED  BY <3>1, <3>2
    <2>2. RowsIn(buffers) \subseteq Row /\ RowsIn(drained) \subseteq Row
      BY DEF RowsIn
    <2>3. broken' \in SUBSET Key /\ bootFiles' \in SUBSET File /\ lost' \in SUBSET Row
      BY <1>12, <2>2 DEF Crash
    <2>4. crashes' \in 0..MaxCrashes
      BY <1>12 DEF Crash
    <2>5. flushed' \in SUBSET File /\ IsFiniteSet(flushed')
      BY <1>12, FS_EmptySet DEF Crash
    <2>6. /\ buffers' = NoRows /\ lastFlush' = "none" /\ totalRows' = 0 /\ totalFiles' = 0
          /\ pc' = "idle" /\ drained' = NoRows /\ flushedRows' = 0
          /\ UNCHANGED <<current, files, earlyFaults, lateFaults, acked>>
      BY <1>12 DEF Crash
    <2>. QED  BY <2>1, <2>3, <2>4, <2>5, <2>6
  <1>13. CASE UNCHANGED vars
    BY <1>13 DEF vars
  <1>. QED
    BY <1>1, <1>2, <1>3, <1>4, <1>5, <1>6, <1>7, <1>8, <1>9, <1>10, <1>11, <1>12, <1>13
    DEF Next, Compactor, Write

\* Every reachable state of the buffer is well typed.
THEOREM TypeCorrect == Spec => []TypeOK
  BY InitType, NextType, PTL DEF Spec

-----------------------------------------------------------------------------
\* What the three updates of a row map do to its set of rows.
LEMMA RowsOfNone == RowsIn(NoRows) = {}
  BY DEF RowsIn, NoRows

\* Rows appended to one buffer are what the buffers gain.
LEMMA RowsAdded ==
  ASSUME NEW held \in [Key -> SUBSET Row], NEW k \in Key, NEW rows
  PROVE  RowsIn([held EXCEPT ![k] = @ \cup rows]) = RowsIn(held) \cup rows
  <1>. DEFINE new == [held EXCEPT ![k] = @ \cup rows]
  <1>1. \A l \in Key : new[l] = IF l = k THEN held[k] \cup rows ELSE held[l]
    OBVIOUS
  <1>2. ASSUME NEW r PROVE r \in RowsIn(new) <=> r \in RowsIn(held) \cup rows
    <2>. HIDE DEF new
    <2>. QED  BY <1>1 DEF RowsIn
  <1>. QED  BY <1>2

\* A buffer emptied takes its own rows away and no other.
LEMMA RowsCleared ==
  ASSUME NEW held \in [Key -> SUBSET Row], NEW k \in Key,
         \A l, m \in Key : l # m => held[l] \cap held[m] = {}
  PROVE  RowsIn([held EXCEPT ![k] = {}]) = RowsIn(held) \ held[k]
  <1>. DEFINE new == [held EXCEPT ![k] = {}]
  <1>1. \A l \in Key : new[l] = IF l = k THEN {} ELSE held[l]
    OBVIOUS
  <1>2. ASSUME NEW r PROVE r \in RowsIn(new) <=> r \in RowsIn(held) \ held[k]
    <2>. HIDE DEF new
    <2>. QED  BY <1>1 DEF RowsIn
  <1>. QED  BY <1>2

\* The rows of one buffer are buffered rows.
LEMMA RowsOfKey ==
  ASSUME NEW held, NEW k \in Key PROVE held[k] \subseteq RowsIn(held)
  BY DEF RowsIn

\* A failed write moves the batch back to the buffer and no row with it.
LEMMA RebufferMoves ==
  ASSUME TypeOK, AtOnePlace, NEW k \in Key, Rebuffer(k)
  PROVE  /\ RowsIn(buffers') = RowsIn(buffers) \cup drained[k]
         /\ RowsIn(drained') = RowsIn(drained) \ drained[k]
         /\ \A l, m \in Key : l # m => /\ buffers'[l] \cap buffers'[m] = {}
                                       /\ drained'[l] \cap drained'[m] = {}
  <1>1. buffers \in [Key -> SUBSET Row] /\ drained \in [Key -> SUBSET Row]
    BY DEF TypeOK
  <1>2. RowsIn(buffers') = RowsIn(buffers) \cup drained[k]
    BY <1>1, RowsAdded DEF Rebuffer
  <1>3. RowsIn(drained') = RowsIn(drained) \ drained[k]
    BY <1>1, RowsCleared DEF Rebuffer, AtOnePlace
  <1>4. ASSUME NEW l \in Key, NEW m \in Key, l # m
        PROVE  buffers'[l] \cap buffers'[m] = {} /\ drained'[l] \cap drained'[m] = {}
    <2>1. buffers'[l] \subseteq buffers[l] \cup drained[k]
      BY <1>1 DEF Rebuffer
    <2>2. /\ l # k => buffers'[l] = buffers[l]
          /\ m # k => buffers'[m] = buffers[m]
          /\ m = k => buffers'[m] = buffers[m] \cup drained[k]
      BY <1>1 DEF Rebuffer
    <2>3. /\ buffers[l] \cap drained[k] = {}
          /\ buffers[m] \cap drained[k] = {}
      BY RowsOfKey DEF AtOnePlace
    <2>4. buffers[l] \cap buffers[m] = {} /\ drained[l] \cap drained[m] = {}
      BY <1>4 DEF AtOnePlace
    <2>5. drained'[l] \subseteq drained[l] /\ drained'[m] \subseteq drained[m]
      BY <1>1 DEF Rebuffer
    <2>. QED  BY <1>4, <2>1, <2>2, <2>3, <2>4, <2>5
  <1>. QED  BY <1>2, <1>3, <1>4

\* Steps that move no row: the clock, the wake-up, opening a file, the
\* bookkeeping at the end of a flush, and registration.
LEMMA QuietStep ==
  ASSUME Conservation, AtOnePlace,
         UNCHANGED <<buffers, drained, files, lost, acked>>
  PROVE  Conservation' /\ AtOnePlace'
  BY DEF Conservation, AtOnePlace, InMemory, OnDisk, RowsIn, RowsOf

\* A failed write: the batch changes hands inside memory.
LEMMA RebufferStep ==
  ASSUME TypeOK, Conservation, AtOnePlace, NEW k \in Key, Rebuffer(k),
         UNCHANGED <<files, lost, acked>>
  PROVE  Conservation' /\ AtOnePlace' /\ InMemory' = InMemory /\ OnDisk' = OnDisk
  <1>1. /\ RowsIn(buffers') = RowsIn(buffers) \cup drained[k]
        /\ RowsIn(drained') = RowsIn(drained) \ drained[k]
        /\ \A l, m \in Key : l # m => /\ buffers'[l] \cap buffers'[m] = {}
                                      /\ drained'[l] \cap drained'[m] = {}
    BY RebufferMoves
  <1>2. drained[k] \subseteq RowsIn(drained)
    BY RowsOfKey
  <1>3. InMemory' = InMemory /\ OnDisk' = OnDisk
    BY <1>1, <1>2 DEF InMemory, OnDisk, RowsOf
  <1>4. Conservation'
    BY <1>3 DEF Conservation
  <1>5. RowsIn(buffers)' \cap RowsIn(drained)' = {}
    BY <1>1, <1>2 DEF AtOnePlace
  <1>. QED  BY <1>1, <1>3, <1>4, <1>5 DEF AtOnePlace

\* A push adds rows no one has seen.
LEMMA PushStep ==
  ASSUME TypeOK, Conservation, AtOnePlace, NEW k \in Key, NEW rows \in SUBSET Row,
         Push(k, rows)
  PROVE  /\ Conservation' /\ AtOnePlace'
         /\ InMemory' = InMemory \cup rows /\ OnDisk' = OnDisk
  <1>1. buffers \in [Key -> SUBSET Row]
    BY DEF TypeOK
  <1>2. /\ buffers' = [buffers EXCEPT ![k] = @ \cup rows]
        /\ rows \cap acked = {} /\ acked' = acked \cup rows
        /\ UNCHANGED <<drained, files, lost>>
    BY DEF Push, flushVars, diskVars
  <1>3. RowsIn(buffers') = RowsIn(buffers) \cup rows
    BY <1>1, <1>2, RowsAdded
  <1>4. RowsIn(drained)' = RowsIn(drained) /\ OnDisk' = OnDisk
    BY <1>2 DEF RowsIn, OnDisk, RowsOf
  <1>5. InMemory' = InMemory \cup rows
    BY <1>3, <1>4 DEF InMemory
  <1>6. Conservation'
    BY <1>2, <1>4, <1>5 DEF Conservation
  <1>7. rows \cap (InMemory \cup OnDisk \cup lost) = {}
    BY <1>2 DEF Conservation
  <1>8. ASSUME NEW l \in Key, NEW m \in Key, l # m
        PROVE  buffers'[l] \cap buffers'[m] = {}
    <2>1. buffers'[l] \subseteq buffers[l] \cup rows /\ buffers'[m] \subseteq buffers[m] \cup rows
      BY <1>1, <1>2
    <2>2. (l # k => buffers'[l] = buffers[l]) /\ (m # k => buffers'[m] = buffers[m])
      BY <1>1, <1>2
    <2>3. buffers[l] \cap rows = {} /\ buffers[m] \cap rows = {}
      BY <1>7, RowsOfKey DEF InMemory
    <2>. QED  BY <1>8, <2>1, <2>2, <2>3 DEF AtOnePlace
  <1>9. AtOnePlace'
    <2>1. RowsIn(buffers)' \cap RowsIn(drained)' = {}
      BY <1>3, <1>4, <1>7 DEF AtOnePlace, InMemory
    <2>2. (InMemory \cap OnDisk)' = {} /\ (lost \cap (InMemory \cup OnDisk))' = {}
      BY <1>2, <1>4, <1>5, <1>7 DEF AtOnePlace
    <2>. QED  BY <1>2, <1>8, <2>1, <2>2 DEF AtOnePlace
  <1>. QED  BY <1>4, <1>5, <1>6, <1>9

\* The flush takes the whole buffer; it had nothing of its own.
LEMMA DrainStep ==
  ASSUME TypeOK, Conservation, AtOnePlace, DrainedInFlush, Drain
  PROVE  Conservation' /\ AtOnePlace' /\ InMemory' = InMemory /\ OnDisk' = OnDisk
  <1>1. /\ drained = NoRows /\ drained' = buffers /\ buffers' = NoRows
        /\ UNCHANGED <<files, lost, acked>>
    BY DEF Drain, DrainedInFlush, diskVars, histVars
  <1>2. /\ RowsIn(drained) = {} /\ RowsIn(drained)' = RowsIn(buffers)
        /\ RowsIn(buffers)' = {}
    BY <1>1, RowsOfNone DEF RowsIn
  <1>3. InMemory' = InMemory /\ OnDisk' = OnDisk
    BY <1>1, <1>2 DEF InMemory, OnDisk, RowsOf
  <1>4. \A k \in Key : buffers'[k] = {}
    BY <1>1 DEF NoRows
  <1>. QED  BY <1>1, <1>2, <1>3, <1>4 DEF Conservation, AtOnePlace

\* A completed file takes over exactly the rows of its batch.
LEMMA FinishFileStep ==
  ASSUME TypeOK, Conservation, AtOnePlace, FinishFile
  PROVE  /\ Conservation' /\ AtOnePlace'
         /\ InMemory' = InMemory \ drained[current]
         /\ OnDisk' = OnDisk \cup drained[current]
  <1>. DEFINE rows == drained[current]
  <1>. DEFINE file == [key |-> current, rows |-> rows]
  <1>1. drained \in [Key -> SUBSET Row] /\ current \in Key
    BY DEF TypeOK
  <1>2. /\ files' = files \cup {file} /\ drained' = [drained EXCEPT ![current] = {}]
        /\ UNCHANGED <<buffers, lost, acked>>
    BY DEF FinishFile, bufferVars, histVars
  <1>3. rows \subseteq RowsIn(drained)
    BY <1>1, RowsOfKey
  <1>4. RowsIn(drained') = RowsIn(drained) \ rows
    BY <1>1, <1>2, RowsCleared DEF AtOnePlace
  <1>5. RowsIn(buffers)' = RowsIn(buffers)
    BY <1>2 DEF RowsIn
  <1>6. OnDisk' = OnDisk \cup rows
    <2>1. file.rows = rows
      OBVIOUS
    <2>2. ASSUME NEW r PROVE r \in OnDisk' <=> r \in OnDisk \/ r \in file.rows
      <3>. HIDE DEF file
      <3>. QED  BY <1>2 DEF OnDisk, RowsOf
    <2>. QED  BY <2>1, <2>2
  <1>7. InMemory' = InMemory \ rows
    <2>1. RowsIn(buffers) \cap rows = {}
      BY <1>3 DEF AtOnePlace
    <2>2. InMemory' = RowsIn(buffers) \cup (RowsIn(drained) \ rows)
      BY <1>4, <1>5 DEF InMemory
    <2>. QED  BY <2>1, <2>2 DEF InMemory
  <1>8. Conservation'
    BY <1>2, <1>3, <1>6, <1>7 DEF Conservation, InMemory
  <1>9. ASSUME NEW f \in files', NEW g \in files', f # g PROVE f.rows \cap g.rows = {}
    <2>1. \A h \in files : h.rows \cap rows = {}
      BY <1>3 DEF AtOnePlace, InMemory, OnDisk, RowsOf
    <2>2. file.rows = rows
      OBVIOUS
    <2>. QED  BY <1>2, <1>9, <2>1, <2>2 DEF AtOnePlace
  <1>10. \A l, m \in Key : l # m => drained'[l] \cap drained'[m] = {}
    BY <1>1, <1>2 DEF AtOnePlace
  <1>11. /\ RowsIn(buffers)' \cap RowsIn(drained)' = {}
         /\ (InMemory \cap OnDisk)' = {} /\ (lost \cap (InMemory \cup OnDisk))' = {}
    BY <1>2, <1>3, <1>4, <1>5, <1>6, <1>7 DEF AtOnePlace, InMemory
  <1>12. AtOnePlace'
    BY <1>2, <1>9, <1>10, <1>11 DEF AtOnePlace
  <1>. QED  BY <1>6, <1>7, <1>8, <1>12

\* A crash loses what is in memory and nothing else.
LEMMA CrashStep ==
  ASSUME Conservation, AtOnePlace, Crash
  PROVE  /\ Conservation' /\ AtOnePlace'
         /\ InMemory' = {} /\ OnDisk' = OnDisk /\ lost' = lost \cup InMemory
  <1>1. /\ buffers' = NoRows /\ drained' = NoRows
        /\ lost' = lost \cup RowsIn(buffers) \cup RowsIn(drained)
        /\ UNCHANGED <<files, acked>>
    BY DEF Crash
  <1>2. RowsIn(buffers)' = {} /\ RowsIn(drained)' = {}
    BY <1>1, RowsOfNone DEF RowsIn
  <1>3. InMemory' = {} /\ OnDisk' = OnDisk /\ lost' = lost \cup InMemory
    BY <1>1, <1>2 DEF InMemory, OnDisk, RowsOf
  <1>4. \A k \in Key : buffers'[k] = {} /\ drained'[k] = {}
    BY <1>1 DEF NoRows
  <1>. QED  BY <1>1, <1>2, <1>3, <1>4 DEF Conservation, AtOnePlace

-----------------------------------------------------------------------------
\* The invariant holds initially: nothing has been sent.
LEMMA InitInv == Init => IInv
  <1>. SUFFICES ASSUME Init PROVE IInv
    OBVIOUS
  <1>1. TypeOK
    BY InitType
  <1>2. RowsIn(buffers) = {} /\ RowsIn(drained) = {}
    BY RowsOfNone DEF Init
  <1>3. \A k \in Key : buffers[k] = {} /\ drained[k] = {}
    BY DEF Init, NoRows
  <1>. QED  BY <1>1, <1>2, <1>3
       DEF IInv, Init, Conservation, AtOnePlace, DrainedInFlush, InMemory, OnDisk, RowsOf

\* Every step keeps the invariant, and is a step of the durable log or leaves
\* the log as it was.
LEMMA Step ==
  ASSUME IInv, [Next]_vars
  PROVE  /\ Conservation' /\ AtOnePlace' /\ DrainedInFlush'
         /\ [Log!LogNext]_(Log!logVars)
  <1>. USE DEF IInv
  <1>. DEFINE Quiet == UNCHANGED <<buffers, drained, files, lost, acked>>
  <1>. USE DEF bufferVars, flushVars, diskVars, faultVars, histVars
  <1>1. ASSUME Quiet PROVE /\ Conservation' /\ AtOnePlace' /\ UNCHANGED Log!logVars
    BY <1>1, QuietStep DEF Log!logVars, InMemory, OnDisk, RowsIn, RowsOf
  <1>2. ASSUME NEW k \in Key, NEW rows \in SUBSET Row, Push(k, rows)
        PROVE  /\ Conservation' /\ AtOnePlace' /\ DrainedInFlush' /\ Log!LogNext
    <2>1. rows \cap (InMemory \cup OnDisk \cup lost) = {}
      BY <1>2 DEF Push, Conservation
    <2>2. Log!Accept(rows)
      BY <1>2, <2>1, PushStep DEF Log!Accept, Push
    <2>3. DrainedInFlush'
      BY <1>2 DEF Push, DrainedInFlush
    <2>. QED  BY <1>2, <2>2, <2>3, PushStep DEF Log!LogNext
  <1>3. CASE IntervalElapses
    BY <1>1, <1>3 DEF IntervalElapses, DrainedInFlush
  <1>4. CASE Tick
    BY <1>1, <1>4 DEF Tick, DrainedInFlush
  <1>5. CASE Drain
    <2>1. DrainedInFlush' /\ UNCHANGED lost
      BY <1>5 DEF Drain, DrainedInFlush
    <2>. QED  BY <1>5, <2>1, DrainStep DEF Log!logVars
  <1>6. ASSUME NEW k \in Key, CreateFile(k)
        PROVE  Conservation' /\ AtOnePlace' /\ DrainedInFlush' /\ UNCHANGED Log!logVars
    BY <1>1, <1>6 DEF CreateFile, DrainedInFlush
  <1>7. CASE FinishFile
    <2>1. drained[current] \subseteq InMemory /\ drained[current] \subseteq Row
      BY RowsOfKey DEF InMemory, TypeOK
    <2>2. DrainedInFlush' /\ UNCHANGED lost
      BY <1>7 DEF FinishFile, DrainedInFlush
    <2>3. Log!Persist(drained[current])
      BY <1>7, <2>1, <2>2, FinishFileStep DEF Log!Persist
    <2>. QED  BY <1>7, <2>1, <2>2, <2>3, FinishFileStep DEF Log!LogNext
  <1>8. ASSUME NEW k \in Key, WriteRejected(k)
        PROVE  Conservation' /\ AtOnePlace' /\ DrainedInFlush' /\ UNCHANGED Log!logVars
    <2>1. Rebuffer(k) /\ UNCHANGED <<files, lost, acked>>
      BY <1>8 DEF WriteRejected
    <2>2. DrainedInFlush'
      BY <1>8 DEF WriteRejected, DrainedInFlush
    <2>. QED  BY <2>1, <2>2, RebufferStep DEF Log!logVars
  <1>9. CASE WriteFails
    <2>1. Rebuffer(current) /\ UNCHANGED <<files, lost, acked>> /\ current \in Key
      BY <1>9 DEF WriteFails, TypeOK
    <2>2. DrainedInFlush'
      BY <1>9 DEF WriteFails, DrainedInFlush
    <2>. QED  BY <2>1, <2>2, RebufferStep DEF Log!logVars
  <1>10. CASE FinishFlush
    BY <1>1, <1>10 DEF FinishFlush, DrainedInFlush
  <1>11. ASSUME NEW f \in flushed, Register(f)
         PROVE  Conservation' /\ AtOnePlace' /\ DrainedInFlush' /\ UNCHANGED Log!logVars
    <2>1. Quiet /\ UNCHANGED pc
      BY <1>11 DEF Register
    <2>. QED  BY <1>1, <2>1 DEF DrainedInFlush
  <1>12. CASE FlushDone
    BY <1>1, <1>12 DEF FlushDone, DrainedInFlush
  <1>13. CASE Crash
    <2>1. DrainedInFlush'
      BY <1>13 DEF Crash, DrainedInFlush, NoRows
    <2>2. Log!Lose
      BY <1>13, CrashStep DEF Log!Lose
    <2>. QED  BY <1>13, <2>1, <2>2, CrashStep DEF Log!LogNext
  <1>14. CASE UNCHANGED vars
    BY <1>1, <1>14 DEF vars, DrainedInFlush, NoRows
  <1>. HIDE DEF IInv
  <1>. QED
    BY <1>2, <1>3, <1>4, <1>5, <1>6, <1>7, <1>8, <1>9, <1>10, <1>11, <1>12, <1>13, <1>14
    DEF Next, Compactor, Write

\* The invariant holds in every reachable state.
LEMMA Invariant == Spec => []IInv
  <1>1. IInv /\ [Next]_vars => IInv'
    BY NextType, Step DEF IInv
  <1>. QED  BY InitInv, <1>1, PTL DEF Spec

\* No acknowledged row disappears except in a crash of the process, and none is
\* ever in two files, or in a file and still to be written, whatever writes fail
\* and whatever arrives while a flush is under way.
THEOREM RowsKept == Spec => []RowsAccounted
  <1>1. IInv => RowsAccounted
    BY DEF IInv, RowsAccounted
  <1>. QED  BY <1>1, Invariant, PTL

\* The buffer implements the durable log: each acknowledged row is persisted
\* at most once and lost only with the process.
THEOREM Refinement == Spec => ImplementsLog
  <1>1. Init => Log!LogInit
    BY RowsOfNone DEF Init, Log!LogInit, InMemory, OnDisk, RowsOf
  <1>2. IInv /\ [Next]_vars => [Log!LogNext]_(Log!logVars)
    BY Step
  <1>. QED  BY <1>1, <1>2, Invariant, PTL DEF Spec, ImplementsLog, Log!LogSpec

\* A registered directory is under its key's own name; a file of this process
\* is registered, is waiting to be, or lies in a directory no query can read.
SessionOwn == \A n \in DOMAIN session : n = RegisteredName(session[n])
FilesFollowed == \A f \in files \ bootFiles :
    \/ Spoiled(f.key)
    \/ RegisteredName(f.key) \in DOMAIN session
    \/ \E g \in flushed : g.key = f.key
FlushedFollowed == pc \in {"idle", "woken"} => flushed = {}
VisibleInv == SessionOwn /\ FilesFollowed /\ FlushedFollowed

\* Files are only added, so a spoiled directory stays spoiled.
LEMMA SpoiledStays ==
  ASSUME files \subseteq files', broken \subseteq broken', NEW k, Spoiled(k)
  PROVE  Spoiled(k)'
  <1>1. CASE k \in broken
    BY <1>1 DEF Spoiled
  <1>2. CASE ~OneSchema(k)
    <2>1. PICK f \in files, g \in files : f.key = k /\ g.key = k /\ ~Decodable(f.rows \cup g.rows)
      BY <1>2 DEF OneSchema
    <2>2. ~OneSchema(k)'
      BY <2>1 DEF OneSchema, Decodable
    <2>. QED  BY <2>2 DEF Spoiled
  <1>. QED  BY <1>1, <1>2 DEF Spoiled

\* Tables whose names differ are registered under different names.
LEMMA NamesDiffer ==
  ASSUME NamesApart, NEW k \in Key, NEW l \in Key, RegisteredName(k) = RegisteredName(l)
  PROVE  k = l
  <1>1. k = [tenant |-> k.tenant, table |-> k.table] /\ l = [tenant |-> l.tenant, table |-> l.table]
        /\ k.table \in Table /\ l.table \in Table
    BY DEF Key
  <1>2. CASE k.tenant = DefaultTenant /\ l.tenant = DefaultTenant
    BY <1>1, <1>2 DEF RegisteredName
  <1>3. CASE k.tenant = DefaultTenant /\ l.tenant # DefaultTenant
    BY <1>1, <1>3 DEF RegisteredName, NamesApart
  <1>4. CASE k.tenant # DefaultTenant /\ l.tenant = DefaultTenant
    BY <1>1, <1>4 DEF RegisteredName, NamesApart
  <1>5. CASE k.tenant # DefaultTenant /\ l.tenant # DefaultTenant
    BY <1>5 DEF RegisteredName, NamesApart
  <1>. QED  BY <1>2, <1>3, <1>4, <1>5

\* The invariant is strong enough.
LEMMA VisibleHolds ==
  ASSUME NamesApart, TypeOK, VisibleInv
  PROVE  FlushedIsVisible
  <1>. SUFFICES ASSUME pc \in {"idle", "woken"}, NEW f \in files \ bootFiles, ~Spoiled(f.key)
                PROVE  f.rows \subseteq Visible(f.key)
    BY DEF FlushedIsVisible
  <1>1. f.key \in Key
    BY DEF TypeOK, File
  <1>2. RegisteredName(f.key) \in DOMAIN session
    BY DEF VisibleInv, FilesFollowed, FlushedFollowed
  <1>3. session[RegisteredName(f.key)] \in Key
    BY <1>2 DEF TypeOK
  <1>4. session[RegisteredName(f.key)] = f.key
    BY <1>1, <1>2, <1>3, NamesDiffer DEF VisibleInv, SessionOwn
  <1>5. DirReadable(f.key)
    BY DEF DirReadable, Spoiled
  <1>6. Visible(f.key) = RowsOf({g \in files : g.key = f.key})
    BY <1>2, <1>4, <1>5 DEF Visible
  <1>. QED  BY <1>6 DEF RowsOf

\* Registering a directory leaves nothing to be registered but the others.
LEMMA RegisterFollows ==
  ASSUME TypeOK, VisibleInv, NEW f \in flushed, Register(f)
  PROVE  VisibleInv'
  <1>. DEFINE n == RegisteredName(f.key)
  <1>1. /\ pc = "registering" /\ pc' = pc /\ flushed' = flushed \ {f}
        /\ session' = IF n \in DOMAIN session \/ ~DirReadable(f.key) THEN session
                      ELSE [m \in DOMAIN session \cup {n} |-> IF m = n THEN f.key ELSE session[m]]
        /\ UNCHANGED <<files, broken, bootFiles>>
    BY DEF Register, diskVars, flushVars, histVars
  <1>. HIDE DEF n
  <1>2. CASE n \in DOMAIN session \/ ~DirReadable(f.key)
    <2>1. session' = session
      BY <1>1, <1>2
    <2>2. n \in DOMAIN session \/ Spoiled(f.key)
      BY <1>1, <1>2 DEF DirReadable, Spoiled
    <2>3. ASSUME NEW g \in files \ bootFiles
          PROVE  \/ Spoiled(g.key)
                 \/ RegisteredName(g.key) \in DOMAIN session
                 \/ \E h \in flushed \ {f} : h.key = g.key
      BY <2>2 DEF VisibleInv, FilesFollowed, n
    <2>4. \A k : Spoiled(k) => Spoiled(k)'
      BY <1>1, SpoiledStays
    <2>5. FilesFollowed'
      BY <1>1, <2>1, <2>3, <2>4 DEF FilesFollowed
    <2>. QED  BY <1>1, <2>1, <2>5 DEF VisibleInv, SessionOwn, FlushedFollowed
  <1>3. CASE ~(n \in DOMAIN session \/ ~DirReadable(f.key))
    <2>1. DOMAIN session' = DOMAIN session \cup {n} /\ session'[n] = f.key
          /\ \A m \in DOMAIN session : session'[m] = session[m]
      BY <1>1, <1>3
    <2>2. SessionOwn'
      BY <2>1 DEF VisibleInv, SessionOwn, n
    <2>3. \A k : Spoiled(k) => Spoiled(k)'
      BY <1>1, SpoiledStays
    <2>4. FilesFollowed'
      BY <1>1, <2>1, <2>3 DEF VisibleInv, FilesFollowed, n
    <2>. QED  BY <1>1, <2>2, <2>4 DEF VisibleInv, FlushedFollowed
  <1>. QED  BY <1>2, <1>3

\* Every step keeps a file of this process followed until it is registered.
LEMMA VisibleStep ==
  ASSUME TypeOK, VisibleInv, [Next]_vars
  PROVE  VisibleInv'
  <1>. USE DEF VisibleInv, bufferVars, flushVars, diskVars, faultVars, histVars
  <1>0. ASSUME files \subseteq files', broken \subseteq broken'
        PROVE  \A k : Spoiled(k) => Spoiled(k)'
    BY <1>0, SpoiledStays
  <1>1. ASSUME UNCHANGED <<pc, flushed, session, files, bootFiles>>, broken \subseteq broken'
        PROVE  VisibleInv'
    BY <1>0, <1>1 DEF SessionOwn, FilesFollowed, FlushedFollowed
  <1>2. ASSUME UNCHANGED <<flushed, session, files, bootFiles>>, broken \subseteq broken',
               flushed = {} \/ pc' \notin {"idle", "woken"}
        PROVE  VisibleInv'
    BY <1>0, <1>2 DEF SessionOwn, FilesFollowed, FlushedFollowed
  <1>3. ASSUME NEW k \in Key, NEW rows \in SUBSET Row, Push(k, rows) PROVE VisibleInv'
    BY <1>1, <1>3 DEF Push
  <1>4. CASE IntervalElapses \/ UNCHANGED vars
    BY <1>1, <1>4 DEF IntervalElapses, vars
  <1>5. CASE Tick
    BY <1>2, <1>5 DEF Tick, FlushedFollowed
  <1>6. CASE Drain
    BY <1>0, <1>6 DEF Drain, SessionOwn, FilesFollowed, FlushedFollowed
  <1>7. ASSUME NEW k \in Key, WriteRejected(k) PROVE VisibleInv'
    BY <1>1, <1>7 DEF WriteRejected
  <1>8. ASSUME NEW k \in Key, CreateFile(k) PROVE VisibleInv'
    BY <1>2, <1>8 DEF CreateFile
  <1>9. CASE FinishFile
    <2>. DEFINE file == [key |-> current, rows |-> drained[current]]
    <2>1. files' = files \cup {file} /\ flushed' = flushed \cup {file} /\ pc' = "flushing"
          /\ UNCHANGED <<session, broken, bootFiles>>
      BY <1>9 DEF FinishFile
    <2>2. \A k : Spoiled(k) => Spoiled(k)'
      BY <1>0, <2>1
    <2>. QED  BY <2>1, <2>2 DEF SessionOwn, FilesFollowed, FlushedFollowed
  <1>10. CASE WriteFails
    BY <1>2, <1>10 DEF WriteFails
  <1>11. CASE FinishFlush
    BY <1>2, <1>11 DEF FinishFlush
  <1>12. ASSUME NEW f \in flushed, Register(f) PROVE VisibleInv'
    BY <1>12, RegisterFollows
  <1>13. CASE FlushDone
    BY <1>2, <1>13 DEF FlushDone
  <1>14. CASE Crash
    BY <1>14 DEF Crash, SessionOwn, FilesFollowed, FlushedFollowed
  <1>. QED
    BY <1>3, <1>4, <1>5, <1>6, <1>7, <1>8, <1>9, <1>10, <1>11, <1>12, <1>13, <1>14
    DEF Next, Compactor, Write

\* For any tenants and tables whose names do not collide: when no flush is
\* under way, every file of this process is visible to queries under its
\* tenant's own name, unless an unfinished file lies beside it or the files of
\* its directory have no common schema (ingest_buffer.rs:7, engine.rs:503).
THEOREM FlushesSeen == NamesApart => (Spec => []FlushedIsVisible)
  <1>. SUFFICES ASSUME NamesApart PROVE Spec => []FlushedIsVisible
    OBVIOUS
  <1>1. Init => VisibleInv
    BY DEF Init, VisibleInv, SessionOwn, FilesFollowed, FlushedFollowed
  <1>2. TypeOK /\ VisibleInv /\ [Next]_vars => VisibleInv'
    BY VisibleStep
  <1>3. TypeOK /\ VisibleInv => FlushedIsVisible
    BY VisibleHolds
  <1>. QED  BY <1>1, <1>2, <1>3, TypeCorrect, PTL DEF Spec

-------------------------------------------------------------------------------
\* The Kafka consumer: every message of the topic is accounted for once.

USE KafkaAssumption

Dropped == [batch : SUBSET DOMAIN Topic, failed : BOOLEAN]

KafkaTypeOK ==
    /\ position \in 0 .. Len(Topic) /\ committed \in 0 .. position
    /\ buf \subseteq 1 .. position /\ due \in BOOLEAN
    /\ stored \in [DOMAIN Topic -> Nat] /\ discarded \subseteq Dropped
    /\ {kafkaFaults, kafkaCrashes} \subseteq Nat

GivenUp(m, D) == {d \in D : m \in d.batch}

(* Where a message is: still in the buffer b, in one file, or given up     *)
(* once; one that was not delivered is nowhere.                            *)
Placed(m, b, s, D) ==
    IF m \in b THEN s[m] = 0 /\ GivenUp(m, D) = {}
    ELSE \/ s[m] = 1 /\ GivenUp(m, D) = {}
         \/ s[m] = 0 /\ \E d \in D : GivenUp(m, D) = {d}

AllPlaced(n, b, s, D) ==
    /\ \A m \in Records : m <= n => Placed(m, b, s, D)
    /\ \A m \in DOMAIN Topic : m > n => s[m] = 0 /\ GivenUp(m, D) = {}

Excused(D) == \A d \in D : d.batch \cap Records # {} =>
    d.failed \/ \E n \in d.batch \cap Records : Topic[n] # FirstShape

(* After n messages: the schema is that of the first one that has one.     *)
Inferred(n, x) == IF x = "none" THEN \A m \in 1 .. n : m \notin Shaped ELSE x = FirstShape

KafkaInv == /\ KafkaTypeOK
            /\ kafkaCrashes = 0 => /\ AllPlaced(position, buf, stored, discarded)
                                   /\ Excused(discarded) /\ Inferred(position, schema)

\* The offsets of the topic, and that no message is the mark for no schema.
LEMMA TopicTyped == /\ Len(Topic) \in Nat /\ DOMAIN Topic = 1 .. Len(Topic)
                    /\ \A m \in DOMAIN Topic : Topic[m] # "none"
<1>1. Topic \in Seq(STRING \ {"none"})
  OBVIOUS
<1>2. Len(Topic) \in Nat /\ DOMAIN Topic = 1 .. Len(Topic)
  BY <1>1, LenProperties
<1>3. \A m \in 1 .. Len(Topic) : Topic[m] \in STRING \ {"none"}
  BY <1>1, ElementOfSeq
<1> QED
  BY <1>2, <1>3

(* A set of positions that is not empty has a first one.                   *)
LEMMA FirstOf == ASSUME NEW S, S \subseteq Nat, S # {} PROVE \E m \in S : \A n \in S : m <= n
<1>1. PICK m \in S : \A n \in S : <<n, m>> \notin OpToRel(<, Nat)
  BY NatLessThanWellFounded, WFMin
<1>2. \A n \in S : ~(n < m)
  BY <1>1, Zenon DEF OpToRel
<1>3. \A n \in S : m <= n
  BY <1>2
<1> QED
  BY <1>3

(* The first shape is not junk, and it is that of the message which has    *)
(* none with a shape before it.                                            *)
LEMMA FirstShapeIs ==
    /\ FirstShape # "junk"
    /\ \A n \in Shaped : (\A m \in 1 .. n - 1 : m \notin Shaped) => FirstShape = Topic[n]
<1>1. Shaped \subseteq Nat /\ Shaped \subseteq DOMAIN Topic
  BY TopicTyped DEF Shaped, Records
<1>2. CASE Shaped = {}
  BY <1>2 DEF FirstShape
<1>3. CASE Shaped # {}
  <2>1. \E m \in Shaped : \A n \in Shaped : m <= n
    BY <1>1, <1>3, FirstOf
  <2>2. PICK f \in Shaped : f = (CHOOSE m \in Shaped : \A n \in Shaped : m <= n)
                            /\ \A n \in Shaped : f <= n
    BY <2>1
  <2>3. FirstShape = Topic[f]
    BY <1>3, <2>2 DEF FirstShape
  <2>4. Topic[f] # "junk" /\ f \in DOMAIN Topic
    BY <1>1 DEF Shaped
  <2>5. ASSUME NEW n \in Shaped, \A m \in 1 .. n - 1 : m \notin Shaped
        PROVE  f = n
    <3>1. f <= n /\ n \in Nat /\ f \in Nat /\ f >= 1
      BY <2>2, <2>4, <1>1, TopicTyped
    <3>2. ~(f < n)
      <4>1. f < n => f \in 1 .. n - 1
        BY <3>1
      <4> QED
        BY <2>2, <2>5, <4>1
    <3> QED
      BY <3>1, <3>2
  <2> QED
    BY <2>3, <2>4, <2>5
<1> QED
  BY <1>2, <1>3

\* The invariant is strong enough.
LEMMA KafkaInvHolds == ASSUME KafkaInv PROVE ConsumedOnce
<1> SUFFICES ASSUME kafkaCrashes = 0, NEW m \in Records, m <= position
             PROVE  LET givenUp == {d \in discarded : m \in d.batch}
                    IN  /\ stored[m] + Cardinality(givenUp) = IF m \in buf THEN 0 ELSE 1
                        /\ \A d \in givenUp :
                               d.failed \/ \E n \in d.batch \cap Records : Topic[n] # FirstShape
  BY DEF ConsumedOnce
<1>1. Placed(m, buf, stored, discarded) /\ Excused(discarded)
  BY DEF KafkaInv, AllPlaced
<1>2. Cardinality({}) = 0 /\ \A d : Cardinality({d}) = 1
  BY FS_EmptySet, FS_Singleton
<1>3. stored[m] + Cardinality(GivenUp(m, discarded)) = IF m \in buf THEN 0 ELSE 1
  <2>1. CASE m \in buf
    <3>1. stored[m] = 0 /\ Cardinality(GivenUp(m, discarded)) = 0
      BY <1>1, <1>2, <2>1 DEF Placed
    <3> QED
      BY <2>1, <3>1
  <2>2. CASE m \notin buf
    <3>1. \/ stored[m] = 1 /\ Cardinality(GivenUp(m, discarded)) = 0
          \/ stored[m] = 0 /\ Cardinality(GivenUp(m, discarded)) = 1
      BY <1>1, <1>2, <2>2 DEF Placed
    <3> QED
      BY <2>2, <3>1
  <2> QED
    BY <2>1, <2>2
<1> QED
  BY <1>1, <1>3 DEF GivenUp, Excused

\* A process that has been delivered nothing has nothing to account for.
LEMMA KafkaInitInv == KafkaInit => KafkaInv
<1> SUFFICES ASSUME KafkaInit PROVE KafkaInv
  OBVIOUS
<1>1. KafkaTypeOK
  <2>1. PICK k \in Nat : k = Len(Topic)
    BY TopicTyped
  <2>2. 0 \in 0 .. k /\ 0 \in 0 .. 0 /\ 0 \in Nat
    OBVIOUS
  <2>3. stored \in [DOMAIN Topic -> Nat]
    BY <2>2 DEF KafkaInit
  <2>4. {kafkaFaults, kafkaCrashes} \subseteq Nat
    BY <2>2 DEF KafkaInit
  <2> QED
    BY <2>1, <2>2, <2>3, <2>4 DEF KafkaInit, KafkaTypeOK
<1>2. AllPlaced(position, buf, stored, discarded) /\ Excused(discarded) /\ Inferred(position, schema)
  <2>1. Records \subseteq Nat \ {0}
    BY TopicTyped DEF Records
  <2>2. \A m \in Records : ~(m <= 0)
    BY <2>1
  <2>3. AllPlaced(position, buf, stored, discarded)
    BY <2>2 DEF KafkaInit, AllPlaced, GivenUp
  <2> QED
    BY <2>3 DEF KafkaInit, Excused, Inferred
<1> QED
  BY <1>1, <1>2 DEF KafkaInv

(* A batch of n messages becomes a file or is given up, whichever it is.   *)
LEMMA FlushKeeps ==
    ASSUME NEW n \in Nat, n <= Len(Topic), NEW batch \in SUBSET (1 .. n), NEW x,
           stored \in [DOMAIN Topic -> Nat], discarded \subseteq Dropped, kafkaFaults \in Nat,
           Flush(batch, x)
    PROVE  /\ stored' \in [DOMAIN Topic -> Nat] /\ discarded' \subseteq Dropped /\ kafkaFaults' \in Nat
           /\ AllPlaced(n, batch, stored, discarded) => AllPlaced(n, {}, stored', discarded')
           /\ Inferred(n, x) /\ Excused(discarded) => Excused(discarded')
<1> DEFINE held == batch \cap Records
<1>1. batch \subseteq DOMAIN Topic /\ 1 .. n \subseteq DOMAIN Topic /\ Records \subseteq DOMAIN Topic
  BY TopicTyped DEF Records
<1>2. \/ /\ stored' = [m \in DOMAIN Topic |-> stored[m] + (IF m \in held THEN 1 ELSE 0)]
         /\ UNCHANGED <<discarded, kafkaFaults>>
      \/ \E failed \in BOOLEAN :
           /\ failed \/ x = "none" \/ \E m \in held : Topic[m] # x
           /\ discarded' = discarded \cup {[batch |-> batch, failed |-> failed]}
           /\ UNCHANGED stored /\ kafkaFaults' \in Nat
  <2>1. \/ /\ stored' = [m \in DOMAIN Topic |-> stored[m] + (IF m \in held THEN 1 ELSE 0)]
           /\ UNCHANGED <<discarded, kafkaFaults>>
        \/ /\ ~(x # "none" /\ \A m \in held : Topic[m] = x)
           /\ discarded' = discarded \cup {[batch |-> batch, failed |-> FALSE]}
           /\ UNCHANGED <<stored, kafkaFaults>>
        \/ /\ discarded' = discarded \cup {[batch |-> batch, failed |-> TRUE]}
           /\ kafkaFaults' = kafkaFaults + 1 /\ UNCHANGED stored
    BY DEF Flush
  <2>2. kafkaFaults + 1 \in Nat
    OBVIOUS
  <2> QED
    BY <2>1, <2>2
<1>3. CASE /\ stored' = [m \in DOMAIN Topic |-> stored[m] + (IF m \in held THEN 1 ELSE 0)]
           /\ UNCHANGED <<discarded, kafkaFaults>>
  <2>1. \A m \in DOMAIN Topic : stored'[m] = IF m \in held THEN stored[m] + 1 ELSE stored[m]
    BY <1>3
  <2>2. stored' \in [DOMAIN Topic -> Nat]
    BY <1>3
  <2>3. ASSUME AllPlaced(n, batch, stored, discarded) PROVE AllPlaced(n, {}, stored', discarded')
    <3>1. ASSUME NEW m \in Records, m <= n PROVE Placed(m, {}, stored', discarded')
      <4>1. Placed(m, batch, stored, discarded)
        BY <2>3, <3>1 DEF AllPlaced
      <4> QED
        BY <1>1, <1>3, <2>1, <3>1, <4>1 DEF Placed
    <3>2. \A m \in DOMAIN Topic : m > n => m \notin batch
      OBVIOUS
    <3> QED
      BY <1>3, <2>1, <2>3, <3>1, <3>2 DEF AllPlaced
  <2> QED
    BY <1>3, <2>2, <2>3
<1>4. ASSUME NEW failed \in BOOLEAN, failed \/ x = "none" \/ \E m \in held : Topic[m] # x,
             discarded' = discarded \cup {[batch |-> batch, failed |-> failed]},
             UNCHANGED stored, kafkaFaults' \in Nat
      PROVE  /\ stored' \in [DOMAIN Topic -> Nat] /\ discarded' \subseteq Dropped /\ kafkaFaults' \in Nat
             /\ AllPlaced(n, batch, stored, discarded) => AllPlaced(n, {}, stored', discarded')
             /\ Inferred(n, x) /\ Excused(discarded) => Excused(discarded')
  <2>1. PICK d \in Dropped : d = [batch |-> batch, failed |-> failed] /\ d.batch = batch
                             /\ d.failed = failed
    <3>1. [batch |-> batch, failed |-> failed] \in Dropped
      BY <1>1 DEF Dropped
    <3> QED
      BY <3>1
  <2>2. \A m : GivenUp(m, discarded') = GivenUp(m, discarded) \cup (IF m \in batch THEN {d} ELSE {})
    BY <1>4, <2>1 DEF GivenUp
  <2>3. ASSUME AllPlaced(n, batch, stored, discarded) PROVE AllPlaced(n, {}, stored', discarded')
    <3>1. ASSUME NEW m \in Records, m <= n PROVE Placed(m, {}, stored', discarded')
      <4>1. Placed(m, batch, stored, discarded)
        BY <2>3, <3>1 DEF AllPlaced
      <4>2. CASE m \in batch
        <5>1. stored'[m] = 0 /\ GivenUp(m, discarded') = {d} /\ d \in discarded'
          BY <1>4, <2>1, <2>2, <4>1, <4>2 DEF Placed
        <5> QED
          BY <5>1 DEF Placed
      <4>3. CASE m \notin batch
        <5>1. GivenUp(m, discarded') = GivenUp(m, discarded) /\ discarded \subseteq discarded'
          BY <1>4, <2>2, <4>3
        <5> QED
          BY <1>4, <4>1, <4>3, <5>1 DEF Placed
      <4> QED
        BY <4>2, <4>3
    <3>2. \A m \in DOMAIN Topic : m > n => m \notin batch
      OBVIOUS
    <3> QED
      BY <1>4, <2>2, <2>3, <3>1, <3>2 DEF AllPlaced
  <2>4. ASSUME Inferred(n, x), Excused(discarded) PROVE Excused(discarded')
    <3>1. held # {} => failed \/ \E m \in held : Topic[m] # FirstShape
      <4>1. CASE x = "none"
        <5>1. ASSUME NEW b \in held PROVE Topic[b] # FirstShape
          <6>1. b \notin Shaped
            BY <2>4, <4>1 DEF Inferred
          <6>2. Topic[b] = "junk"
            BY <6>1 DEF Shaped
          <6> QED
            BY <6>2, FirstShapeIs
        <5> QED
          BY <5>1
      <4>2. CASE x # "none"
        BY <1>4, <2>4, <4>2 DEF Inferred
      <4> QED
        BY <4>1, <4>2
    <3> QED
      BY <1>4, <2>1, <2>4, <3>1 DEF Excused
  <2> QED
    BY <1>4, <2>1, <2>3, <2>4
<1> QED
  BY <1>2, <1>3, <1>4

\* What buffering a batch, or flushing it when it is full or due, does.
LEMMA SettleKeeps ==
    ASSUME NEW n \in Nat, n <= Len(Topic), NEW batch \in SUBSET (1 .. n), NEW x,
           stored \in [DOMAIN Topic -> Nat], discarded \subseteq Dropped, kafkaFaults \in Nat,
           due \in BOOLEAN, Settle(batch, x)
    PROVE  /\ stored' \in [DOMAIN Topic -> Nat] /\ discarded' \subseteq Dropped /\ kafkaFaults' \in Nat
           /\ due' \in BOOLEAN /\ buf' \subseteq 1 .. n
           /\ AllPlaced(n, batch, stored, discarded) => AllPlaced(n, buf', stored', discarded')
           /\ Inferred(n, x) /\ Excused(discarded) => Excused(discarded')
<1>1. \/ Flush(batch, x) /\ buf' = {} /\ due' = FALSE
      \/ buf' = batch /\ UNCHANGED <<due, stored, discarded, kafkaFaults>>
  BY DEF Settle
<1>2. CASE Flush(batch, x) /\ buf' = {} /\ due' = FALSE
  BY <1>2, FlushKeeps
<1>3. CASE buf' = batch /\ UNCHANGED <<due, stored, discarded, kafkaFaults>>
  BY <1>3
<1> QED
  BY <1>1, <1>2, <1>3

\* A message delivered: the schema is inferred and the batch settled.
LEMMA ConsumeStep == ASSUME KafkaInv, Consume PROVE KafkaInv'
<1>1. KafkaTypeOK
  BY DEF KafkaInv
<1>2. PICK n \in DOMAIN Topic : n = position + 1 /\ position' = n /\ n \in Nat /\ n <= Len(Topic)
                                /\ position = n - 1
  BY <1>1, TopicTyped DEF KafkaTypeOK, Consume
<1> DEFINE now == IF Topic[n] = "tombstone" THEN buf ELSE buf \cup {n}
<1>3. PICK x : /\ x = Infers(n) /\ schema' = x /\ Settle(now, x)
               /\ UNCHANGED <<committed, kafkaCrashes>>
  BY <1>2 DEF Consume
<1>4. PICK batch \in SUBSET (1 .. n) : batch = now
  <2>1. PICK p \in Nat : p = position /\ n = p + 1 /\ buf \subseteq 1 .. p
    <3>1. PICK k \in Nat : k = Len(Topic)
      BY TopicTyped
    <3>2. PICK p \in 0 .. k : p = position
      BY <1>1, <3>1 DEF KafkaTypeOK
    <3> QED
      BY <1>1, <1>2, <3>2 DEF KafkaTypeOK
  <2>2. 1 .. p \subseteq 1 .. n /\ n \in 1 .. n
    <3>1. 1 .. p \subseteq 1 .. p + 1 /\ p + 1 \in 1 .. p + 1
      OBVIOUS
    <3> QED
      BY <2>1, <3>1
  <2>3. now \subseteq 1 .. n
    BY <2>1, <2>2
  <2> QED
    BY <2>3, Zenon
<1>5. /\ stored' \in [DOMAIN Topic -> Nat] /\ discarded' \subseteq Dropped /\ kafkaFaults' \in Nat
      /\ due' \in BOOLEAN /\ buf' \subseteq 1 .. n
      /\ AllPlaced(n, batch, stored, discarded) => AllPlaced(n, buf', stored', discarded')
      /\ Inferred(n, x) /\ Excused(discarded) => Excused(discarded')
  BY <1>1, <1>2, <1>3, <1>4, SettleKeeps DEF KafkaTypeOK
<1>6. KafkaTypeOK'
  BY <1>1, <1>2, <1>3, <1>5 DEF KafkaTypeOK
<1>7. ASSUME kafkaCrashes = 0
      PROVE  /\ AllPlaced(n, batch, stored, discarded) /\ Excused(discarded) /\ Inferred(n, x)
  <2>1. /\ AllPlaced(position, buf, stored, discarded) /\ Excused(discarded)
        /\ Inferred(position, schema)
    BY <1>7 DEF KafkaInv
  <2>2. AllPlaced(n, batch, stored, discarded)
    <3>1. \A m \in Records : m <= n => m = n \/ (m <= position /\ m # n)
      BY <1>2, TopicTyped DEF Records
    <3>2. n > position /\ \A m \in DOMAIN Topic : m > n => m > position
      BY <1>2, TopicTyped
    <3>3. ASSUME NEW m \in Records, m <= n PROVE Placed(m, batch, stored, discarded)
      <4>1. CASE m = n
        <5>1. Topic[n] # "tombstone"
          BY <4>1 DEF Records
        <5> QED
          BY <1>4, <2>1, <3>2, <4>1, <5>1 DEF AllPlaced, Placed
      <4>2. CASE m <= position /\ m # n
        BY <1>4, <2>1, <4>2 DEF AllPlaced, Placed
      <4> QED
        BY <3>1, <3>3, <4>1, <4>2
    <3> QED
      BY <2>1, <3>2, <3>3 DEF AllPlaced
  <2>3. Inferred(n, x)
    <3>1. \A m \in 1 .. n : m = n \/ m \in 1 .. position
      BY <1>2
    <3>2. CASE schema # "none"
      BY <1>3, <2>1, <3>2 DEF Infers, Inferred
    <3>3. CASE schema = "none" /\ n \notin Shaped
      BY <1>3, <2>1, <3>1, <3>3 DEF Infers, Inferred
    <3>4. CASE schema = "none" /\ n \in Shaped
      <4>1. x = Topic[n] /\ x # "none"
        BY <1>2, <1>3, <3>4, TopicTyped DEF Infers
      <4>2. \A m \in 1 .. n - 1 : m \notin Shaped
        BY <1>2, <2>1, <3>4 DEF Inferred
      <4> QED
        BY <3>4, <4>1, <4>2, FirstShapeIs DEF Inferred
    <3> QED
      BY <3>2, <3>3, <3>4
  <2> QED
    BY <2>1, <2>2, <2>3
<1> QED
  BY <1>2, <1>3, <1>5, <1>6, <1>7 DEF KafkaInv

\* Every step preserves the invariant; after a crash nothing is claimed.
LEMMA KafkaStep == KafkaInv /\ [KafkaNext]_kafkaVars => KafkaInv'
<1> SUFFICES ASSUME KafkaInv, [KafkaNext]_kafkaVars PROVE KafkaInv'
  OBVIOUS
<1>1. KafkaTypeOK
  BY DEF KafkaInv
<1>2. CASE TimesOut
  <2>1. /\ position \in Nat /\ position <= Len(Topic) /\ buf \in SUBSET (1 .. position)
        /\ Settle(buf, schema) /\ UNCHANGED <<position, committed, schema, kafkaCrashes>>
    BY <1>1, <1>2, TopicTyped DEF TimesOut, KafkaTypeOK
  <2>2. /\ stored' \in [DOMAIN Topic -> Nat] /\ discarded' \subseteq Dropped /\ kafkaFaults' \in Nat
        /\ due' \in BOOLEAN /\ buf' \subseteq 1 .. position
        /\ AllPlaced(position, buf, stored, discarded)
             => AllPlaced(position, buf', stored', discarded')
        /\ Inferred(position, schema) /\ Excused(discarded) => Excused(discarded')
    BY <1>1, <2>1, SettleKeeps DEF KafkaTypeOK
  <2>3. KafkaTypeOK'
    BY <1>1, <2>1, <2>2 DEF KafkaTypeOK
  <2> QED
    BY <2>1, <2>2, <2>3 DEF KafkaInv
<1>3. CASE IntervalEnds \/ AutoCommit \/ UNCHANGED kafkaVars
  <2>1. KafkaTypeOK' /\ UNCHANGED <<position, buf, schema, stored, discarded, kafkaCrashes>>
    <3>1. /\ UNCHANGED <<position, buf, schema, stored, discarded, kafkaCrashes, kafkaFaults>>
          /\ committed' \in {committed, position} /\ due' \in {due, TRUE}
      BY <1>3 DEF IntervalEnds, AutoCommit, kafkaVars
    <3>2. position \in 0 .. position
      BY <1>1, TopicTyped DEF KafkaTypeOK
    <3> QED
      BY <1>1, <3>1, <3>2 DEF KafkaTypeOK
  <2> QED
    BY <2>1 DEF KafkaInv
<1>4. CASE KafkaCrash
  <2>1. KafkaTypeOK' /\ kafkaCrashes' # 0
    <3>1. PICK k \in Nat, p \in Nat, c \in Nat :
             k = Len(Topic) /\ p = position /\ c = committed /\ p <= k /\ c <= p
      <4>1. PICK k \in Nat : k = Len(Topic)
        BY TopicTyped
      <4>2. PICK p \in 0 .. k : p = position
        BY <1>1, <4>1 DEF KafkaTypeOK
      <4>3. PICK c \in 0 .. p : c = committed
        BY <1>1, <4>2 DEF KafkaTypeOK
      <4> QED
        BY <4>1, <4>2, <4>3
    <3>2. c \in 0 .. k /\ c \in 0 .. c
      BY <3>1
    <3>3. kafkaCrashes + 1 \in Nat /\ kafkaCrashes + 1 # 0
      BY <1>1 DEF KafkaTypeOK
    <3>4. /\ position' = c /\ committed' = c /\ buf' = {} /\ due' = FALSE
          /\ UNCHANGED <<stored, discarded, kafkaFaults>> /\ kafkaCrashes' = kafkaCrashes + 1
      BY <1>4, <3>1 DEF KafkaCrash
    <3> QED
      BY <1>1, <3>1, <3>2, <3>3, <3>4 DEF KafkaTypeOK
  <2> QED
    BY <2>1 DEF KafkaInv
<1> QED
  BY <1>2, <1>3, <1>4, ConsumeStep DEF KafkaNext

(* While the consumer lives, whatever messages, batch sizes, intervals and *)
(* failed files: a delivered message is buffered, in one file or given up  *)
(* once, and a batch is given up only for a file that failed or a message  *)
(* that does not fit the first shape (KafkaIngester::run, flush_batch).    *)
THEOREM MessagesAccounted == KafkaSpec => []ConsumedOnce
BY KafkaInitInv, KafkaStep, KafkaInvHolds, PTL DEF KafkaSpec

-------------------------------------------------------------------------------
\* The watchers of pipes: a file that was finished under one is not forgotten.

Dest == {<<>>} \cup {<<n, k>> : n \in {FileName[f] : f \in PipeFiles}, k \in Nat}
Watcher == [pipe : Pipes, on : {"spawned", "watching", "aborted"},
            inbox : Seq(PipeFiles), dest : Dest]
Statement == {NoCommand} \cup [op : {"start", "forget"}, pipe : Pipes]
                         \cup [op : {"keep"}, pipe : Pipes, task : Nat]

\* A task copies the first of its events.
PipesType ==
    /\ task \in Seq(Watcher)
    /\ command \in [Commands -> Statement]
    /\ source \in [PipeFiles -> {Unwritten, Partly, Whole}]
    /\ owed \in [PipeFiles -> SUBSET Nat]
    /\ IsFiniteSet(DOMAIN warehouse)
    /\ \A t \in Tasks : task[t].dest # <<>> => task[t].inbox # <<>>

PipesInv == PipesType /\ DebtsQueued

\* A file is among the events of a task.
Queued(t, f) == \E i \in DOMAIN task[t].inbox : task[t].inbox[i] = f

\* Nothing is owed at first.
LEMMA PipesStart == ASSUME PipesInit PROVE PipesInv
<1>1. task = <<>> /\ task \in Seq(Watcher) /\ Tasks = {}
  BY DEF PipesInit, Tasks
<1>2. DOMAIN warehouse = {} /\ IsFiniteSet({})
  BY FS_EmptySet DEF PipesInit
<1>3. command \in [Commands -> Statement]
  BY DEF PipesInit, Statement
<1> QED
  BY <1>1, <1>2, <1>3 DEF PipesInit, PipesInv, PipesType, DebtsQueued, Unwritten

\* A step that takes no event out of a queue and leaves the files alone keeps
\* what is owed in the queues.
LEMMA QueuesKept ==
    ASSUME DebtsQueued, UNCHANGED fileVars, Tasks \subseteq Tasks',
           \A t \in Tasks : task'[t].inbox = task[t].inbox
    PROVE  DebtsQueued'
  BY DEF DebtsQueued, fileVars

\* A step that touches neither the tasks nor the files keeps everything but the
\* statements.
LEMMA TasksKept ==
    ASSUME PipesInv, UNCHANGED <<task, fileVars>>, command' \in [Commands -> Statement]
    PROVE  PipesInv'
<1>1. DebtsQueued'
  BY QueuesKept DEF PipesInv, Tasks
<1> QED
  BY <1>1 DEF PipesInv, PipesType, fileVars, Tasks

\* One task changes, but for its queue.
LEMMA OneTask ==
    ASSUME PipesInv, UNCHANGED <<command, fileVars>>, NEW t \in Tasks, NEW w \in Watcher,
           task' = [task EXCEPT ![t] = w], w.inbox = task[t].inbox,
           w.dest # <<>> => w.inbox # <<>>
    PROVE  PipesInv'
<1>1. task \in Seq(Watcher) /\ task' \in Seq(Watcher) /\ Tasks' = Tasks
  BY DEF PipesInv, PipesType, Tasks
<1>2. \A u \in Tasks : task'[u] = IF u = t THEN w ELSE task[u]
  BY <1>1 DEF Tasks
<1>3. DebtsQueued'
  BY <1>1, <1>2, QueuesKept DEF PipesInv
<1>4. \A u \in Tasks' : task'[u].dest # <<>> => task'[u].inbox # <<>>
  BY <1>1, <1>2 DEF PipesInv, PipesType
<1> QED
  BY <1>1, <1>3, <1>4 DEF PipesInv, PipesType, fileVars

\* The statements.
LEMMA StatementStep ==
    ASSUME PipesInv, NEW c \in Commands,
           \/ \E p \in Pipes : DropPipe(c, p) \/ \E auto \in BOOLEAN : CreatePipe(c, p, auto)
           \/ SpawnWatcher(c) \/ KeepHandle(c) \/ ForgetPipe(c)
    PROVE  PipesInv'
<1> USE DEF Statement
<1>0. /\ task \in Seq(Watcher) /\ command \in [Commands -> Statement]
      /\ \A t \in Tasks : task[t].dest # <<>> => task[t].inbox # <<>>
  BY DEF PipesInv, PipesType
<1>1. ASSUME NEW p \in Pipes, DropPipe(c, p) PROVE PipesInv'
  <2>1. command' \in [Commands -> Statement] /\ UNCHANGED fileVars
    BY <1>0, <1>1 DEF DropPipe
  <2>2. \A t \in Tasks : [task[t] EXCEPT !.on = "aborted"] \in Watcher
    <3>1. \A t \in Tasks : task[t] \in Watcher
      BY <1>0 DEF Tasks
    <3>2. \A w \in Watcher : [w EXCEPT !.on = "aborted"] \in Watcher
      BY DEF Watcher
    <3> QED
      BY <3>1, <3>2
  <2>3. \A t \in Tasks : /\ [task[t] EXCEPT !.on = "aborted"].inbox = task[t].inbox
                         /\ [task[t] EXCEPT !.on = "aborted"].dest = task[t].dest
    BY <1>0 DEF Watcher, Tasks
  <2>4. /\ Tasks' = Tasks /\ Tasks = 1 .. Len(task)
        /\ \A t \in Tasks : /\ task'[t] \in Watcher /\ task'[t].inbox = task[t].inbox
                            /\ task'[t].dest = task[t].dest
    <3>1. task' = [t \in Tasks |->
              IF t = handles[p] THEN [task[t] EXCEPT !.on = "aborted"] ELSE task[t]]
      BY <1>1 DEF DropPipe
    <3>2. \A t \in Tasks : task[t] \in Watcher
      BY <1>0 DEF Tasks
    <3> QED
      BY <1>0, <2>2, <2>3, <3>1, <3>2 DEF Tasks
  <2>5. task' \in Seq(Watcher)
    <3>1. task' = [t \in Tasks |-> task'[t]]
      BY <1>1 DEF DropPipe
    <3>2. Len(task) \in Nat
      BY <1>0
    <3> QED
      BY ONLY <2>4, <3>1, <3>2
  <2>6. DebtsQueued'
    BY <2>1, <2>4, QueuesKept DEF PipesInv
  <2> QED
    BY <1>0, <2>1, <2>4, <2>5, <2>6 DEF PipesInv, PipesType, fileVars
<1>2. ASSUME NEW p \in Pipes, NEW auto \in BOOLEAN, CreatePipe(c, p, auto) PROVE PipesInv'
  <2>1. command' \in [Commands -> Statement]
    BY <1>0, <1>2 DEF CreatePipe
  <2> QED
    BY <1>2, <2>1, TasksKept DEF CreatePipe
<1>3. CASE SpawnWatcher(c)
  <2>1. command[c] \in Statement /\ command[c].op = "start" /\ NoCommand.op = "none"
    BY <1>0, <1>3 DEF SpawnWatcher, NoCommand
  <2>2. command[c].pipe \in Pipes
    BY <2>1
  <2> DEFINE w == [pipe |-> command[c].pipe, on |-> "spawned", inbox |-> <<>>, dest |-> <<>>]
  <2>3. w \in Watcher /\ w.dest = <<>>
    BY <2>2 DEF Watcher, Dest
  <2>4. command' \in [Commands -> Statement]
    <3>1. [op |-> "keep", pipe |-> command[c].pipe, task |-> Len(task) + 1] \in Statement
      BY <1>0, <2>2
    <3> QED
      BY <1>0, <1>3, <3>1 DEF SpawnWatcher
  <2>5. task' = Append(task, w) /\ UNCHANGED fileVars
    BY <1>3 DEF SpawnWatcher
  <2> HIDE DEF w
  <2>6. /\ task' \in Seq(Watcher) /\ Tasks = 1 .. Len(task) /\ Tasks' = 1 .. (Len(task) + 1)
        /\ \A t \in Tasks : task'[t] = task[t]
        /\ task'[Len(task) + 1] = w
    BY <1>0, <2>3, <2>5 DEF Tasks
  <2>7. Tasks \subseteq Tasks' /\ \A t \in Tasks' : t \in Tasks \/ t = Len(task) + 1
    BY <1>0, <2>6
  <2>8. DebtsQueued'
    BY <2>5, <2>6, <2>7, QueuesKept DEF PipesInv
  <2>9. \A t \in Tasks' : task'[t].dest # <<>> => task'[t].inbox # <<>>
    BY <1>0, <2>3, <2>6, <2>7
  <2> QED
    BY <2>4, <2>5, <2>6, <2>8, <2>9 DEF PipesInv, PipesType, fileVars
<1>4. CASE KeepHandle(c)
  <2>1. command' \in [Commands -> Statement]
    BY <1>0, <1>4 DEF KeepHandle
  <2> QED
    BY <1>4, <2>1, TasksKept DEF KeepHandle
<1>5. CASE ForgetPipe(c)
  <2>1. command' \in [Commands -> Statement]
    BY <1>0, <1>5 DEF ForgetPipe
  <2> QED
    BY <1>5, <2>1, TasksKept DEF ForgetPipe
<1> QED
  BY <1>1, <1>2, <1>3, <1>4, <1>5

\* A task begins, or chooses a name for its copy.
LEMMA TaskStep ==
    ASSUME PipesInv, NEW t \in Tasks, Begin(t) \/ ChooseName(t)
    PROVE  PipesInv'
<1>1. task \in Seq(Watcher) /\ task[t] \in Watcher /\ IsFiniteSet(DOMAIN warehouse)
  BY DEF PipesInv, PipesType, Tasks
<1>2. CASE Begin(t)
  <2> DEFINE w == [task[t] EXCEPT !.on = "watching"]
  <2>1. task' = [task EXCEPT ![t] = w] /\ UNCHANGED <<command, fileVars>>
    BY <1>2 DEF Begin
  <2>2. w \in Watcher /\ w.inbox = task[t].inbox /\ w.dest = task[t].dest
    BY <1>1 DEF Watcher
  <2>3. w.dest # <<>> => w.inbox # <<>>
    BY <2>2 DEF PipesInv, PipesType
  <2> HIDE DEF w
  <2> QED
    BY <2>1, <2>2, <2>3, OneTask
<1>3. CASE ChooseName(t)
  <2>1. task[t].inbox \in Seq(PipeFiles) /\ task[t].inbox # <<>>
    BY <1>1, <1>3 DEF ChooseName, Watcher
  <2>2. Head(task[t].inbox) \in PipeFiles /\ Cardinality(DOMAIN warehouse) \in Nat
    BY <1>1, <2>1, FS_CardinalityType
  <2> DEFINE f == Head(task[t].inbox)
             d == IF <<FileName[f], 0>> \in DOMAIN warehouse
                  THEN <<FileName[f], Cardinality(DOMAIN warehouse)>> ELSE <<FileName[f], 0>>
             w == [task[t] EXCEPT !.dest = d]
  <2>3. d \in Dest
    BY ONLY <2>2 DEF Dest
  <2>4. task' = [task EXCEPT ![t] = w] /\ UNCHANGED <<command, fileVars>>
    BY <1>3 DEF ChooseName
  <2> HIDE DEF d
  <2>5. w \in Watcher /\ w.inbox = task[t].inbox
    BY <1>1, <2>3 DEF Watcher
  <2> HIDE DEF w
  <2> QED
    BY <2>1, <2>4, <2>5, OneTask
<1> QED
  BY <1>2, <1>3

\* A producer writes a part of a file: the watchers of its directory hear of it.
LEMMA ProduceStep ==
    ASSUME PipesInv, NEW f \in PipeFiles, Produce(f)
    PROVE  PipesInv'
<1>0. /\ task \in Seq(Watcher) /\ Tasks = 1 .. Len(task)
      /\ \A t \in Tasks : task[t] \in Watcher
      /\ \A t \in Tasks : task[t].dest # <<>> => task[t].inbox # <<>>
  BY DEF PipesInv, PipesType, Tasks
<1>1. \A t \in Tasks : task[t].inbox \in Seq(PipeFiles)
  BY <1>0 DEF Watcher
<1>2. /\ Tasks' = Tasks
      /\ \A t \in Tasks : \/ Hears(t, f) /\ task'[t] = [task[t] EXCEPT !.inbox = Append(@, f)]
                          \/ ~Hears(t, f) /\ task'[t] = task[t]
      /\ task' = [t \in 1 .. Len(task) |-> task'[t]]
  BY <1>0 DEF Produce, Notify, Tasks
<1>3. \A t \in Tasks : /\ task'[t] \in Watcher /\ task'[t].dest = task[t].dest
                       /\ \/ Hears(t, f) /\ task'[t].inbox = Append(task[t].inbox, f)
                          \/ ~Hears(t, f) /\ task'[t].inbox = task[t].inbox
  <2> SUFFICES ASSUME NEW t \in Tasks
               PROVE  /\ task'[t] \in Watcher /\ task'[t].dest = task[t].dest
                      /\ \/ Hears(t, f) /\ task'[t].inbox = Append(task[t].inbox, f)
                         \/ ~Hears(t, f) /\ task'[t].inbox = task[t].inbox
    OBVIOUS
  <2> DEFINE q == Append(task[t].inbox, f)
  <2>1. q \in Seq(PipeFiles)
    BY <1>1
  <2>2. Hears(t, f) => task'[t] = [task[t] EXCEPT !.inbox = q]
    BY <1>2
  <2> HIDE DEF q
  <2>3. /\ [task[t] EXCEPT !.inbox = q] \in Watcher
        /\ [task[t] EXCEPT !.inbox = q].inbox = q
        /\ [task[t] EXCEPT !.inbox = q].dest = task[t].dest
    BY <1>0, <2>1 DEF Watcher
  <2> QED
    BY <1>0, <1>2, <2>2, <2>3 DEF q
<1>4. task' \in Seq(Watcher)
  BY <1>0, <1>2, <1>3
<1>5. \A t \in Tasks : /\ \A g \in PipeFiles : Queued(t, g) => Queued(t, g)'
                       /\ Hears(t, f) => Queued(t, f)'
                       /\ task'[t].inbox = <<>> => task[t].inbox = <<>>
  <2> SUFFICES ASSUME NEW t \in Tasks
               PROVE  /\ \A g \in PipeFiles : Queued(t, g) => Queued(t, g)'
                      /\ Hears(t, f) => Queued(t, f)'
                      /\ task'[t].inbox = <<>> => task[t].inbox = <<>>
    OBVIOUS
  <2> DEFINE q == task[t].inbox
  <2>1. q \in Seq(PipeFiles)
    BY <1>1
  <2>2. CASE Hears(t, f) /\ task'[t].inbox = Append(q, f)
    <3>1. /\ Len(q) \in Nat /\ DOMAIN q = 1 .. Len(q)
          /\ DOMAIN Append(q, f) = 1 .. (Len(q) + 1)
          /\ \A i \in 1 .. Len(q) : Append(q, f)[i] = q[i]
          /\ Append(q, f)[Len(q) + 1] = f /\ Append(q, f) # <<>>
      <4> HIDE DEF q
      <4> QED
        BY ONLY <2>1, f \in PipeFiles
    <3>2. \A i \in 1 .. Len(q) : i \in 1 .. (Len(q) + 1)
      BY <3>1
    <3>3. Len(q) + 1 \in 1 .. (Len(q) + 1)
      BY <3>1
    <3> HIDE DEF q
    <3>4. \A g \in PipeFiles : (\E i \in DOMAIN q : q[i] = g)
                                 => \E i \in DOMAIN Append(q, f) : Append(q, f)[i] = g
      BY <3>1, <3>2
    <3>5. \E i \in DOMAIN Append(q, f) : Append(q, f)[i] = f
      BY <3>1, <3>3
    <3> QED
      BY <2>2, <3>1, <3>4, <3>5 DEF Queued, q
  <2> QED
    BY <1>3, <2>2 DEF Queued
<1>6. /\ source[f] # Whole /\ source' = [source EXCEPT ![f] = @ + 1] /\ UNCHANGED unlanded
      /\ owed' = [owed EXCEPT ![f] =
             IF source'[f] = Whole THEN {t \in Tasks : Hears(t, f)} ELSE {}]
      /\ source \in [PipeFiles -> {Unwritten, Partly, Whole}]
      /\ owed \in [PipeFiles -> SUBSET Nat] /\ DebtsQueued
  BY DEF Produce, PipesInv, PipesType
<1>7. source' \in [PipeFiles -> {Unwritten, Partly, Whole}]
  BY <1>6 DEF Unwritten, Partly, Whole
<1>8. owed' \in [PipeFiles -> SUBSET Nat]
  BY <1>0, <1>6
<1>9. DebtsQueued'
  <2>1. ASSUME NEW g \in PipeFiles, NEW t \in owed'[g]
        PROVE  source'[g] = Whole /\ t \in Tasks' /\ (g \in unlanded' \/ Queued(t, g)')
    <3>1. CASE g = f
      <4>1. source'[f] = Whole /\ t \in Tasks /\ Hears(t, f)
        BY <1>6, <2>1, <3>1
      <4> QED
        BY <1>2, <1>5, <3>1, <4>1
    <3>2. CASE g # f
      <4>1. t \in owed[g] /\ source'[g] = source[g]
        BY <1>6, <2>1, <3>2
      <4>2. source[g] = Whole /\ t \in Tasks /\ (g \in unlanded \/ Queued(t, g))
        BY <1>6, <4>1 DEF DebtsQueued, Queued
      <4> QED
        BY <1>2, <1>5, <1>6, <4>1, <4>2
    <3> QED
      BY <3>1, <3>2
  <2> QED
    BY <2>1 DEF DebtsQueued, Queued
<1>10. \A t \in Tasks' : task'[t].dest # <<>> => task'[t].inbox # <<>>
  BY <1>0, <1>2, <1>3, <1>5
<1> QED
  BY <1>4, <1>7, <1>8, <1>9, <1>10 DEF PipesInv, PipesType, Produce

\* A task copies the first of its events: what it owes of that file it has paid,
\* or failed to; what it owes of others is further back.
LEMMA CopyStep ==
    ASSUME PipesInv, NEW t \in Tasks, CopyFile(t)
    PROVE  PipesInv' /\ DebtEndsWhole
<1> DEFINE q == task[t].inbox
           f == Head(q)
           d == task[t].dest
<1>0. /\ task \in Seq(Watcher) /\ Tasks = 1 .. Len(task)
      /\ \A u \in Tasks : task[u] \in Watcher
      /\ \A u \in Tasks : task[u].dest # <<>> => task[u].inbox # <<>>
      /\ owed \in [PipeFiles -> SUBSET Nat] /\ DebtsQueued
      /\ IsFiniteSet(DOMAIN warehouse)
  BY DEF PipesInv, PipesType, Tasks
<1>1. q \in Seq(PipeFiles) /\ q # <<>>
  BY <1>0 DEF Watcher, CopyFile
<1>2. /\ f \in PipeFiles /\ f = q[1] /\ Tail(q) \in Seq(PipeFiles)
      /\ Len(q) \in Nat /\ DOMAIN q = 1 .. Len(q) /\ DOMAIN Tail(q) = 1 .. (Len(q) - 1)
      /\ \A i \in 1 .. (Len(q) - 1) : Tail(q)[i] = q[i + 1]
  BY <1>1
<1>3. /\ UNCHANGED <<source, command>>
      /\ \/ /\ warehouse' = Store(d, [file |-> f, part |-> source[f]])
            /\ owed' = [owed EXCEPT ![f] = IF source[f] = Whole THEN @ \ {t} ELSE @]
            /\ UNCHANGED unlanded
         \/ UNCHANGED <<warehouse, owed>> /\ unlanded' = unlanded \cup {f}
  BY DEF CopyFile
<1>4. \E w : /\ task' = [task EXCEPT ![t] = w] /\ w \in Watcher /\ w.inbox = Tail(q)
             /\ w.dest = <<>>
  <2> DEFINE s == Tail(q)
             w == [task[t] EXCEPT !.dest = <<>>, !.inbox = s]
  <2>1. task' = [task EXCEPT ![t] = w]
    BY <1>0 DEF CopyFile
  <2>2. s \in Seq(PipeFiles) /\ <<>> \in Dest
    BY <1>2 DEF Dest
  <2> HIDE DEF s
  <2>3. w \in Watcher /\ w.inbox = s /\ w.dest = <<>>
    BY <1>0, <2>2 DEF Watcher
  <2> HIDE DEF w
  <2> QED
    BY <2>1, <2>3 DEF s
<1>5. /\ task' \in Seq(Watcher) /\ Tasks' = Tasks
      /\ \A u \in Tasks \ {t} : task'[u] = task[u]
      /\ task'[t].inbox = Tail(q) /\ task'[t].dest = <<>>
  <2>1. PICK w : /\ task' = [task EXCEPT ![t] = w] /\ w \in Watcher /\ w.inbox = Tail(q)
                 /\ w.dest = <<>>
    BY <1>4
  <2> HIDE DEF q
  <2> QED
    BY <1>0, <2>1 DEF Tasks
<1> HIDE DEF q, f, d
<1>6. \A g \in PipeFiles \ {f} : Queued(t, g) => Queued(t, g)'
  <2> SUFFICES ASSUME NEW g \in PipeFiles \ {f}, Queued(t, g) PROVE Queued(t, g)'
    OBVIOUS
  <2>1. PICK i \in 1 .. Len(q) : q[i] = g
    BY <1>2 DEF Queued, q
  <2>2. i # 1
    BY <1>2, <2>1
  <2>3. i - 1 \in 1 .. (Len(q) - 1) /\ (i - 1) + 1 = i
    BY <1>2, <2>1, <2>2
  <2>4. i - 1 \in DOMAIN Tail(q) /\ Tail(q)[i - 1] = g
    BY <1>2, <2>1, <2>3
  <2> QED
    BY <1>5, <2>4 DEF Queued
<1>7. \A g \in PipeFiles, u \in Tasks : (u # t \/ g # f) /\ Queued(u, g) => Queued(u, g)'
  BY <1>5, <1>6 DEF Queued
<1>8. DebtsQueued'
  <2>1. ASSUME NEW g \in PipeFiles, NEW u \in owed'[g]
        PROVE  source'[g] = Whole /\ u \in Tasks' /\ (g \in unlanded' \/ Queued(u, g)')
    <3>1. u \in owed[g] /\ unlanded \subseteq unlanded'
      BY <1>0, <1>2, <1>3, <2>1
    <3>2. source[g] = Whole /\ u \in Tasks /\ (g \in unlanded \/ Queued(u, g))
      BY <1>0, <3>1 DEF DebtsQueued, Queued
    <3>3. CASE u = t /\ g = f
      BY <1>0, <1>2, <1>3, <1>5, <2>1, <3>2, <3>3
    <3>4. CASE u # t \/ g # f
      BY <1>3, <1>5, <1>7, <3>1, <3>2, <3>4
    <3> QED
      BY <3>3, <3>4
  <2> QED
    BY <2>1 DEF DebtsQueued, Queued
<1>9. IsFiniteSet(DOMAIN warehouse')
  <2>1. DOMAIN Store(d, [file |-> f, part |-> source[f]]) = DOMAIN warehouse \cup {d}
    BY DEF Store
  <2>2. IsFiniteSet(DOMAIN warehouse \cup {d})
    BY <1>0, FS_AddElement
  <2> QED
    BY <1>0, <1>3, <2>1, <2>2
<1>10. PipesInv'
  <2>1. owed' \in [PipeFiles -> SUBSET Nat]
    BY <1>0, <1>2, <1>3
  <2>2. \A u \in Tasks' : task'[u].dest # <<>> => task'[u].inbox # <<>>
    BY <1>0, <1>5
  <2> QED
    BY <1>3, <1>5, <1>8, <1>9, <2>1, <2>2 DEF PipesInv, PipesType
<1>11. DebtEndsWhole
  <2> SUFFICES ASSUME NEW g \in PipeFiles, ~(owed[g] \subseteq owed'[g])
               PROVE  source[g] = Whole /\ Landed(g)'
    BY DEF DebtEndsWhole
  <2>1. /\ g = f /\ source[f] = Whole
        /\ warehouse' = Store(d, [file |-> f, part |-> source[f]])
    BY <1>0, <1>2, <1>3
  <2>2. d \in DOMAIN warehouse' /\ warehouse'[d] = [file |-> f, part |-> Whole]
    BY <2>1 DEF Store
  <2> QED
    BY <2>1, <2>2 DEF Landed
<1> QED
  BY <1>10, <1>11

\* No other step ends a debt: a file that is still being written is owed nothing.
LEMMA PipesStep ==
    ASSUME PipesInv, [PipesNext]_pipeVars
    PROVE  PipesInv' /\ [DebtEndsWhole]_pipeVars
<1>1. ASSUME UNCHANGED owed PROVE DebtEndsWhole
  BY <1>1 DEF DebtEndsWhole
<1>2. ASSUME NEW c \in Commands,
             \/ \E p \in Pipes : DropPipe(c, p) \/ \E auto \in BOOLEAN : CreatePipe(c, p, auto)
             \/ SpawnWatcher(c) \/ KeepHandle(c) \/ ForgetPipe(c)
      PROVE  PipesInv' /\ DebtEndsWhole
  <2>1. UNCHANGED owed
    BY <1>2 DEF DropPipe, CreatePipe, SpawnWatcher, KeepHandle, ForgetPipe, fileVars
  <2> QED
    BY <1>1, <1>2, <2>1, StatementStep
<1>3. ASSUME NEW t \in 1 .. MaxTasks, WatcherStep(t) PROVE PipesInv' /\ DebtEndsWhole
  <2>1. t \in Tasks
    BY <1>3 DEF WatcherStep
  <2>2. CASE Begin(t) \/ ChooseName(t)
    <3>1. UNCHANGED owed
      BY <2>2 DEF Begin, ChooseName, fileVars
    <3> QED
      BY <1>1, <2>1, <2>2, <3>1, TaskStep
  <2> QED
    BY <1>3, <2>1, <2>2, CopyStep DEF WatcherStep
<1>4. ASSUME NEW f \in PipeFiles, Produce(f) PROVE PipesInv' /\ DebtEndsWhole
  <2>1. owed[f] = {}
    BY <1>4 DEF Produce, PipesInv, DebtsQueued
  <2>2. \A g \in PipeFiles : owed[g] \subseteq owed'[g]
    BY <1>4, <2>1 DEF Produce, PipesInv, PipesType
  <2> QED
    BY <1>4, <2>2, ProduceStep DEF DebtEndsWhole
<1>5. CASE UNCHANGED pipeVars
  <2>1. UNCHANGED <<task, fileVars, command>>
    BY <1>5 DEF pipeVars, fileVars
  <2>2. command' \in [Commands -> Statement]
    BY <2>1 DEF PipesInv, PipesType
  <2> QED
    BY <1>5, <2>1, <2>2, TasksKept
<1> QED
  BY <1>2, <1>3, <1>4, <1>5 DEF PipesNext

(* The safety half of FileArrives, for any pipes, directories, statements  *)
(* and failures: a file that was finished under a watcher stays among the  *)
(* events the watcher has to handle until it is copied whole or a copy of  *)
(* it fails, and a debt ends only with a whole copy in the warehouse       *)
(* (FileWatcher::run, ingest_file).                                        *)
THEOREM FilesNotForgotten == PipesSpec => DebtsPaid
<1>1. PipesInv => DebtsQueued
  BY DEF PipesInv
<1> QED
  BY <1>1, PipesStart, PipesStep, PTL DEF PipesSpec, DebtsPaid
===============================================================================
