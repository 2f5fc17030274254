--------------------------- MODULE Tables_proofs ---------------------------
(***************************************************************************)
(* Whatever the names, the failures and the crashes: a registered name has *)
(* a file, and what a command answered stands until the next command on    *)
(* the same name.  An export into another server leaves what it says it    *)
(* wrote, and the tables of a sample dataset join at every scale.  And of  *)
(* the Iceberg table, for any handles, any number of writers, and any      *)
(* bounds: type correctness, and that every metadata file describes a      *)
(* readable table with one chain of parents and correct totals; and for    *)
(* one writer and up to nine appends, that no acknowledged append is lost. *)
(***************************************************************************)
EXTENDS Tables, PgExport, Datasets, IcebergTable, FiniteSets, SequencesExt, SequenceTheorems, TLAPS

\* What a name's answer says of the disk, whether the process runs or not.
DiskAgrees(n) ==
    /\ said[n].kind = "table" => file["public"][n] = said[n].version
    /\ said[n].kind = "view" => /\ file["views"][n] = said[n].version
                                /\ n \in rows
    /\ said[n].kind = "no table" => file["public"][n] = Missing
    /\ said[n].kind = "no view" => n \notin rows
    /\ said[n].kind \in {"table", "view"} => said[n].version > 0

\* ... and of the session.
InSession(n) ==
    /\ reg[n] # "none" => file[reg[n]][n] # Missing
    /\ said[n].kind = "table" => reg[n] = "public"
    /\ said[n].kind = "view" /\ file["public"][n] = Missing => reg[n] = "views"
    /\ said[n].kind = "no table" /\ n \notin rows => reg[n] = "none"
    /\ said[n].kind = "no view" /\ file["public"][n] = Missing
         => reg[n] = "none"

\* The command the engine is in has promised nothing yet, and its last steps
\* follow a complete write.
InCommand ==
    cmd # Idle =>
        /\ up
        /\ said[cmd.name].kind = "unknown"
        /\ cmd.step \in {"register", "record"} =>
             /\ writes > 0
             /\ file[DirOf(cmd.op)][cmd.name] = writes
        /\ cmd.step = "record" => reg[cmd.name] = "views"
        /\ cmd.step = "record" => cmd.op \in {"create", "refresh"}
        /\ cmd.step = "forget" => reg[cmd.name] = "none"

Command == [op : {"ctas", "copy", "create", "refresh", "drop"},
            name : Name,
            step : {"open", "write", "register", "record", "forget"}]
FileState == {Empty, Torn} \cup Nat
Said == [kind : {"unknown", "table", "view", "no table", "no view"},
         version : Nat]

Typed ==
    /\ up \in BOOLEAN
    /\ cmd = Idle \/ cmd \in Command
    /\ file \in [Dir -> [Name -> FileState]]
    /\ reg \in [Name -> Dir \cup {"none"}]
    /\ temp \subseteq Name /\ rows \subseteq Name
    /\ writes \in Nat /\ faults \in Nat /\ crashes \in Nat
    /\ said \in [Name -> Said]

\* The types with their sets expanded are the type invariant.
LEMMA TypedType == TypeOK <=> Typed
BY DEF TypeOK, Typed, Command, FileState, Said

\* A command in progress is not Idle, and stays a command.
LEMMA CommandFacts ==
    /\ Idle \notin Command
    /\ \A c \in Command : c.op # "none" /\ c.name \in Name
    /\ \A c \in Command : \A s \in {"open", "write", "register", "record", "forget"} :
         LET d == [c EXCEPT !.step = s] IN
         d \in Command /\ d.op = c.op /\ d.name = c.name /\ d.step = s
BY DEF Idle, Command

\* What the session is told of one name changes that name alone.
LEMMA SayFacts ==
    ASSUME NEW n \in Name, said \in [Name -> Said], NEW v \in Nat,
           NEW kind \in {"unknown", "table", "view", "no table", "no view"},
           Say(n, kind, v)
    PROVE  /\ said' \in [Name -> Said]
           /\ said'[n].kind = kind /\ said'[n].version = v
           /\ \A m \in Name : m # n => said'[m] = said[m]
BY DEF Say, Said

\* Writing one file leaves every other file alone.
LEMMA SetFileFacts ==
    ASSUME NEW d \in Dir, NEW n \in Name, NEW c \in FileState,
           file \in [Dir -> [Name -> FileState]], SetFile(d, n, c)
    PROVE  /\ file' \in [Dir -> [Name -> FileState]]
           /\ file'[d][n] = c
           /\ \A e \in Dir, m \in Name :
                e # d \/ m # n => file'[e][m] = file[e][m]
BY DEF SetFile

\* Every step keeps the types.
LEMMA TypeStep == Typed /\ [Next]_vars => Typed'
<1> SUFFICES ASSUME Typed, [Next]_vars PROVE Typed'
  OBVIOUS
<1> USE DEF Typed, bounds
<1>0. /\ \A op : DirOf(op) \in Dir
      /\ Missing \in FileState /\ Empty \in FileState /\ Torn \in FileState
      /\ "public" \in Dir /\ "views" \in Dir
      /\ 0 \in Nat
  BY DEF DirOf, Dir, FileState, Missing, Empty, Torn
<1>1. CASE UNCHANGED vars
  BY <1>1 DEF vars
<1>2. ASSUME NEW n \in Name, NEW op \in {"ctas", "copy", "create", "refresh"},
             Begin(op, n), temp' \subseteq Name
      PROVE  Typed'
  <2>1. cmd' \in Command
    BY <1>2 DEF Begin, Command
  <2>2. said' \in [Name -> Said]
    BY <1>0, <1>2, SayFacts DEF Begin
  <2> QED
    BY <1>2, <2>1, <2>2 DEF Begin
<1>3. ASSUME NEW n \in Name, CreateTable(n) \/ CreateView(n) \/ RefreshView(n)
      PROVE  Typed'
  BY <1>2, <1>3 DEF CreateTable, CreateView, RefreshView
<1>4. ASSUME NEW n \in Name, CopyInto(n) PROVE Typed'
  BY <1>2, <1>4 DEF CopyInto
<1>5. ASSUME NEW n \in Name, DropTable(n) PROVE Typed'
  <2>1. said' \in [Name -> Said]
    BY <1>0, <1>5, SayFacts DEF DropTable
  <2>2. file' \in [Dir -> [Name -> FileState]]
    BY <1>0, <1>5, SetFileFacts DEF DropTable
  <2>3. faults' = faults \/ faults' = faults + 1
    BY <1>5, Zenon DEF DropTable, Fault
  <2>4. faults' \in Nat
    BY <2>3
  <2>5. reg' \in [Name -> Dir \cup {"none"}]
    BY <1>5 DEF DropTable
  <2>6. UNCHANGED <<up, cmd, temp, rows, writes, crashes>>
    BY <1>5 DEF DropTable
  <2> QED
    BY <2>1, <2>2, <2>4, <2>5, <2>6
<1>6. ASSUME NEW n \in Name, DropView(n) PROVE Typed'
  <2>1. said' \in [Name -> Said]
    BY <1>0, <1>6, SayFacts DEF DropView
  <2>2. file' \in [Dir -> [Name -> FileState]]
    <3>1. (IF n \in rows THEN Missing ELSE file["views"][n]) \in FileState
      BY <1>0
    <3> QED
      BY <1>0, <1>6, <3>1, SetFileFacts DEF DropView
  <2>3. faults' \in Nat
    BY <1>6 DEF DropView, Fault
  <2>4. cmd' \in Command
    BY <1>6 DEF DropView, Command
  <2> QED
    BY <1>6, <2>1, <2>2, <2>3, <2>4 DEF DropView
<1>7. CASE OpenFile
  <2>1. cmd \in Command /\ cmd.name \in Name
    BY <1>7, CommandFacts DEF OpenFile, At
  <2>2. file' \in [Dir -> [Name -> FileState]]
    BY <1>0, <1>7, <2>1, SetFileFacts DEF OpenFile
  <2>3. cmd' = Idle \/ cmd' \in Command
    <3>1. cmd' = Idle \/ cmd' = [cmd EXCEPT !.step = "write"]
      BY <1>7 DEF OpenFile, Goto
    <3>2. [cmd EXCEPT !.step = "write"] \in Command
      BY <2>1, CommandFacts
    <3> QED
      BY <3>1, <3>2
  <2>4. faults' \in Nat
    BY <1>7 DEF OpenFile, Fault
  <2> QED
    BY <1>7, <2>2, <2>3, <2>4 DEF OpenFile
<1>8. CASE Flush
  <2>1. cmd \in Command /\ cmd.name \in Name
    BY <1>8, CommandFacts DEF Flush, At
  <2>2. file' \in [Dir -> [Name -> FileState]]
    BY <1>0, <1>8, <2>1, SetFileFacts DEF Flush
  <2> QED
    BY <1>8, <2>2 DEF Flush
<1>9. CASE CloseFile
  <2>1. cmd \in Command /\ cmd.name \in Name
    BY <1>9, CommandFacts DEF CloseFile, At
  <2>2. file' \in [Dir -> [Name -> FileState]]
    <3>1. writes + 1 \in FileState
      BY DEF FileState
    <3> QED
      BY <1>0, <1>9, <2>1, <3>1, SetFileFacts DEF CloseFile
  <2>3. cmd' = Idle \/ cmd' \in Command
    <3>1. cmd' = Idle \/ cmd' = [cmd EXCEPT !.step = "register"]
      BY <1>9 DEF CloseFile, Goto
    <3>2. [cmd EXCEPT !.step = "register"] \in Command
      BY <2>1, CommandFacts
    <3> QED
      BY <3>1, <3>2
  <2>4. faults' \in Nat /\ writes' \in Nat
    BY <1>9 DEF CloseFile, Fault
  <2> QED
    BY <1>9, <2>2, <2>3, <2>4 DEF CloseFile
<1>10. CASE RegisterTable
  <2>1. cmd \in Command /\ cmd.name \in Name
    BY <1>10, CommandFacts DEF RegisterTable, At
  <2>2. said' \in [Name -> Said]
    BY <1>10, <2>1, SayFacts DEF RegisterTable
  <2> QED
    BY <1>0, <1>10, <2>1, <2>2 DEF RegisterTable
<1>11. CASE RegisterCopy
  <2>1. cmd \in Command /\ cmd.name \in Name
    BY <1>11, CommandFacts DEF RegisterCopy, At
  <2>2. said' \in [Name -> Said]
    BY <1>11, <2>1, SayFacts DEF RegisterCopy
  <2> QED
    BY <1>0, <1>11, <2>1, <2>2 DEF RegisterCopy
<1>12. CASE RegisterView
  <2>1. cmd \in Command /\ cmd.name \in Name
    BY <1>12, CommandFacts DEF RegisterView, At
  <2>2. cmd' \in Command
    BY <1>12, <2>1, CommandFacts DEF RegisterView, Goto
  <2> QED
    BY <1>0, <1>12, <2>1, <2>2 DEF RegisterView
<1>13. CASE RecordView
  <2>1. cmd \in Command /\ cmd.name \in Name
    BY <1>13, CommandFacts DEF RecordView, At
  <2>2. said' \in [Name -> Said]
    BY <1>13, <2>1, SayFacts DEF RecordView
  <2>3. faults' \in Nat
    BY <1>13 DEF RecordView, Fault
  <2> QED
    BY <1>13, <2>1, <2>2, <2>3 DEF RecordView
<1>14. CASE ForgetView
  <2>1. cmd \in Command /\ cmd.name \in Name
    BY <1>14, CommandFacts DEF ForgetView, At
  <2>2. said' \in [Name -> Said]
    BY <1>0, <1>14, <2>1, SayFacts DEF ForgetView
  <2> QED
    BY <1>14, <2>1, <2>2 DEF ForgetView
<1>15. CASE Crash
  <2>1. reg' \in [Name -> Dir \cup {"none"}]
    BY <1>15 DEF Crash
  <2>2. crashes' \in Nat
    BY <1>15 DEF Crash
  <2> QED
    BY <1>15, <2>1, <2>2 DEF Crash
<1>16. CASE Start
  BY <1>0, <1>16 DEF Start, Restorable
<1> QED
  BY <1>1, <1>3, <1>4, <1>5, <1>6, <1>7, <1>8, <1>9, <1>10, <1>11, <1>12,
     <1>13, <1>14, <1>15, <1>16 DEF Next, Step

-----------------------------------------------------------------------------
(* A command disturbs one name only. *)

Holds(n) == DiskAgrees(n) /\ InSession(n)

Same(m) ==
    /\ said'[m] = said[m]
    /\ file'["public"][m] = file["public"][m]
    /\ file'["views"][m] = file["views"][m]
    /\ reg'[m] = reg[m]
    /\ m \in rows' <=> m \in rows

Touches(c) == up /\ up' /\ \A m \in Name : m # c => Same(m)

\* The command's name has promised nothing, and has a file if registered.
Silent(n) ==
    /\ said[n].kind = "unknown"
    /\ reg[n] # "none" => file[reg[n]][n] # Missing

NamesHold ==
    /\ \A n \in Name : DiskAgrees(n)
    /\ \A n \in Name : IF up THEN InSession(n) ELSE reg[n] = "none"

TablesInv == Typed /\ InCommand /\ NamesHold

\* A name that has promised nothing owes nothing in the next state either.
LEMMA SilentHoldsNext == \A n \in Name : Silent(n)' => Holds(n)'
BY DEF Silent, Holds, DiskAgrees, InSession

\* A step that touches one name keeps what holds of the others.
LEMMA TouchOne ==
    ASSUME Typed, NamesHold, NEW c \in Name, Touches(c), Holds(c)'
    PROVE  NamesHold'
<1> SUFFICES ASSUME NEW m \in Name PROVE DiskAgrees(m)' /\ InSession(m)'
  BY DEF NamesHold, Touches
<1>1. CASE m = c
  BY <1>1 DEF Holds
<1>2. CASE m # c
  <2>1. Same(m) /\ up
    BY <1>2 DEF Touches
  <2>2. DiskAgrees(m) /\ InSession(m) /\ reg[m] \in {"public", "views", "none"}
    BY <2>1 DEF NamesHold, Typed, Dir
  <2>3. DiskAgrees(m)'
    BY <2>1, <2>2 DEF Same, DiskAgrees
  <2>4. InSession(m)'
    BY <2>1, <2>2 DEF Same, InSession
  <2> QED
    BY <2>3, <2>4
<1> QED
  BY <1>1, <1>2

\* Every step keeps what holds of a name between two commands.
LEMMA NameStep ==
    ASSUME Typed, Typed', InCommand, NamesHold, [Next]_vars
    PROVE  InCommand' /\ NamesHold'
<1> USE DEF bounds
<1>0. /\ "public" \in Dir /\ "views" \in Dir /\ Missing \in FileState
      /\ Empty \in FileState /\ Torn \in FileState
      /\ Empty # Missing /\ Torn # Missing /\ 0 \in Nat
      /\ \A op : DirOf(op) \in Dir
      /\ \A d \in Dir : d = "public" \/ d = "views"
      /\ \A n \in Name : up => Holds(n)
  BY DEF Dir, FileState, Missing, Empty, Torn, DirOf, NamesHold, Holds
<1>1. CASE UNCHANGED vars
  BY <1>1 DEF vars, InCommand, NamesHold, DiskAgrees, InSession
<1>2. ASSUME NEW n \in Name, NEW op \in {"ctas", "copy", "create", "refresh"},
             Begin(op, n)
      PROVE  InCommand' /\ NamesHold'
  <2>1. /\ said'[n].kind = "unknown"
        /\ \A m \in Name : m # n => said'[m] = said[m]
    BY <1>0, <1>2, SayFacts DEF Begin, Typed
  <2>2. Touches(n)
    BY <1>2, <2>1 DEF Begin, Touches, Same
  <2>3. Silent(n)'
    BY <1>0, <1>2, <2>1 DEF Begin, Silent, Holds, InSession
  <2>4. InCommand'
    BY <1>2, <2>1 DEF Begin, InCommand
  <2> QED
    BY <2>2, <2>3, <2>4, SilentHoldsNext, TouchOne
<1>3. ASSUME NEW n \in Name, CreateTable(n) \/ CreateView(n) \/ RefreshView(n)
      PROVE  InCommand' /\ NamesHold'
  BY <1>2, <1>3 DEF CreateTable, CreateView, RefreshView
<1>4. ASSUME NEW n \in Name, CopyInto(n) PROVE InCommand' /\ NamesHold'
  <2>1. CASE Begin("copy", n)
    BY <1>2, <2>1
  <2>2. CASE up /\ cmd = Idle /\ UNCHANGED <<up, cmd, file, reg, rows, bounds, said>>
    BY <2>2 DEF InCommand, NamesHold, DiskAgrees, InSession
  <2> QED
    BY <1>4, <2>1, <2>2 DEF CopyInto
<1>5. ASSUME NEW n \in Name, DropTable(n) PROVE InCommand' /\ NamesHold'
  <2>1. /\ up /\ up' /\ cmd' = Idle /\ rows' = rows
        /\ reg' = [reg EXCEPT ![n] = "none"]
    BY <1>5 DEF DropTable, Typed
  <2>2. \A m \in Name : m # n => said'[m] = said[m]
    BY <1>0, <1>5, SayFacts DEF DropTable, Typed
  <2>3. \A m \in Name : m # n => /\ file'["public"][m] = file["public"][m]
                                /\ file'["views"][m] = file["views"][m]
    <3>1. CASE SetFile("public", n, Missing)
      BY <1>0, <3>1, SetFileFacts DEF Typed
    <3>2. CASE UNCHANGED file
      BY <3>2
    <3> QED
      BY <1>5, <3>1, <3>2, Zenon DEF DropTable
  <2>4. Touches(n)
    BY <2>1, <2>2, <2>3 DEF Touches, Same, Typed
  <2>5. reg'[n] = "none"
    BY <2>1 DEF Typed
  <2>6. CASE SetFile("public", n, Missing) /\ Say(n, "no table", 0)
    <3>1. file'["public"][n] = Missing
      BY <1>0, <2>6, SetFileFacts DEF Typed
    <3>2. said'[n].kind = "no table"
      BY <1>0, <2>6, SayFacts DEF Typed
    <3>3. Holds(n)'
      BY <2>5, <3>1, <3>2 DEF Holds, DiskAgrees, InSession
    <3> QED
      BY <2>1, <2>4, <3>3, TouchOne DEF InCommand
  <2>7. CASE Say(n, "unknown", 0)
    <3>1. said'[n].kind = "unknown"
      BY <1>0, <2>7, SayFacts DEF Typed
    <3>2. Silent(n)'
      BY <2>5, <3>1 DEF Silent
    <3> QED
      BY <2>1, <2>4, <3>2, SilentHoldsNext, TouchOne DEF InCommand
  <2> QED
    BY <1>5, <2>6, <2>7 DEF DropTable
<1>6. ASSUME NEW n \in Name, DropView(n) PROVE InCommand' /\ NamesHold'
  <2>1. /\ up /\ up' /\ rows' = rows
        /\ reg' = [reg EXCEPT ![n] = "none"]
        /\ cmd' = [op |-> "drop", name |-> n, step |-> "forget"]
    BY <1>6 DEF DropView, Typed
  <2>2. /\ said'[n].kind = "unknown"
        /\ \A m \in Name : m # n => said'[m] = said[m]
    BY <1>0, <1>6, SayFacts DEF DropView, Typed
  <2>3. \A m \in Name : m # n => /\ file'["public"][m] = file["public"][m]
                                /\ file'["views"][m] = file["views"][m]
    <3>1. (IF n \in rows THEN Missing ELSE file["views"][n]) \in FileState
      BY <1>0 DEF Typed
    <3> QED
      BY <1>0, <1>6, <3>1, SetFileFacts DEF DropView, Typed
  <2>4. Touches(n)
    BY <2>1, <2>2, <2>3 DEF Touches, Same, Typed
  <2>5. Silent(n)'
    BY <2>1, <2>2 DEF Silent, Typed
  <2>6. InCommand'
    BY <2>1, <2>2 DEF InCommand, Typed
  <2> QED
    BY <2>4, <2>5, <2>6, SilentHoldsNext, TouchOne
<1>7. ASSUME NEW step, At(step)
      PROVE  /\ up /\ cmd \in Command /\ cmd.name \in Name
             /\ said[cmd.name].kind = "unknown" /\ Silent(cmd.name)
             /\ step \in {"register", "record"} =>
                  writes > 0 /\ file[DirOf(cmd.op)][cmd.name] = writes
             /\ step = "record" => /\ reg[cmd.name] = "views"
                                   /\ cmd.op \in {"create", "refresh"}
             /\ step = "forget" => reg[cmd.name] = "none"
  <2>1. up /\ cmd \in Command /\ cmd.name \in Name /\ cmd # Idle /\ cmd.step = step
    BY <1>7, CommandFacts DEF At, Typed
  <2> QED
    BY <1>0, <2>1 DEF InCommand, Silent, Holds, InSession
<1>c. PICK c : c = cmd.name
  OBVIOUS
<1>d. PICK d : d = DirOf(cmd.op)
  OBVIOUS
<1> USE <1>c, <1>d
<1>8. ASSUME NEW x \in FileState, x # Missing, SetFile(d, c, x),
             At("open") \/ At("write"),
             UNCHANGED <<up, reg, rows, said>>
      PROVE  /\ NamesHold' /\ said'[c].kind = "unknown" /\ up'
             /\ file'[d][c] = x
  <2>1. up /\ cmd \in Command /\ c \in Name /\ said[c].kind = "unknown" /\ Silent(c)
    BY <1>7, <1>8
  <2>2. /\ file'[d][c] = x
        /\ \A e \in Dir, m \in Name : e # d \/ m # c => file'[e][m] = file[e][m]
    BY <1>0, <1>8, <2>1, SetFileFacts DEF Typed
  <2>3. Touches(c)
    BY <1>0, <1>8, <2>1, <2>2 DEF Touches, Same
  <2>4. reg[c] \in Dir \cup {"none"}
    BY <2>1 DEF Typed
  <2>5. Silent(c)'
    BY <1>8, <2>1, <2>2, <2>4 DEF Silent
  <2>6. Holds(c)'
    BY <2>1, <2>5, SilentHoldsNext
  <2>7. NamesHold'
    BY <2>1, <2>3, <2>6, TouchOne
  <2> QED
    BY <1>8, <2>1, <2>2, <2>7
<1>9. ASSUME At("open") \/ At("write"), UNCHANGED <<up, file, reg, rows, said>>
      PROVE  NamesHold'
  BY <1>9 DEF NamesHold, DiskAgrees, InSession
<1>10. ASSUME NEW step \in {"write", "register", "record"}, cmd \in Command,
              Goto(step)
       PROVE  /\ cmd' # Idle /\ cmd'.name = c /\ cmd'.op = cmd.op
              /\ cmd'.step = step
  <2>1. step \in {"open", "write", "register", "record", "forget"}
    BY <1>10
  <2>2. cmd' = [cmd EXCEPT !.step = step]
    BY <1>10 DEF Goto
  <2>3. /\ cmd' \in Command /\ cmd'.name = cmd.name /\ cmd'.op = cmd.op
        /\ cmd'.step = step
    BY <1>10, <2>1, <2>2, CommandFacts
  <2> QED
    BY <2>3, CommandFacts
<1>11. CASE OpenFile
  <2>1. At("open") /\ cmd \in Command
    BY <1>7, <1>11 DEF OpenFile
  <2>2. CASE SetFile(d, c, Empty) /\ Goto("write")
    <3>1. NamesHold' /\ said'[c].kind = "unknown" /\ up'
      BY <1>0, <1>8, <1>11, <2>1, <2>2 DEF OpenFile
    <3>2. InCommand'
      BY <1>10, <2>1, <2>2, <3>1 DEF InCommand
    <3> QED
      BY <3>1, <3>2
  <2>3. CASE cmd' = Idle /\ UNCHANGED file
    BY <1>9, <1>11, <2>1, <2>3 DEF OpenFile, InCommand
  <2> QED
    BY <1>11, <2>2, <2>3 DEF OpenFile
<1>12. CASE Flush
  <2>1. At("write") /\ cmd' = cmd
    BY <1>12 DEF Flush
  <2>2. NamesHold' /\ said'[c].kind = "unknown" /\ up'
    BY <1>0, <1>8, <1>12, <2>1 DEF Flush
  <2>3. InCommand'
    BY <2>1, <2>2 DEF InCommand, At
  <2> QED
    BY <2>2, <2>3
<1>13. CASE CloseFile
  <2>1. At("write") /\ cmd \in Command
    BY <1>7, <1>13 DEF CloseFile
  <2>2. CASE writes' = writes + 1 /\ SetFile(d, c, writes + 1) /\ Goto("register")
    <3>1. writes + 1 \in FileState /\ writes + 1 # Missing /\ writes' > 0
      BY <2>2 DEF Typed, FileState, Missing
    <3>2. /\ NamesHold' /\ said'[c].kind = "unknown" /\ up'
          /\ file'[d][c] = writes + 1
      BY <1>8, <1>13, <2>1, <2>2, <3>1 DEF CloseFile
    <3>3. /\ cmd' # Idle /\ cmd'.name = c /\ cmd'.op = cmd.op
          /\ cmd'.step = "register"
      BY <1>10, <2>1, <2>2
    <3>4. file'[DirOf(cmd'.op)][cmd'.name] = writes'
      BY <2>2, <3>2, <3>3
    <3>5. InCommand'
      BY <3>1, <3>2, <3>3, <3>4 DEF InCommand
    <3> QED
      BY <3>2, <3>5
  <2>3. CASE cmd' = Idle /\ UNCHANGED file
    BY <1>9, <1>13, <2>1, <2>3 DEF CloseFile, InCommand
  <2> QED
    BY <1>13, <2>2, <2>3 DEF CloseFile
<1>14. ASSUME At("register"), up' = up, file' = file, rows' = rows,
              cmd.op \in {"ctas", "copy"},
              reg' = [reg EXCEPT ![c] = "public"], Say(c, "table", writes)
       PROVE  NamesHold'
  <2>1. /\ up /\ c \in Name /\ d = "public" /\ writes > 0
        /\ file["public"][c] = writes
    BY <1>7, <1>14 DEF DirOf
  <2>2. /\ said'[c].kind = "table" /\ said'[c].version = writes
        /\ \A m \in Name : m # c => said'[m] = said[m]
    BY <1>14, <2>1, SayFacts DEF Typed
  <2>3. Touches(c)
    BY <1>14, <2>1, <2>2 DEF Touches, Same, Typed
  <2>4. reg'[c] = "public"
    BY <1>14, <2>1 DEF Typed
  <2>5. writes # Missing
    BY <2>1 DEF Missing
  <2>6. Holds(c)'
    BY <1>14, <2>1, <2>2, <2>4, <2>5 DEF Holds, DiskAgrees, InSession
  <2> QED
    BY <2>1, <2>3, <2>6, TouchOne
<1>15. CASE RegisterTable
  <2>1. NamesHold'
    BY <1>14, <1>15 DEF RegisterTable
  <2> QED
    BY <1>15, <2>1 DEF RegisterTable, InCommand
<1>16. CASE RegisterCopy
  <2>1. cmd' = Idle
    BY <1>16 DEF RegisterCopy
  <2>2. CASE reg' = [reg EXCEPT ![c] = "public"] /\ Say(c, "table", writes)
    BY <1>14, <1>16, <2>1, <2>2 DEF RegisterCopy, InCommand
  <2>3. CASE UNCHANGED <<reg, said>>
    <3>1. UNCHANGED <<up, file, reg, rows, said>>
      BY <1>16, <2>3 DEF RegisterCopy
    <3>2. NamesHold'
      BY <3>1 DEF NamesHold, DiskAgrees, InSession
    <3> QED
      BY <2>1, <3>2 DEF InCommand
  <2> QED
    BY <1>16, <2>2, <2>3 DEF RegisterCopy
<1>17. CASE RegisterView
  <2>1. /\ up /\ c \in Name /\ cmd \in Command /\ said[c].kind = "unknown"
        /\ writes > 0 /\ file[d][c] = writes
        /\ cmd.op \in {"create", "refresh"}
    BY <1>7, <1>17 DEF RegisterView
  <2>2. d = "views" /\ writes # Missing
    BY <2>1 DEF DirOf, Missing
  <2>3. reg'[c] = "views"
    BY <1>17, <2>1 DEF RegisterView, Typed
  <2>4. Touches(c)
    BY <1>17, <2>1 DEF RegisterView, Touches, Same, Typed
  <2>5. Silent(c)'
    BY <1>17, <2>1, <2>2, <2>3 DEF RegisterView, Silent
  <2>6. NamesHold'
    BY <2>1, <2>4, <2>5, SilentHoldsNext, TouchOne
  <2>7. /\ cmd' # Idle /\ cmd'.name = c /\ cmd'.op = cmd.op
        /\ cmd'.step = "record"
    BY <1>10, <1>17, <2>1 DEF RegisterView
  <2>8. InCommand'
    BY <1>17, <2>1, <2>3, <2>7 DEF RegisterView, InCommand
  <2> QED
    BY <2>6, <2>8
<1>18. CASE RecordView
  <2>1. /\ up /\ c \in Name /\ writes > 0 /\ reg[c] = "views"
        /\ file["views"][c] = writes
    BY <1>7, <1>18 DEF RecordView, DirOf
  <2>2. cmd' = Idle
    BY <1>18 DEF RecordView
  <2>3. CASE rows' = rows \cup {c} /\ Say(c, "view", writes)
    <3>1. /\ said'[c].kind = "view" /\ said'[c].version = writes
          /\ \A m \in Name : m # c => said'[m] = said[m]
      BY <2>1, <2>3, SayFacts DEF Typed
    <3>2. Touches(c)
      BY <1>18, <2>1, <2>3, <3>1 DEF RecordView, Touches, Same
    <3>3. writes # Missing
      BY <2>1 DEF Missing
    <3>4. Holds(c)'
      BY <1>18, <2>1, <2>3, <3>1, <3>3 DEF RecordView, Holds, DiskAgrees, InSession
    <3> QED
      BY <2>1, <2>2, <3>2, <3>4, TouchOne DEF InCommand
  <2>4. CASE UNCHANGED <<rows, said>>
    <3>1. UNCHANGED <<up, file, reg, rows, said>>
      BY <1>18, <2>4 DEF RecordView
    <3>2. NamesHold'
      BY <3>1 DEF NamesHold, DiskAgrees, InSession
    <3> QED
      BY <2>2, <3>2 DEF InCommand
  <2> QED
    BY <1>18, <2>3, <2>4 DEF RecordView
<1>19. CASE ForgetView
  <2>1. /\ up /\ c \in Name /\ said[c].kind = "unknown" /\ Silent(c)
        /\ reg[c] = "none"
    BY <1>7, <1>19 DEF ForgetView
  <2>2. cmd' = Idle /\ UNCHANGED <<up, file, reg>> /\ rows' = rows \ {c}
    BY <1>19 DEF ForgetView
  <2>3. CASE Say(c, "no view", 0)
    <3>1. /\ said'[c].kind = "no view"
          /\ \A m \in Name : m # c => said'[m] = said[m]
      BY <1>0, <2>1, <2>3, SayFacts DEF Typed
    <3>2. Touches(c)
      BY <2>1, <2>2, <3>1 DEF Touches, Same
    <3>3. DiskAgrees(c)'
      BY <2>1, <2>2, <3>1 DEF DiskAgrees
    <3>4. InSession(c)'
      BY <2>1, <2>2, <3>1 DEF InSession, Silent
    <3> QED
      BY <2>1, <2>2, <3>2, <3>3, <3>4, TouchOne DEF InCommand, Holds
  <2>4. CASE UNCHANGED said
    <3>1. Touches(c)
      BY <2>1, <2>2, <2>4 DEF Touches, Same
    <3>2. Silent(c)'
      BY <2>1, <2>2, <2>4 DEF Silent
    <3> QED
      BY <2>1, <2>2, <3>1, <3>2, SilentHoldsNext, TouchOne DEF InCommand
  <2> QED
    BY <1>19, <2>3, <2>4 DEF ForgetView
<1>20. CASE Crash
  BY <1>20 DEF Crash, InCommand, NamesHold, DiskAgrees
<1>21. CASE Start
  <2>1. UNCHANGED <<cmd, file, rows, said>> /\ ~up /\ up'
    BY <1>21 DEF Start
  <2>2. InCommand'
    BY <2>1 DEF InCommand
  <2>3. ASSUME NEW m \in Name PROVE DiskAgrees(m)' /\ InSession(m)'
    <3>1. DiskAgrees(m)'
      BY <2>1 DEF NamesHold, DiskAgrees
    <3>2. reg'[m] = IF file["public"][m] # Missing THEN "public"
                    ELSE IF m \in rows /\ file["views"][m] \notin {Missing, Torn}
                         THEN "views" ELSE "none"
      BY <1>21 DEF Start, Restorable
    <3>3. DiskAgrees(m)
      BY DEF NamesHold
    <3>4. /\ said'[m] = said[m] /\ file' = file
          /\ m \in rows' <=> m \in rows
          /\ file["public"][m] # Torn /\ said[m].version \in Nat
      BY <1>21, <2>1 DEF Start, Typed, Said
    <3>5. said[m].kind = "view" /\ file["public"][m] = Missing
            => reg'[m] = "views"
      BY <3>2, <3>3, <3>4 DEF DiskAgrees, Missing, Torn
    <3>6. reg'[m] # "none" => file'[reg'[m]][m] # Missing
      BY <3>2, <3>4 DEF Missing
    <3>7. said[m].kind = "table" => reg'[m] = "public"
      BY <3>2, <3>3, <3>4 DEF DiskAgrees, Missing
    <3>8. /\ said[m].kind = "no table" /\ m \notin rows => reg'[m] = "none"
          /\ said[m].kind = "no view" /\ file["public"][m] = Missing
               => reg'[m] = "none"
      BY <3>2, <3>3, <3>4 DEF DiskAgrees
    <3>9. InSession(m)'
      BY <3>4, <3>5, <3>6, <3>7, <3>8 DEF InSession
    <3> QED
      BY <3>1, <3>9
  <2> QED
    BY <2>1, <2>2, <2>3 DEF NamesHold
<1> QED
  BY <1>1, <1>3, <1>4, <1>5, <1>6, <1>11, <1>12, <1>13, <1>15, <1>16, <1>17,
     <1>18, <1>19, <1>20, <1>21 DEF Next, Step

\* The invariant holds in every reachable state.
LEMMA TablesInvariant == Spec => []TablesInv
<1>1. Init => TablesInv
  <2> SUFFICES ASSUME Init PROVE TablesInv
    OBVIOUS
  <2>1. Typed
    BY DEF Init, Typed, Dir, FileState, Missing, Empty, Torn, Said, Unknown
  <2>2. InCommand
    BY DEF Init, InCommand
  <2>3. NamesHold
    BY DEF Init, NamesHold, DiskAgrees, InSession, Unknown
  <2> QED
    BY <2>1, <2>2, <2>3 DEF TablesInv
<1>2. TablesInv /\ [Next]_vars => TablesInv'
  BY TypeStep, NameStep DEF TablesInv
<1> QED
  BY <1>1, <1>2, PTL DEF Spec

-----------------------------------------------------------------------------
(* Theorems. *)

\* Every reachable state has its type.
THEOREM TablesTyped == Spec => []TypeOK
<1>1. TablesInv => TypeOK
  BY TypedType DEF TablesInv
<1> QED
  BY <1>1, TablesInvariant, PTL

\* A registered name has a file (handle_drop_table,
\* handle_drop_materialized_view, register_materialized_views).
THEOREM TableFiles == Spec => []RegisteredHasFile
<1>1. TablesInv => RegisteredHasFile
  BY DEF TablesInv, Typed, NamesHold, InSession, RegisteredHasFile, Content
<1> QED
  BY <1>1, TablesInvariant, PTL

\* What a command answered stands until another one on its name (handle_ctas,
\* the materialized-view handlers, handle_drop_table and the start-up).
THEOREM AnswersStand == Spec => []AckedStands
<1>1. TablesInv => AckedStands
  <2> SUFFICES ASSUME TablesInv, up, NEW n \in Name,
                      NEW now, now = Content(n, reg[n])
               PROVE  /\ said[n].kind = "table" => now = said[n].version
                      /\ said[n].kind = "view" /\ file["public"][n] = Missing
                           => now = said[n].version
                      /\ said[n].kind = "no table" /\ n \notin rows
                           => now = Missing
                      /\ said[n].kind = "no view" /\ file["public"][n] = Missing
                           => now = Missing
    BY DEF AckedStands
  <2> QED
    BY DEF TablesInv, NamesHold, DiskAgrees, InSession, Content
<1> QED
  BY <1>1, TablesInvariant, PTL

-------------------------------------------------------------------------------
\* The export into another PostgreSQL server.

Places == {"waiting", "connect", "schema", "drop", "create", "insert", "done", "failed"}
TargetRows == (Exports \cup {Old}) \X Nat
Targets == [exists : BOOLEAN, rows : SUBSET TargetRows]
ExportRows == [at : Places, mode : {"append", "replace"}, chunks : Nat, written : Nat,
               alone : BOOLEAN, before : SUBSET TargetRows, left : SUBSET TargetRows]

ExportTypeOK ==
    /\ target \in Targets
    /\ export \in [Exports -> ExportRows]
    /\ \A s \in late : s.of \in Exports /\ s.chunk \in Nat

(* How far an export is, by the statement it is at.                        *)
StepOf(x) ==
    /\ x.at = "done" => x.written = x.chunks
    /\ x.at = "insert" => x.written < x.chunks
    /\ x.at \in {"connect", "schema", "drop", "create"} => x.written = 0
    /\ x.at \in {"drop", "create"} => x.mode = "replace"

(* What it should leave, with what of it is written.                       *)
Expected(e, x, n) == RowsFrom(e, n) \cup IF x.mode = "append" THEN x.before ELSE {}
Stands(e, x, there) ==
    /\ x.at \in {"connect", "schema"} => there = x.before
    /\ x.at = "create" => there = {}
    /\ x.at = "insert" => there = Expected(e, x, x.written)

Moving(x) == x.at \notin {"waiting", "done", "failed"}
(* An export that nothing runs beside finds the table as it left it.       *)
AloneStands(ex, lt, there) == \A e \in Exports : Moving(ex[e]) /\ ex[e].alone =>
    /\ \A g \in Exports \ {e} : ~Moving(ex[g])
    /\ \A s \in lt : s.of = e
    /\ Stands(e, ex[e], there)

(* A statement outlives only an export that gave up.                       *)
LateGaveUp(ex, lt) == \A s \in lt : ex[s.of].at = "failed"

Reported(ex) == \A e \in Exports :
    ex[e].at = "done" /\ ex[e].alone => ex[e].left = Expected(e, ex[e], ex[e].chunks)

ExportInv ==
    /\ ExportTypeOK
    /\ \A e \in Exports : StepOf(export[e])
    /\ AloneStands(export, late, target.rows)
    /\ LateGaveUp(export, late)
    /\ Reported(export)

\* One more statement, one more row of the export's own.
LEMMA OneMoreRow ==
    /\ \A e : RowsFrom(e, 0) = {}
    /\ \A e, n : n \in Nat => RowsFrom(e, n + 1) = RowsFrom(e, n) \cup {<<e, n + 1>>}
<1>1. \A e : RowsFrom(e, 0) = {}
  BY DEF RowsFrom
<1>2. ASSUME NEW e, NEW n \in Nat
      PROVE  RowsFrom(e, n + 1) = RowsFrom(e, n) \cup {<<e, n + 1>>}
  <2>1. 1 .. (n + 1) = (1 .. n) \cup {n + 1}
    OBVIOUS
  <2> QED
    BY <2>1 DEF RowsFrom
<1> QED
  BY <1>1, <1>2

\* The rows are those of the exports, or the old ones.
LEMMA RowsTyped == \A e \in Exports \cup {Old}, n \in Nat : RowsFrom(e, n) \subseteq TargetRows
  BY DEF RowsFrom, TargetRows

\* What the other server makes of a statement is a table.
LEMMA EffectTyped ==
    ASSUME ExportTypeOK, NEW s, s.of \in Exports, s.chunk \in Nat
    PROVE  /\ Effect(s) \in Targets
           /\ s.kind \in {"connect", "schema"} => Effect(s).rows = target.rows
           /\ s.kind \in {"drop", "create"} => Effect(s).rows = {}
           /\ s.kind = "insert" => Effect(s).rows = target.rows \cup {<<s.of, s.chunk>>}
<1>1. target \in Targets /\ target.rows \subseteq TargetRows
  BY DEF ExportTypeOK, Targets
<1>2. <<s.of, s.chunk>> \in TargetRows
  BY DEF TargetRows
<1>3. CASE s.kind = "drop"
  BY <1>3 DEF Effect, Targets
<1>4. CASE s.kind = "create"
  BY <1>4 DEF Effect, Targets
<1>5. CASE s.kind = "insert"
  <2>1. Effect(s) = [target EXCEPT !.rows = target.rows \cup {<<s.of, s.chunk>>}]
    BY <1>5 DEF Effect
  <2>2. target.rows \cup {<<s.of, s.chunk>>} \in SUBSET TargetRows
    BY <1>1, <1>2
  <2>3. Effect(s) \in Targets
    BY <2>1, <2>2, <1>1 DEF Targets
  <2>4. Effect(s).rows = target.rows \cup {<<s.of, s.chunk>>}
    BY <2>1, <1>1 DEF Targets
  <2> QED
    BY <2>3, <2>4, <1>5
<1>6. CASE s.kind \notin {"drop", "create", "insert"}
  <2>1. Effect(s) = target
    BY <1>6 DEF Effect
  <2> QED
    BY <2>1, <1>1, <1>6
<1> QED
  BY <1>3, <1>4, <1>5, <1>6

\* Running, in the terms of the proof.
LEMMA RunningMoves == \A e \in Exports : Running(e) <=> Moving(export[e])
  BY DEF Running, Moving

\* An export that is alone and runs is the only one that can change the table.
LEMMA OnlyOne ==
    ASSUME ExportInv, NEW e \in Exports, NEW g \in Exports, Moving(export[e]),
           Moving(export[g]), export[g].alone
    PROVE  e = g
  BY DEF ExportInv, AloneStands

\* A new export takes the place of one that ran alone, and of none that ended.
LEMMA ExportStarts ==
    ASSUME ExportInv, NEW e \in Exports, NEW mode \in {"append", "replace"}, NEW n \in Nat,
           StartExport(e, mode, n)
    PROVE  ExportInv'
<1> DEFINE beside == \A g \in Exports \ {e} : ~Busy(g)
           new == [at |-> "connect", mode |-> mode, chunks |-> n, written |-> 0,
                   alone |-> beside, before |-> target.rows, left |-> {}]
           old(f) == [export[f] EXCEPT !.alone = export[f].alone /\ ~Running(f)]
<1>1. ExportTypeOK /\ export[e].at = "waiting" /\ UNCHANGED <<target, late>>
  BY DEF ExportInv, StartExport
<1>2. export' = [f \in Exports |-> IF f = e THEN new ELSE old(f)]
  BY DEF StartExport
<1>3. target.rows \in SUBSET TargetRows
  BY <1>1 DEF ExportTypeOK, Targets
<1>4. beside \in BOOLEAN
  OBVIOUS
<1>6. /\ new \in ExportRows /\ new.at = "connect" /\ new.written = 0
      /\ new.alone = beside /\ new.before = target.rows
  <2> HIDE DEF beside
  <2> QED
    BY <1>3, <1>4 DEF ExportRows, Places
<1> HIDE DEF new
<1>7. ASSUME NEW f \in Exports
      PROVE  /\ old(f) \in ExportRows
             /\ old(f).at = export[f].at /\ old(f).mode = export[f].mode
             /\ old(f).chunks = export[f].chunks /\ old(f).written = export[f].written
             /\ old(f).before = export[f].before /\ old(f).left = export[f].left
             /\ old(f).alone <=> export[f].alone /\ ~Running(f)
  <2>1. export[f] \in ExportRows /\ (export[f].alone /\ ~Running(f)) \in BOOLEAN
    BY <1>1 DEF ExportTypeOK
  <2>2. old(f) \in ExportRows
    BY <2>1 DEF ExportRows
  <2> QED
    BY <2>1, <2>2 DEF ExportRows
<1> HIDE DEF old
<1>8. \A f \in Exports : export'[f] = IF f = e THEN new ELSE old(f)
  BY <1>2
<1>9. \A f \in Exports : f # e => ~(Moving(export'[f]) /\ export'[f].alone)
  BY <1>7, <1>8, RunningMoves DEF Moving
<1>10. ExportTypeOK'
  <2>1. export' \in [Exports -> ExportRows]
    BY <1>2, <1>6, <1>7
  <2> QED
    BY <1>1, <2>1 DEF ExportTypeOK
<1>11. \A f \in Exports : StepOf(export'[f])
  <2>1. \A f \in Exports : StepOf(export[f])
    BY DEF ExportInv
  <2> QED
    BY <2>1, <1>6, <1>7, <1>8 DEF StepOf
<1>12. AloneStands(export', late, target.rows)
  <2>1. ASSUME beside, NEW g \in Exports \ {e} PROVE ~Moving(export'[g])
    BY <2>1, <1>7, <1>8, RunningMoves DEF Busy, Moving
  <2>2. ASSUME beside, NEW s \in late PROVE s.of = e
    BY <2>2, <1>1 DEF Busy, ExportTypeOK
  <2>3. Stands(e, new, target.rows)
    BY <1>6 DEF Stands
  <2> QED
    BY <2>1, <2>2, <2>3, <1>6, <1>8, <1>9 DEF AloneStands
<1>13. LateGaveUp(export', late)
  <2>1. \A s \in late : s.of \in Exports /\ s.of # e /\ export[s.of].at = "failed"
    BY <1>1 DEF ExportInv, LateGaveUp, ExportTypeOK
  <2> QED
    BY <2>1, <1>7, <1>8 DEF LateGaveUp
<1>14. Reported(export')
  <2>1. ASSUME NEW f \in Exports, export'[f].at = "done", export'[f].alone
        PROVE  export'[f].left = Expected(f, export'[f], export'[f].chunks)
    <3>1. f # e /\ export'[f] = old(f)
      BY <2>1, <1>6, <1>8
    <3>2. export[f].at = "done" /\ export[f].alone
      BY <2>1, <3>1, <1>7
    <3>3. export[f].left = Expected(f, export[f], export[f].chunks)
      BY <3>2 DEF ExportInv, Reported
    <3> QED
      BY <3>1, <3>3, <1>7 DEF Expected
  <2> QED
    BY <2>1 DEF Reported
<1> QED
  BY <1>1, <1>10, <1>11, <1>12, <1>13, <1>14 DEF ExportInv

\* One export goes on to x, and the table to rows: nobody else who is alone is
\* running.
LEMMA ExportGoesOn ==
    ASSUME ExportInv, NEW e \in Exports, Moving(export[e]), NEW x \in ExportRows,
           export' = [export EXCEPT ![e] = x], target' \in Targets,
           StepOf(x), x.alone = export[e].alone,
           \A s \in late' : s \in late \/ (s.of = e /\ s.chunk \in Nat /\ x.at = "failed"),
           Moving(x) /\ x.alone => Stands(e, x, target'.rows),
           x.at = "done" /\ x.alone => x.left = Expected(e, x, x.chunks)
    PROVE  ExportInv'
<1>1. ExportTypeOK
  BY DEF ExportInv
<1>2. \A f \in Exports : export'[f] = IF f = e THEN x ELSE export[f]
  BY <1>1 DEF ExportTypeOK
<1>3. ExportTypeOK'
  <2>1. export' \in [Exports -> ExportRows]
    BY <1>1 DEF ExportTypeOK
  <2>2. \A s \in late' : s.of \in Exports /\ s.chunk \in Nat
    BY <1>1 DEF ExportTypeOK
  <2> QED
    BY <2>1, <2>2 DEF ExportTypeOK
<1>4. \A f \in Exports : StepOf(export'[f])
  BY <1>2 DEF ExportInv
<1>5. AloneStands(export', late', target'.rows)
  <2> SUFFICES ASSUME NEW f \in Exports, Moving(export'[f]), export'[f].alone
               PROVE  /\ \A g \in Exports \ {f} : ~Moving(export'[g])
                      /\ \A s \in late' : s.of = f
                      /\ Stands(f, export'[f], target'.rows)
    BY DEF AloneStands
  <2>1. f = e
    <3>1. CASE f # e
      BY <3>1, <1>2, OnlyOne
    <3> QED
      BY <3>1
  <2>2. export'[f] = x /\ export[e].alone
    BY <2>1, <1>2
  <2>3. \A g \in Exports \ {e} : ~Moving(export[g])
    BY <2>2 DEF ExportInv, AloneStands
  <2>4. \A s \in late : s.of = e
    BY <2>2 DEF ExportInv, AloneStands
  <2> QED
    BY <2>1, <2>2, <2>3, <2>4, <1>2
<1>6. LateGaveUp(export', late')
  <2> SUFFICES ASSUME NEW s \in late' PROVE export'[s.of].at = "failed"
    BY DEF LateGaveUp
  <2>1. CASE s \in late
    <3>1. s.of \in Exports /\ export[s.of].at = "failed"
      BY <2>1, <1>1 DEF ExportInv, LateGaveUp, ExportTypeOK
    <3>2. s.of # e
      BY <3>1 DEF Moving
    <3> QED
      BY <3>1, <3>2, <1>2
  <2>2. CASE s.of = e /\ x.at = "failed"
    BY <2>2, <1>2
  <2> QED
    BY <2>1, <2>2
<1>7. Reported(export')
  BY <1>2 DEF ExportInv, Reported
<1> QED
  BY <1>3, <1>4, <1>5, <1>6, <1>7 DEF ExportInv

\* The connection fails, or the answer does not come in time.
LEMMA ExportGivesUp ==
    ASSUME ExportInv, NEW e \in Exports, GivesUp(e),
           late' = late \/ late' = late \cup {Statement(e)}
    PROVE  ExportInv'
<1> DEFINE x == [export[e] EXCEPT !.at = "failed"]
<1>1. ExportTypeOK /\ Moving(export[e]) /\ target' = target
      /\ export' = [export EXCEPT ![e].at = "failed"]
  BY RunningMoves DEF ExportInv, GivesUp
<1>2. export[e] \in ExportRows
  BY <1>1 DEF ExportTypeOK
<1>3. x \in ExportRows
  BY <1>2 DEF ExportRows, Places
<1>4. x.at = "failed" /\ x.alone = export[e].alone
  BY <1>2 DEF ExportRows
<1>5. export' = [export EXCEPT ![e] = x]
  BY <1>1
<1> HIDE DEF x
<1>6. StepOf(x) /\ ~Moving(x)
  BY <1>4 DEF StepOf, Moving
<1>7. Statement(e).of = e /\ Statement(e).chunk \in Nat
  BY <1>2 DEF Statement, ExportRows
<1>8. target' \in Targets
  BY <1>1 DEF ExportTypeOK
<1> QED
  BY <1>1, <1>3, <1>4, <1>5, <1>6, <1>7, <1>8, ExportGoesOn

\* A statement that lands late finds nobody who is alone.
LEMMA LateLands ==
    ASSUME ExportInv, NEW s \in late, StatementLands(s)
    PROVE  ExportInv'
<1>1. ExportTypeOK /\ late' = late \ {s} /\ export' = export
      /\ target' = IF Succeeds(s) THEN Effect(s) ELSE target
  BY DEF ExportInv, StatementLands
<1>2. s.of \in Exports /\ s.chunk \in Nat /\ export[s.of].at = "failed"
  BY <1>1 DEF ExportInv, LateGaveUp, ExportTypeOK
<1>3. target' \in Targets
  BY <1>1, <1>2, EffectTyped DEF ExportTypeOK
<1>4. ASSUME NEW e \in Exports, Moving(export[e]), export[e].alone PROVE FALSE
  <2>1. s.of = e
    BY <1>4 DEF ExportInv, AloneStands
  <2> QED
    BY <2>1, <1>2, <1>4 DEF Moving
<1>5. AloneStands(export', late', target'.rows)
  BY <1>1, <1>4 DEF AloneStands
<1>6. ExportTypeOK'
  BY <1>1, <1>3 DEF ExportTypeOK
<1> QED
  BY <1>1, <1>5, <1>6 DEF ExportInv, LateGaveUp

\* A statement is executed or refused: the export goes on as its kind says.
LEMMA ExportExecutes ==
    ASSUME ExportInv, NEW e \in Exports, ExecuteStatement(e)
    PROVE  ExportInv'
<1> DEFINE s == Statement(e)
           x == export[e]
           written == x.written + IF x.at = "insert" THEN 1 ELSE 0
           at == IF Succeeds(s) THEN FollowedBy(x.at, x.mode, written < x.chunks) ELSE "failed"
           kept == IF Succeeds(s) THEN written ELSE x.written
           left == IF at = "done" THEN target'.rows ELSE x.left
           y == [x EXCEPT !.at = at, !.written = kept, !.left = left]
<1>1. /\ ExportTypeOK /\ Moving(x) /\ StepOf(x) /\ x \in ExportRows
      /\ target' = (IF Succeeds(s) THEN Effect(s) ELSE target) /\ late' = late
  BY RunningMoves DEF ExportInv, ExecuteStatement, ExportTypeOK
<1>2. export' = [export EXCEPT ![e] = y]
  BY DEF ExecuteStatement
<1>3. s.of = e /\ s.kind = x.at /\ s.chunk = x.written + 1
  BY DEF Statement
<1>4. x.written \in Nat /\ x.chunks \in Nat /\ x.mode \in {"append", "replace"}
      /\ x.left \in SUBSET TargetRows /\ x.before \in SUBSET TargetRows
      /\ x.at \in {"connect", "schema", "drop", "create", "insert"}
  BY <1>1 DEF ExportRows, Places, Moving
<1>5. /\ Effect(s) \in Targets
      /\ x.at \in {"connect", "schema"} => Effect(s).rows = target.rows
      /\ x.at \in {"drop", "create"} => Effect(s).rows = {}
      /\ x.at = "insert" => Effect(s).rows = target.rows \cup {<<e, x.written + 1>>}
  BY <1>1, <1>3, <1>4, EffectTyped
<1>6. target' \in Targets /\ target'.rows \in SUBSET TargetRows
  BY <1>1, <1>5 DEF ExportTypeOK, Targets
<1>7. written \in Nat /\ (x.at = "insert" => written = x.written + 1)
      /\ (x.at # "insert" => written = x.written)
  BY <1>4
<1>8. kept \in Nat
  BY <1>4, <1>7
<1>9. left \in SUBSET TargetRows
  BY <1>4, <1>6
<1> HIDE DEF s, written
<1>10. at \in {"schema", "drop", "create", "insert", "done", "failed"}
  BY <1>4 DEF FollowedBy
<1>11. /\ at \in {"schema", "drop", "create", "insert", "done"} => Succeeds(s) /\ kept = written
                /\ target' = Effect(s)
       /\ at = "schema" => x.at = "connect"
       /\ at = "drop" => x.at = "schema" /\ x.mode = "replace"
       /\ at = "create" => x.at = "drop"
       /\ at = "insert" => /\ x.at \in {"create", "insert"} \/ (x.at = "schema" /\ x.mode = "append")
                           /\ written < x.chunks
       /\ at = "done" => /\ x.at \in {"create", "insert"} \/ (x.at = "schema" /\ x.mode = "append")
                         /\ ~(written < x.chunks)
  <2>1. CASE ~Succeeds(s)
    BY <2>1
  <2>2. CASE Succeeds(s)
    <3>1. at = FollowedBy(x.at, x.mode, written < x.chunks) /\ kept = written /\ target' = Effect(s)
      BY <2>2, <1>1
    <3>2. CASE x.at = "connect"
      BY <2>2, <3>1, <3>2 DEF FollowedBy
    <3>3. CASE x.at = "schema"
      BY <2>2, <3>1, <3>3, <1>4 DEF FollowedBy
    <3>4. CASE x.at = "drop"
      BY <2>2, <3>1, <3>4 DEF FollowedBy
    <3>5. CASE x.at \in {"create", "insert"}
      BY <2>2, <3>1, <3>5 DEF FollowedBy
    <3> QED
      BY <3>2, <3>3, <3>4, <3>5, <1>4
  <2> QED
    BY <2>1, <2>2
<1>12. at = "done" => left = target'.rows
  OBVIOUS
<1> HIDE DEF at, kept, left
<1>13. y \in ExportRows
  BY <1>1, <1>8, <1>9, <1>10 DEF ExportRows, Places
<1>14. /\ y.at = at /\ y.written = kept /\ y.left = left
       /\ y.mode = x.mode /\ y.chunks = x.chunks /\ y.before = x.before
  BY <1>1 DEF ExportRows
<1>15. y.alone = x.alone
  BY <1>1 DEF ExportRows
<1> HIDE DEF y
<1>16. x.at # "insert" => x.written = 0
  BY <1>1, <1>4 DEF StepOf
<1>17. x.at = "insert" => x.written < x.chunks
  BY <1>1 DEF StepOf
<1>18. StepOf(y)
  <2>1. at = "done" => kept = x.chunks
    <3>1. ASSUME at = "done" PROVE kept = x.chunks
      <4>1. kept = written /\ ~(written < x.chunks)
        BY <3>1, <1>11
      <4>2. CASE x.at = "insert"
        BY <4>1, <4>2, <1>4, <1>7, <1>17
      <4>3. CASE x.at # "insert" /\ x.chunks = 0
        BY <4>1, <4>3, <1>7, <1>16
      <4>4. CASE x.at # "insert" /\ x.chunks # 0
        BY <4>1, <4>4, <1>4, <1>7, <1>16
      <4> QED
        BY <4>2, <4>3, <4>4
    <3> QED
      BY <3>1
  <2>2. at = "insert" => kept < x.chunks
    BY <1>11
  <2>3. at \in {"connect", "schema", "drop", "create"} => kept = 0
    BY <1>10, <1>11, <1>7, <1>16
  <2>4. at \in {"drop", "create"} => x.mode = "replace"
    <3>1. x.at = "drop" => x.mode = "replace"
      BY <1>1 DEF StepOf
    <3> QED
      BY <3>1, <1>11
  <2> QED
    BY <2>1, <2>2, <2>3, <2>4, <1>14 DEF StepOf
<1>19. ASSUME x.alone PROVE Stands(e, x, target.rows)
  BY <1>1, <1>19 DEF ExportInv, AloneStands
<1>20. Expected(e, y, kept) = Expected(e, x, kept)
  BY <1>14 DEF Expected
<1>21. ASSUME x.alone, at \in {"insert", "done"} PROVE target'.rows = Expected(e, x, kept)
  <2>1. kept = written /\ target' = Effect(s)
    BY <1>11, <1>21
  <2>2. x.at \in {"create", "insert"} \/ (x.at = "schema" /\ x.mode = "append")
    BY <1>11, <1>21
  <2>3. CASE x.at = "create"
    <3>1. kept = 0 /\ target'.rows = {} /\ x.mode = "replace"
      BY <2>1, <2>3, <1>1, <1>5, <1>7, <1>16 DEF StepOf
    <3> QED
      BY <3>1, OneMoreRow DEF Expected
  <2>4. CASE x.at = "schema" /\ x.mode = "append"
    <3>1. kept = 0 /\ target'.rows = x.before
      BY <2>1, <2>4, <1>5, <1>7, <1>16, <1>19, <1>21 DEF Stands
    <3> QED
      BY <3>1, <2>4, OneMoreRow DEF Expected
  <2>5. CASE x.at = "insert"
    <3>1. target.rows = Expected(e, x, x.written)
      BY <2>5, <1>19, <1>21 DEF Stands
    <3>2. kept = x.written + 1 /\ target'.rows = target.rows \cup {<<e, x.written + 1>>}
      BY <2>1, <2>5, <1>5, <1>7
    <3>3. RowsFrom(e, kept) = RowsFrom(e, x.written) \cup {<<e, x.written + 1>>}
      BY <3>2, <1>4, OneMoreRow
    <3> QED
      BY <3>1, <3>2, <3>3 DEF Expected
  <2> QED
    BY <2>2, <2>3, <2>4, <2>5
<1>22. ASSUME Moving(y), y.alone PROVE Stands(e, y, target'.rows)
  <2>1. at \in {"schema", "drop", "create", "insert"}
    BY <1>10, <1>14, <1>22 DEF Moving
  <2>2. CASE at = "schema"
    <3>1. target'.rows = target.rows /\ target.rows = x.before
      BY <2>2, <1>5, <1>11, <1>15, <1>19, <1>22 DEF Stands
    <3> QED
      BY <3>1, <2>2, <1>14 DEF Stands
  <2>3. CASE at = "drop"
    BY <2>3, <1>14 DEF Stands
  <2>4. CASE at = "create"
    <3>1. target'.rows = {}
      BY <2>4, <1>5, <1>11
    <3> QED
      BY <3>1, <2>4, <1>14 DEF Stands
  <2>5. CASE at = "insert"
    BY <2>5, <1>14, <1>15, <1>20, <1>21, <1>22 DEF Stands
  <2> QED
    BY <2>1, <2>2, <2>3, <2>4, <2>5
<1>23. ASSUME y.at = "done", y.alone PROVE y.left = Expected(e, y, y.chunks)
  <2>1. left = Expected(e, x, kept)
    BY <1>12, <1>14, <1>15, <1>21, <1>23
  <2>2. kept = y.chunks
    BY <1>14, <1>18, <1>23 DEF StepOf
  <2> QED
    BY <2>1, <2>2, <1>14, <1>20
<1> QED
  BY <1>1, <1>2, <1>6, <1>13, <1>15, <1>18, <1>22, <1>23, ExportGoesOn

(* ExportExact, for any number of exports and of errors and timeouts: an   *)
(* export that reports success has inserted all its chunks, and one that   *)
(* no other export, and no statement that outlived one, ran beside leaves  *)
(* exactly its rows, or the earlier ones and its own (pg_sink.rs load).    *)
THEOREM ExportsExact == ExportSpec => []ExportExact
<1>1. ExportInit => ExportInv
  <2> SUFFICES ASSUME ExportInit PROVE ExportInv
    OBVIOUS
  <2>1. target \in Targets
    <3>1. RowsFrom(Old, 1) \in SUBSET TargetRows /\ {} \in SUBSET TargetRows
      BY RowsTyped
    <3>2. [exists |-> TRUE, rows |-> RowsFrom(Old, 1)] \in Targets
      BY <3>1 DEF Targets
    <3>3. [exists |-> FALSE, rows |-> {}] \in Targets
      BY <3>1 DEF Targets
    <3> QED
      BY <3>2, <3>3 DEF ExportInit
  <2>2. NotStarted \in ExportRows /\ NotStarted.at = "waiting"
    BY DEF NotStarted, ExportRows, Places
  <2>3. export \in [Exports -> ExportRows] /\ late = {}
        /\ \A e \in Exports : export[e].at = "waiting"
    BY <2>2 DEF ExportInit
  <2>4. \A e \in Exports : StepOf(export[e]) /\ ~Moving(export[e])
    BY <2>3 DEF StepOf, Moving
  <2> QED
    BY <2>1, <2>3, <2>4 DEF ExportInv, ExportTypeOK, AloneStands, LateGaveUp, Reported
<1>2. ExportInv /\ [ExportNext]_exportVars => ExportInv'
  <2> SUFFICES ASSUME ExportInv, [ExportNext]_exportVars PROVE ExportInv'
    OBVIOUS
  <2>1. ASSUME NEW e \in Exports, NEW mode \in {"append", "replace"}, NEW n \in 0 .. 2,
               StartExport(e, mode, n)
        PROVE  ExportInv'
    BY <2>1, ExportStarts
  <2>2. ASSUME NEW e \in Exports, ExecuteStatement(e) PROVE ExportInv'
    BY <2>2, ExportExecutes
  <2>3. ASSUME NEW e \in Exports, ConnectionFails(e) \/ TimesOutInLoad(e) PROVE ExportInv'
    BY <2>3, ExportGivesUp DEF ConnectionFails, TimesOutInLoad
  <2>4. ASSUME NEW s \in late, StatementLands(s) PROVE ExportInv'
    BY <2>4, LateLands
  <2>5. CASE UNCHANGED exportVars
    BY <2>5 DEF exportVars, ExportInv, ExportTypeOK, AloneStands, LateGaveUp, Reported
  <2> QED
    BY <2>1, <2>2, <2>3, <2>4, <2>5 DEF ExportNext
<1>3. ExportInv => ExportExact
  BY DEF ExportInv, StepOf, Reported, Expected, ExportExact
<1> QED
  BY <1>1, <1>2, <1>3, PTL DEF ExportSpec

-------------------------------------------------------------------------------
\* The sample datasets.

\* How many tables a dataset has, whatever its scale.
TableCount(d) == CASE d = "tpch" -> 8
                   [] d \in {"banking", "telecom"} -> 6
                   [] d \in {"cli-telecom", "cli-banking"} -> 3

\* Each reference of the tables ts names one of them, and holds keys of it.
TablesJoined(ts, n) ==
    \A k \in 1 .. n : \A r \in ts[k].refs :
        /\ \E j \in 1 .. n : ts[j].name = r.to
        /\ \A j \in 1 .. n : ts[j].name = r.to => r.keys \subseteq ts[j].keys

\* Every part's supplier is one of the suppliers.
LEMMA SupplierInRange ==
    ASSUME NEW p \in Nat, NEW j \in Nat, NEW suppliers \in Nat, suppliers > 0
    PROVE  PartSupplier(p, j, suppliers) \in 1 .. suppliers
<1>1. (p - 1) \div suppliers \in Int /\ suppliers \div 4 \in Int
  OBVIOUS
<1>2. p + j * (suppliers \div 4 + (p - 1) \div suppliers) \in Int
  BY <1>1
<1>3. \A x \in Int : (x % suppliers) \in 0 .. (suppliers - 1)
  OBVIOUS
<1> QED
  BY <1>2, <1>3 DEF PartSupplier

\* The tables of TPC-H, one by one.
LEMMA TpchTables ==
    ASSUME NEW s \in Nat
    PROVE  /\ Len(Tpch(s)) = 8
           /\ Tpch(s)[1] = Region /\ Tpch(s)[2] = Nation /\ Tpch(s)[3] = Supplier(s)
           /\ Tpch(s)[4] = Customer(s) /\ Tpch(s)[5] = Part(s) /\ Tpch(s)[6] = PartSupp(s)
           /\ Tpch(s)[7] = OrderTables(s)[1] /\ Tpch(s)[8] = OrderTables(s)[2]
<1> DEFINE six == <<Region, Nation, Supplier(s), Customer(s), Part(s), PartSupp(s)>>
           two == OrderTables(s)
           all == {Region, Nation, Supplier(s), Customer(s), Part(s), PartSupp(s), two[1], two[2]}
<1>1. /\ six \in Seq(all) /\ Len(six) = 6
      /\ six[1] = Region /\ six[2] = Nation /\ six[3] = Supplier(s)
      /\ six[4] = Customer(s) /\ six[5] = Part(s) /\ six[6] = PartSupp(s)
  OBVIOUS
<1>2. two \in Seq(all) /\ Len(two) = 2
  BY DEF OrderTables
<1>3. Tpch(s) = six \o two
  BY DEF Tpch
<1> HIDE DEF six, two, all
<1>4. /\ Len(six \o two) = 8
      /\ \A i \in 1 .. 8 : (six \o two)[i] = IF i <= 6 THEN six[i] ELSE two[i - 6]
  <2>1. /\ Len(six \o two) = Len(six) + Len(two)
        /\ \A i \in 1 .. Len(six) + Len(two) :
               (six \o two)[i] = IF i <= Len(six) THEN six[i] ELSE two[i - Len(six)]
    BY ONLY <1>1, <1>2, ConcatProperties, Zenon
  <2>2. Len(six) + Len(two) = 8
    BY <1>1, <1>2
  <2> QED
    BY <2>1, <2>2, <1>1
<1>5. ASSUME NEW i \in 1 .. 6 PROVE Tpch(s)[i] = six[i]
  <2>1. i \in 1 .. 8 /\ i <= 6
    OBVIOUS
  <2>2. (six \o two)[i] = six[i]
    BY <2>1, <1>4
  <2> QED
    BY <2>2, <1>3, Zenon
<1>6. Tpch(s)[7] = two[1] /\ Tpch(s)[8] = two[2]
  <2>1. 7 \in 1 .. 8 /\ 8 \in 1 .. 8 /\ ~(7 <= 6) /\ ~(8 <= 6) /\ 7 - 6 = 1 /\ 8 - 6 = 2
    OBVIOUS
  <2> QED
    BY <2>1, <1>3, <1>4
<1>7. two = OrderTables(s)
  BY DEF two
<1>8. /\ Tpch(s)[1] = six[1] /\ Tpch(s)[2] = six[2] /\ Tpch(s)[3] = six[3]
      /\ Tpch(s)[4] = six[4] /\ Tpch(s)[5] = six[5] /\ Tpch(s)[6] = six[6]
  BY <1>5
<1>9. Len(Tpch(s)) = 8
  BY <1>3, <1>4
<1> QED
  BY <1>1, <1>6, <1>7, <1>8, <1>9

\* What a table and a reference are made of.
LEMMA TableFields ==
    /\ \A name, keys, refs : /\ Table(name, keys, refs).name = name
                             /\ Table(name, keys, refs).keys = keys
                             /\ Table(name, keys, refs).refs = refs
    /\ \A to, keys : Ref(to, keys).to = to /\ Ref(to, keys).keys = keys
  BY DEF Table, Ref

\* Among tables that are called apart it is enough to find the one meant.
LEMMA JoinedByName ==
    ASSUME NEW ts, NEW n \in Nat,
           \A i, j \in 1 .. n : ts[i].name = ts[j].name => i = j,
           \A k \in 1 .. n : \A r \in ts[k].refs :
               \E j \in 1 .. n : ts[j].name = r.to /\ r.keys \subseteq ts[j].keys
    PROVE  TablesJoined(ts, n)
<1> SUFFICES ASSUME NEW k \in 1 .. n, NEW r \in ts[k].refs
             PROVE  /\ \E j \in 1 .. n : ts[j].name = r.to
                    /\ \A j \in 1 .. n : ts[j].name = r.to => r.keys \subseteq ts[j].keys
  BY Zenon DEF TablesJoined
<1>1. PICK j \in 1 .. n : ts[j].name = r.to /\ r.keys \subseteq ts[j].keys
  OBVIOUS
<1>2. \A i \in 1 .. n : ts[i].name = r.to => i = j
  BY <1>1
<1> QED
  BY <1>1, <1>2

\* The TPC-H tables join at every scale.
LEMMA TpchJoins ==
    ASSUME NEW s \in Nat
    PROVE  TablesJoined(Tpch(s), 8)
<1> DEFINE ts == Tpch(s)
           sold == {PartSupplier(p, j, Suppliers(s)) : p \in 1 .. Parts(s), j \in 0 .. 3}
<1>1. ts[1].name = "region" /\ ts[1].keys = 0 .. 4 /\ ts[1].refs = {}
  <2>1. ts[1] = Table("region", 0 .. 4, {})
    BY TpchTables, Zenon DEF Region
  <2> QED
    BY ONLY <2>1, TableFields
<1>2. ts[2].name = "nation" /\ ts[2].keys = 0 .. 24 /\ ts[2].refs = {Ref("region", 0 .. 4)}
  <2>1. ts[2] = Table("nation", 0 .. 24, {Ref("region", 0 .. 4)})
    BY TpchTables, Zenon DEF Nation
  <2> QED
    BY ONLY <2>1, TableFields
<1>3. ts[3].name = "supplier" /\ ts[3].keys = 1 .. Suppliers(s) /\ ts[3].refs = {Ref("nation", 0 .. 24)}
  <2>1. ts[3] = Table("supplier", 1 .. Suppliers(s), {Ref("nation", 0 .. 24)})
    BY TpchTables, Zenon DEF Supplier
  <2> QED
    BY ONLY <2>1, TableFields
<1>4. ts[4].name = "customer" /\ ts[4].keys = 1 .. Customers(s) /\ ts[4].refs = {Ref("nation", 0 .. 24)}
  <2>1. ts[4] = Table("customer", 1 .. Customers(s), {Ref("nation", 0 .. 24)})
    BY TpchTables, Zenon DEF Customer
  <2> QED
    BY ONLY <2>1, TableFields
<1>5. ts[5].name = "part" /\ ts[5].keys = 1 .. Parts(s) /\ ts[5].refs = {}
  <2>1. ts[5] = Table("part", 1 .. Parts(s), {})
    BY TpchTables, Zenon DEF Part
  <2> QED
    BY ONLY <2>1, TableFields
<1>6. /\ ts[6].name = "partsupp" /\ ts[6].keys = {}
      /\ ts[6].refs = {Ref("part", 1 .. Parts(s)), Ref("supplier", sold)}
  <2>1. ts[6] = PartSupp(s)
    BY TpchTables
  <2>2. ts[6] = Table("partsupp", {}, {Ref("part", 1 .. Parts(s)), Ref("supplier", sold)})
    BY <2>1 DEF PartSupp
  <2> HIDE DEF sold
  <2> QED
    BY ONLY <2>2, TableFields
<1>7. /\ ts[7].name = "orders" /\ ts[7].keys = 1 .. Orders(s)
      /\ ts[7].refs = {Ref("customer", 1 .. Customers(s))}
  <2>1. ts[7] = OrderTables(s)[1]
    BY TpchTables
  <2>2. ts[7] = Table("orders", 1 .. Orders(s), {Ref("customer", 1 .. Customers(s))})
    BY <2>1 DEF OrderTables
  <2> QED
    BY ONLY <2>2, TableFields
<1>8. /\ ts[8].name = "lineitem" /\ ts[8].keys = {}
      /\ ts[8].refs = {Ref("orders", 1 .. Orders(s)), Ref("part", 1 .. Parts(s)),
                       Ref("supplier", 1 .. Suppliers(s))}
  <2>1. ts[8] = OrderTables(s)[2]
    BY TpchTables
  <2>2. ts[8] = Table("lineitem", {}, {Ref("orders", 1 .. Orders(s)),
                        Ref("part", 1 .. Parts(s)), Ref("supplier", 1 .. Suppliers(s))})
    BY <2>1 DEF OrderTables
  <2> QED
    BY ONLY <2>2, TableFields
<1>9. sold \subseteq 1 .. Suppliers(s)
  <2>1. Suppliers(s) \in Nat /\ Suppliers(s) > 0
    <3>1. (100 * s) \div 1000 \in Int
      OBVIOUS
    <3> QED
      BY <3>1 DEF Suppliers, AtLeast
  <2>3. Parts(s) \in Nat
    BY DEF Parts, AtLeast
  <2> HIDE DEF sold
  <2>2. ASSUME NEW p \in 1 .. Parts(s), NEW j \in 0 .. 3
        PROVE  PartSupplier(p, j, Suppliers(s)) \in 1 .. Suppliers(s)
    <3>1. p \in Nat /\ j \in Nat
      BY <2>3
    <3> QED
      BY <3>1, <2>1, SupplierInRange, Zenon
  <2> QED
    BY <2>2 DEF sold
<1> HIDE DEF ts, sold
<1>10. \A i, j \in 1 .. 8 : ts[i].name = ts[j].name => i = j
  <2> SUFFICES ASSUME NEW i \in 1 .. 8, NEW j \in 1 .. 8, ts[i].name = ts[j].name
               PROVE  i = j
    OBVIOUS
  <2>1. \A l \in 1 .. 8 : l \in {1, 2, 3, 4, 5, 6, 7, 8}
    OBVIOUS
  <2>2. /\ ts[1].name = "region" /\ ts[2].name = "nation" /\ ts[3].name = "supplier"
        /\ ts[4].name = "customer" /\ ts[5].name = "part" /\ ts[6].name = "partsupp"
        /\ ts[7].name = "orders" /\ ts[8].name = "lineitem"
    BY <1>1, <1>2, <1>3, <1>4, <1>5, <1>6, <1>7, <1>8, Zenon
  <2> QED
    BY <2>1, <2>2
<1>11. ASSUME NEW k \in 1 .. 8, NEW r \in ts[k].refs
       PROVE  \E j \in 1 .. 8 : ts[j].name = r.to /\ r.keys \subseteq ts[j].keys
  <2>1. \/ r \in {Ref("region", 0 .. 4)} \/ r \in {Ref("nation", 0 .. 24)}
        \/ r \in {Ref("customer", 1 .. Customers(s))} \/ r \in {Ref("orders", 1 .. Orders(s))}
        \/ r \in {Ref("part", 1 .. Parts(s))} \/ r \in {Ref("supplier", sold)}
        \/ r \in {Ref("supplier", 1 .. Suppliers(s))}
    <3>1. k \in {1, 2, 3, 4, 5, 6, 7, 8}
      OBVIOUS
    <3> QED
      BY <3>1, <1>1, <1>2, <1>3, <1>4, <1>5, <1>6, <1>7, <1>8, Zenon
  <2>2. CASE r = Ref("region", 0 .. 4)
    <3>1. r.to = "region" /\ r.keys = 0 .. 4
      BY ONLY <2>2, TableFields
    <3>2. 1 \in 1 .. 8
      OBVIOUS
    <3> QED
      BY <3>1, <3>2, <1>1, Zenon
  <2>3. CASE r = Ref("nation", 0 .. 24)
    <3>1. r.to = "nation" /\ r.keys = 0 .. 24
      BY ONLY <2>3, TableFields
    <3>2. 2 \in 1 .. 8
      OBVIOUS
    <3> QED
      BY <3>1, <3>2, <1>2, Zenon
  <2>4. CASE r = Ref("customer", 1 .. Customers(s))
    <3>1. r.to = "customer" /\ r.keys = 1 .. Customers(s)
      BY ONLY <2>4, TableFields
    <3>2. 4 \in 1 .. 8
      OBVIOUS
    <3> QED
      BY <3>1, <3>2, <1>4, Zenon
  <2>5. CASE r = Ref("orders", 1 .. Orders(s))
    <3>1. r.to = "orders" /\ r.keys = 1 .. Orders(s)
      BY ONLY <2>5, TableFields
    <3>2. 7 \in 1 .. 8
      OBVIOUS
    <3> QED
      BY <3>1, <3>2, <1>7, Zenon
  <2>6. CASE r = Ref("part", 1 .. Parts(s))
    <3>1. r.to = "part" /\ r.keys = 1 .. Parts(s)
      BY ONLY <2>6, TableFields
    <3>2. 5 \in 1 .. 8
      OBVIOUS
    <3> QED
      BY <3>1, <3>2, <1>5, Zenon
  <2>7. CASE r = Ref("supplier", sold) \/ r = Ref("supplier", 1 .. Suppliers(s))
    <3>1. ASSUME r = Ref("supplier", sold) PROVE r.to = "supplier" /\ r.keys = sold
      BY ONLY <3>1, TableFields
    <3>2. ASSUME r = Ref("supplier", 1 .. Suppliers(s))
          PROVE  r.to = "supplier" /\ r.keys = 1 .. Suppliers(s)
      BY ONLY <3>2, TableFields
    <3>3. r.to = "supplier" /\ (r.keys = sold \/ r.keys = 1 .. Suppliers(s))
      BY <2>7, <3>1, <3>2
    <3>4. r.keys \subseteq ts[3].keys
      BY <3>3, <1>9, <1>3, Zenon
    <3>5. 3 \in 1 .. 8
      OBVIOUS
    <3> QED
      BY <3>3, <3>4, <3>5, <1>3, Zenon
  <2> QED
    BY <2>1, <2>2, <2>3, <2>4, <2>5, <2>6, <2>7
<1> QED
  BY <1>10, <1>11, JoinedByName DEF ts

\* The banking tables join at every scale.
LEMMA BankingJoins ==
    ASSUME NEW s \in Nat
    PROVE  Len(Banking(s)) = 6 /\ TablesJoined(Banking(s), 6)
<1> DEFINE ts == Banking(s)
           customers == Ref("customers", CustomerIds(s))
           accounts == Ref("accounts", AccountIds(s))
<1>1. /\ ts[1] = Table("customers", CustomerIds(s), {})
      /\ ts[2] = Table("accounts", AccountIds(s), {customers})
      /\ ts[3] = Table("transactions", {}, {accounts})
      /\ ts[4] = Table("cards", {}, {accounts})
      /\ ts[5] = Table("aml_alerts", {}, {customers})
      /\ ts[6] = Table("loans", {}, {customers})
  BY DEF Banking, BankCustomers, BankAccounts, BankTransactions, BankCards, AmlAlerts, BankLoans
<1>2. Len(ts) = 6
  BY DEF Banking
<1>3. /\ customers.to = "customers" /\ customers.keys = CustomerIds(s)
      /\ accounts.to = "accounts" /\ accounts.keys = AccountIds(s)
  BY TableFields
<1> HIDE DEF ts, customers, accounts
<1>4. /\ ts[1].name = "customers" /\ ts[2].name = "accounts" /\ ts[3].name = "transactions"
      /\ ts[4].name = "cards" /\ ts[5].name = "aml_alerts" /\ ts[6].name = "loans"
      /\ ts[1].keys = CustomerIds(s) /\ ts[2].keys = AccountIds(s)
  BY <1>1, TableFields
<1>5. \A k \in 1 .. 6 : k \in {1, 2, 3, 4, 5, 6}
  OBVIOUS
<1>6. \A i, j \in 1 .. 6 : ts[i].name = ts[j].name => i = j
  BY <1>4, <1>5
<1>7. ASSUME NEW k \in 1 .. 6, NEW r \in ts[k].refs
      PROVE  \E j \in 1 .. 6 : ts[j].name = r.to /\ r.keys \subseteq ts[j].keys
  <2>1. ts[1].refs = {}
    BY <1>1, TableFields
  <2>5. ts[2].refs = {customers}
    BY <1>1, TableFields
  <2>6. ts[3].refs = {accounts}
    BY <1>1, TableFields
  <2>4. ts[4].refs = {accounts} /\ ts[5].refs = {customers} /\ ts[6].refs = {customers}
    BY <1>1, TableFields
  <2>2. r = customers \/ r = accounts
    BY <1>5, <2>1, <2>4, <2>5, <2>6, Zenon
  <2>3. 1 \in 1 .. 6 /\ 2 \in 1 .. 6
    OBVIOUS
  <2> QED
    BY <2>2, <2>3, <1>3, <1>4, Zenon
<1>8. TablesJoined(ts, 6)
  BY <1>6, <1>7, JoinedByName
<1> QED
  BY <1>2, <1>8 DEF ts

\* The towers that the records draw from are towers when there are enough:
\* their index keeps its technology and is below 80.
LEMMA DrawnAreTowers ==
    ASSUME NEW s \in Nat, ~(TowerCount(s) < Locations * Technologies)
    PROVE  TowersDrawn(s) \subseteq Towers(s)
<1>1. TowerCount(s) \in Nat /\ TowerCount(s) >= 80
  BY DEF TowerCount, Locations, Technologies
<1>2. ASSUME NEW i \in 0 .. (TowerCount(s) - 1)
      PROVE  TowerId((i % 20) * 4 + (i % 4), i % 4) \in Towers(s)
  <2> DEFINE index == (i % 20) * 4 + (i % 4)
  <2>1. i \in Int /\ i % 20 \in 0 .. 19 /\ i % 4 \in 0 .. 3
    BY <1>1
  <2>2. index \in 0 .. 79 /\ index % 4 = i % 4
    <3>1. \A a \in 0 .. 19, b \in 0 .. 3 : a * 4 + b \in 0 .. 79 /\ (a * 4 + b) % 4 = b
      OBVIOUS
    <3> QED
      BY <2>1, <3>1
  <2>3. index \in 0 .. (TowerCount(s) - 1)
    BY <2>2, <1>1
  <2> HIDE DEF index
  <2>4. TowerId(index, index % 4) \in Towers(s)
    BY <2>3 DEF Towers, Technologies
  <2> QED
    BY <2>2, <2>4 DEF index
<1> QED
  BY <1>2 DEF TowersDrawn, Locations, Technologies

\* The telecom tables join when their towers do.
LEMMA TelecomJoins ==
    ASSUME NEW s \in Nat
    PROVE  /\ Len(Telecom(s)) = 6
           /\ TablesJoined(Telecom(s), 6) \/ TowerCount(s) < Locations * Technologies
           /\ \A k \in 1 .. 6 : \A r \in Telecom(s)[k].refs :
                 \E j \in 1 .. 6 : Telecom(s)[j].name = r.to
<1> DEFINE ts == Telecom(s)
           towers == Ref("towers", TowersDrawn(s))
           subscribers == Ref("subscribers", 1 .. (1000 * s))
<1>1. /\ ts[1] = Table("towers", Towers(s), {})
      /\ ts[2] = Table("subscribers", 1 .. (1000 * s), {})
      /\ ts[3] = Table("cdr_voice", {}, {subscribers, towers})
      /\ ts[4] = Table("cdr_sms", {}, {subscribers, towers})
      /\ ts[5] = Table("cdr_data", {}, {subscribers, towers})
      /\ ts[6] = Table("network_events", {}, {towers})
  BY DEF Telecom, Subscribers, CallRecords, NetworkEvents
<1>2. Len(ts) = 6
  BY DEF Telecom
<1>3. /\ towers.to = "towers" /\ towers.keys = TowersDrawn(s)
      /\ subscribers.to = "subscribers" /\ subscribers.keys = 1 .. (1000 * s)
  BY TableFields
<1> HIDE DEF ts, towers, subscribers
<1>4. /\ ts[1].name = "towers" /\ ts[2].name = "subscribers" /\ ts[3].name = "cdr_voice"
      /\ ts[4].name = "cdr_sms" /\ ts[5].name = "cdr_data" /\ ts[6].name = "network_events"
      /\ ts[1].keys = Towers(s) /\ ts[2].keys = 1 .. (1000 * s)
  BY <1>1, TableFields
<1>5. \A k \in 1 .. 6 : k \in {1, 2, 3, 4, 5, 6}
  OBVIOUS
<1>6. \A i, j \in 1 .. 6 : ts[i].name = ts[j].name => i = j
  BY <1>4, <1>5
<1>7. ASSUME NEW k \in 1 .. 6, NEW r \in ts[k].refs PROVE r = towers \/ r = subscribers
  <2>1. /\ ts[1].refs = {} /\ ts[2].refs = {} /\ ts[3].refs = {subscribers, towers}
        /\ ts[4].refs = {subscribers, towers} /\ ts[5].refs = {subscribers, towers}
        /\ ts[6].refs = {towers}
    BY <1>1, TableFields
  <2> QED
    BY <1>5, <2>1
<1>8. 1 \in 1 .. 6 /\ 2 \in 1 .. 6
  OBVIOUS
<1>9. ASSUME NEW k \in 1 .. 6, NEW r \in ts[k].refs
      PROVE  \E j \in 1 .. 6 : ts[j].name = r.to
  <2>1. CASE r = towers
    BY <2>1, <1>3, <1>4, <1>8
  <2>2. CASE r = subscribers
    BY <2>2, <1>3, <1>4, <1>8
  <2> QED
    BY <2>1, <2>2, <1>7
<1>10. ASSUME ~(TowerCount(s) < Locations * Technologies) PROVE TablesJoined(ts, 6)
  <2>1. TowersDrawn(s) \subseteq Towers(s)
    BY <1>10, DrawnAreTowers
  <2>2. ASSUME NEW k \in 1 .. 6, NEW r \in ts[k].refs
        PROVE  \E j \in 1 .. 6 : ts[j].name = r.to /\ r.keys \subseteq ts[j].keys
    <3>1. CASE r = towers
      BY <2>1, <3>1, <1>3, <1>4, <1>8
    <3>2. CASE r = subscribers
      BY <3>2, <1>3, <1>4, <1>8
    <3> QED
      BY <3>1, <3>2, <1>7
  <2> QED
    BY <2>2, <1>6, JoinedByName
<1> QED
  BY <1>2, <1>9, <1>10 DEF ts

\* Keys that wrap around at n are among the first n.
LEMMA KeysWrapAround ==
    \A n \in Nat \ {0}, m \in Nat :
        {(i % n) + 1 : i \in 0 .. m} \subseteq {i + 1 : i \in 0 .. (n - 1)}
<1> SUFFICES ASSUME NEW n \in Nat \ {0}, NEW m \in Nat, NEW i \in 0 .. m
             PROVE  (i % n) + 1 \in {j + 1 : j \in 0 .. (n - 1)}
  OBVIOUS
<1>1. i % n \in 0 .. (n - 1)
  OBVIOUS
<1> QED
  BY <1>1

\* So do the tables that the command line writes.
LEMMA CliTablesJoin ==
    /\ TablesJoined(<<CliRecords, CliSubscribers, CliTowers>>, 3)
    /\ TablesJoined(<<CliTransactions, CliAccounts, CliCustomers>>, 3)
<1>1. \A k \in 1 .. 3 : k \in {1, 2, 3}
  OBVIOUS
<1>2. TablesJoined(<<CliRecords, CliSubscribers, CliTowers>>, 3)
  <2> DEFINE ts == <<CliRecords, CliSubscribers, CliTowers>>
             calls == {(i % 500) + 1 : i \in 0 .. 9999}
             towers == {i + 1 : i \in 0 .. 499}
  <2>1. /\ ts[1] = Table("cdrs", {}, {Ref("towers", calls)})
        /\ ts[2] = Table("subscribers", 1 .. 5000, {}) /\ ts[3] = Table("towers", towers, {})
    <3>1. ts[1] = CliRecords /\ ts[2] = CliSubscribers /\ ts[3] = CliTowers
      OBVIOUS
    <3>2. CliRecords = Table("cdrs", {}, {Ref("towers", calls)})
      BY DEF CliRecords
    <3>3. CliSubscribers = Table("subscribers", 1 .. 5000, {})
      BY DEF CliSubscribers
    <3>4. CliTowers = Table("towers", towers, {})
      BY DEF CliTowers
    <3> HIDE DEF ts, calls, towers
    <3> QED
      BY <3>1, <3>2, <3>3, <3>4
  <2>2. calls \subseteq towers
    <3> DEFINE n == 500
               m == 9999
    <3>1. n \in Nat \ {0} /\ m \in Nat /\ n - 1 = 499
      OBVIOUS
    <3> HIDE DEF n, m
    <3>2. {(i % n) + 1 : i \in 0 .. m} \subseteq {i + 1 : i \in 0 .. (n - 1)}
      BY <3>1, KeysWrapAround
    <3> QED
      BY <3>1, <3>2 DEF n, m
  <2> HIDE DEF ts, calls, towers
  <2>3. /\ ts[1].name = "cdrs" /\ ts[2].name = "subscribers" /\ ts[3].name = "towers"
        /\ ts[3].keys = towers /\ ts[2].refs = {} /\ ts[3].refs = {}
        /\ ts[1].refs = {Ref("towers", calls)}
    BY <2>1, TableFields
  <2>4. \A i, j \in 1 .. 3 : ts[i].name = ts[j].name => i = j
    BY <2>3, <1>1
  <2>5. \A k \in 1 .. 3 : \A r \in ts[k].refs :
           \E j \in 1 .. 3 : ts[j].name = r.to /\ r.keys \subseteq ts[j].keys
    BY <2>2, <2>3, <1>1, TableFields
  <2>6. TablesJoined(ts, 3)
    BY <2>4, <2>5, JoinedByName
  <2> QED
    BY <2>6 DEF ts
<1>3. TablesJoined(<<CliTransactions, CliAccounts, CliCustomers>>, 3)
  <2> DEFINE ts == <<CliTransactions, CliAccounts, CliCustomers>>
             owners == {(i % 5000) + 1 : i \in 0 .. 9999}
             customers == {i + 1 : i \in 0 .. 4999}
  <2>1. /\ ts[1] = Table("transactions", {}, {})
        /\ ts[2] = Table("accounts", {}, {Ref("customers", owners)})
        /\ ts[3] = Table("customers", customers, {})
    BY DEF CliTransactions, CliAccounts, CliCustomers
  <2>2. owners \subseteq customers
    <3>1. 5000 - 1 = 4999
      OBVIOUS
    <3> QED
      BY <3>1, KeysWrapAround
  <2> HIDE DEF ts, owners, customers
  <2>3. /\ ts[1].name = "transactions" /\ ts[2].name = "accounts" /\ ts[3].name = "customers"
        /\ ts[3].keys = customers /\ ts[1].refs = {} /\ ts[3].refs = {}
        /\ ts[2].refs = {Ref("customers", owners)}
    BY <2>1, TableFields
  <2>4. \A i, j \in 1 .. 3 : ts[i].name = ts[j].name => i = j
    BY <2>3, <1>1
  <2>5. \A k \in 1 .. 3 : \A r \in ts[k].refs :
           \E j \in 1 .. 3 : ts[j].name = r.to /\ r.keys \subseteq ts[j].keys
    BY <2>2, <2>3, <1>1, TableFields
  <2>6. TablesJoined(ts, 3)
    BY <2>4, <2>5, JoinedByName
  <2> QED
    BY <2>6 DEF ts
<1> QED
  BY <1>2, <1>3

\* A dataset has its tables, and they join unless it is a small telecom one.
LEMMA DatasetSound ==
    ASSUME NEW d \in DatasetNames, NEW s \in Nat
    PROVE  /\ TableCount(d) \in 1 .. 8 /\ Len(Dataset(d, s)) = TableCount(d)
           /\ \A k \in 1 .. TableCount(d) : \A r \in Dataset(d, s)[k].refs :
                 \E j \in 1 .. TableCount(d) : Dataset(d, s)[j].name = r.to
           /\ \/ TablesJoined(Dataset(d, s), TableCount(d))
              \/ d = "telecom" /\ TowerCount(s) < Locations * Technologies
<1>1. \A ts : \A n \in Nat : TablesJoined(ts, n) =>
         \A k \in 1 .. n : \A r \in ts[k].refs : \E j \in 1 .. n : ts[j].name = r.to
  BY DEF TablesJoined
<1>2. CASE d = "tpch"
  <2>1. Dataset(d, s) = Tpch(s) /\ TableCount(d) = 8
    BY <1>2 DEF Dataset, TableCount
  <2>2. Len(Dataset(d, s)) = 8 /\ TablesJoined(Dataset(d, s), 8)
    BY <2>1, TpchTables, TpchJoins
  <2> QED
    BY <2>1, <2>2, <1>1
<1>3. CASE d = "banking"
  <2>1. Dataset(d, s) = Banking(s) /\ TableCount(d) = 6
    BY <1>3 DEF Dataset, TableCount
  <2>2. Len(Dataset(d, s)) = 6 /\ TablesJoined(Dataset(d, s), 6)
    BY <2>1, BankingJoins
  <2> QED
    BY <2>1, <2>2, <1>1
<1>4. CASE d = "telecom"
  <2>1. Dataset(d, s) = Telecom(s) /\ TableCount(d) = 6
    BY <1>4 DEF Dataset, TableCount
  <2>2. /\ Len(Telecom(s)) = 6
        /\ TablesJoined(Telecom(s), 6) \/ TowerCount(s) < Locations * Technologies
        /\ \A k \in 1 .. 6 : \A r \in Telecom(s)[k].refs :
              \E j \in 1 .. 6 : Telecom(s)[j].name = r.to
    BY TelecomJoins, Zenon
  <2> QED
    BY ONLY <2>1, <2>2, <1>4
<1>5. CASE d = "cli-telecom"
  <2>1. Dataset(d, s) = <<CliRecords, CliSubscribers, CliTowers>> /\ TableCount(d) = 3
    BY <1>5 DEF Dataset, TableCount
  <2>2. Len(Dataset(d, s)) = 3 /\ TablesJoined(Dataset(d, s), 3)
    BY <2>1, CliTablesJoin
  <2> QED
    BY <2>1, <2>2, <1>1
<1>6. CASE d = "cli-banking"
  <2>1. Dataset(d, s) = <<CliTransactions, CliAccounts, CliCustomers>> /\ TableCount(d) = 3
    BY <1>6 DEF Dataset, TableCount
  <2>2. Len(Dataset(d, s)) = 3 /\ TablesJoined(Dataset(d, s), 3)
    BY <2>1, CliTablesJoin
  <2> QED
    BY <2>1, <2>2, <1>1
<1> QED
  BY <1>2, <1>3, <1>4, <1>5, <1>6 DEF DatasetNames

(* The files before the one that comes next have the scale of the run, and *)
(* a dataset has no others than its own.                                   *)
DatasetInv ==
    /\ dataset \in DatasetNames
    /\ DOMAIN files = 1 .. 8
    /\ run \in [scale : Nat, next : Int, ok : BOOLEAN]
    /\ run.next \in 0 .. TableCount(dataset)
    /\ \A k \in 1 .. 8 : k > TableCount(dataset) => files[k] = NoFile
    /\ \A k \in 1 .. 8 : k < run.next => files[k] = run.scale
    /\ run.ok => /\ run.next = 0
                 /\ \A k \in 1 .. TableCount(dataset) : files[k] = run.scale

\* A generator that ended well left all the tables of one dataset.
LEMMA OneScale ==
    ASSUME DatasetInv, run.ok
    PROVE  OnDisk = {Dataset(dataset, run.scale)[k] : k \in 1 .. TableCount(dataset)}
<1>1. TableCount(dataset) \in 1 .. 8
  BY DatasetSound DEF DatasetInv
<1>2. \A k \in 1 .. 8 : files[k] # NoFile <=> k \in 1 .. TableCount(dataset)
  BY <1>1 DEF DatasetInv, NoFile
<1>3. {i \in DOMAIN files : files[i] # NoFile} = 1 .. TableCount(dataset)
  BY <1>1, <1>2 DEF DatasetInv
<1>4. \A k \in 1 .. TableCount(dataset) : files[k] = run.scale
  BY DEF DatasetInv
<1> QED
  BY <1>3, <1>4 DEF OnDisk

(* DatasetsJoin, at every scale: of a generator that ended well each key a *)
(* row refers to is a key of the table it refers to, whatever the random   *)
(* draws were and whatever an earlier run that failed had left there,      *)
(* except the towers of a telecom dataset that has fewer than eighty.      *)
THEOREM GeneratedTablesJoin == DatasetSpec => []DatasetsJoin
<1>1. DatasetInit => DatasetInv
  <2> SUFFICES ASSUME DatasetInit PROVE DatasetInv
    OBVIOUS
  <2>1. /\ run \in [scale : Nat, next : Int, ok : BOOLEAN]
        /\ run.next = 0 /\ run.ok = FALSE /\ dataset \in DatasetNames
        /\ DOMAIN files = 1 .. 8 /\ \A k \in 1 .. 8 : files[k] = NoFile
    BY DEF DatasetInit
  <2>2. TableCount(dataset) \in 1 .. 8
    BY <2>1, DatasetSound
  <2> QED
    BY <2>1, <2>2 DEF DatasetInv
<1>2. DatasetInv /\ [DatasetNext]_datasetVars => DatasetInv'
  <2> SUFFICES ASSUME DatasetInv, [DatasetNext]_datasetVars PROVE DatasetInv'
    OBVIOUS
  <2>1. TableCount(dataset) \in 1 .. 8
    BY DatasetSound DEF DatasetInv
  <2>2. ASSUME NEW s \in Scales, Generate(s) PROVE DatasetInv'
    <3>1. s \in Nat
      BY DatasetsAssumption
    <3>2. /\ run' \in [scale : Nat, next : Int, ok : BOOLEAN]
          /\ run'.next = 1 /\ run'.ok = FALSE
          /\ dataset' = dataset /\ files' = files
      BY <2>2, <3>1 DEF Generate
    <3> QED
      BY <2>1, <3>1, <3>2 DEF DatasetInv
  <2>3. CASE WriteTable
    <3> DEFINE n == run.next
    <3>1. Len(Dataset(dataset, run.scale)) = TableCount(dataset)
      BY DatasetSound DEF DatasetInv
    <3>2. /\ n > 0 /\ dataset' = dataset /\ files' = [files EXCEPT ![n] = run.scale]
          /\ run' = [run EXCEPT !.next = IF n = TableCount(dataset) THEN 0 ELSE n + 1,
                                !.ok = n = TableCount(dataset)]
      BY <2>3, <3>1 DEF WriteTable
    <3>3. /\ run' \in [scale : Nat, next : Int, ok : BOOLEAN]
          /\ run'.scale = run.scale /\ run'.next = IF n = TableCount(dataset) THEN 0 ELSE n + 1
          /\ run'.ok <=> n = TableCount(dataset)
      <4>1. run \in [scale : Nat, next : Int, ok : BOOLEAN]
        BY DEF DatasetInv
      <4> DEFINE last == n = TableCount(dataset)
                 following == IF n = TableCount(dataset) THEN 0 ELSE n + 1
      <4>2. last \in BOOLEAN /\ following \in Int
        BY <4>1, <2>1 DEF DatasetInv
      <4>3. run' = [run EXCEPT !.next = following, !.ok = last]
        BY <3>2
      <4> HIDE DEF last, following
      <4>4. run' \in [scale : Nat, next : Int, ok : BOOLEAN]
        BY <4>1, <4>2, <4>3
      <4>5. run'.scale = run.scale /\ run'.next = following /\ run'.ok = last
        BY <4>1, <4>3
      <4> QED
        BY <4>4, <4>5 DEF last, following
    <3>4. \A k \in 1 .. 8 : files'[k] = IF k = n THEN run.scale ELSE files[k]
      BY <3>2 DEF DatasetInv
    <3>5. DOMAIN files' = 1 .. 8 /\ n \in 1 .. TableCount(dataset)
      BY <3>2 DEF DatasetInv
    <3> HIDE DEF n
    <3>6. /\ dataset' \in DatasetNames /\ run'.next \in 0 .. TableCount(dataset)
          /\ run'.ok => run'.next = 0
      BY <2>1, <3>2, <3>3, <3>5 DEF DatasetInv
    <3>7. \A k \in 1 .. 8 : k > TableCount(dataset) => files'[k] = NoFile
      BY <2>1, <3>4, <3>5 DEF DatasetInv
    <3>8. \A k \in 1 .. 8 : k <= n => files'[k] = run.scale
      BY <2>1, <3>4, <3>5 DEF DatasetInv, n
    <3> QED
      BY <2>1, <3>2, <3>3, <3>5, <3>6, <3>7, <3>8 DEF DatasetInv
  <2>4. CASE WriteTableFails
    BY <2>1, <2>4 DEF WriteTableFails, DatasetInv
  <2>5. CASE UNCHANGED datasetVars
    BY <2>5 DEF datasetVars, DatasetInv
  <2> QED
    BY <2>2, <2>3, <2>4, <2>5 DEF DatasetNext
<1>3. DatasetInv => DatasetsJoin
  <2> SUFFICES ASSUME DatasetInv, run.ok
               PROVE  /\ Unmatched = {}
                      /\ \/ Dangling = {}
                         \/ dataset = "telecom" /\ TowerCount(run.scale) < Locations * Technologies
    BY DEF DatasetsJoin
  <2> DEFINE ts == Dataset(dataset, run.scale)
             n == TableCount(dataset)
  <2>1. OnDisk = {ts[k] : k \in 1 .. n}
    BY OneScale
  <2>2. /\ \A k \in 1 .. n : \A r \in ts[k].refs : \E j \in 1 .. n : ts[j].name = r.to
        /\ TablesJoined(ts, n) \/ (dataset = "telecom" /\ TowerCount(run.scale) < Locations * Technologies)
    BY DatasetSound DEF DatasetInv
  <2> HIDE DEF ts, n
  <2>3. Unmatched = {}
    BY <2>1, <2>2 DEF Unmatched
  <2>4. TablesJoined(ts, n) => Dangling = {}
    BY <2>1 DEF TablesJoined, Dangling
  <2> QED
    BY <2>2, <2>3, <2>4
<1> QED
  BY <1>1, <1>2, <1>3, PTL DEF DatasetSpec

-------------------------------------------------------------------------------
\* The Iceberg table.

USE TableAssumption DEF TableAssumption

\* The snapshot a history ends with, and the totals the next append builds on.
LEMMA LastType ==
    ASSUME NEW s \in Seq(Snapshot)
    PROVE  /\ Newest(s).id \in Id \cup {NoId}
           /\ Newest(s).records \in Nat /\ Newest(s).files \in Nat
           /\ s # <<>> => Newest(s) = s[Len(s)] /\ Len(s) \in DOMAIN s
  <1>1. CASE s = <<>>
    BY <1>1 DEF Newest, NoSnapshot, NoId
  <1>2. CASE s # <<>>
    <2>1. Len(s) \in DOMAIN s /\ s[Len(s)] \in Snapshot /\ Newest(s) = s[Len(s)]
      BY <1>2 DEF Newest
    <2>. QED  BY <2>1 DEF Snapshot
  <1>. QED  BY <1>1, <1>2

\* A sound history counts its files.
LEMMA LastFiles ==
    ASSUME NEW s \in Seq(Snapshot), NEW done, SoundHistory(s, done)
    PROVE  Newest(s).files = Len(s)
  BY DEF SoundHistory, Newest, NoSnapshot

\* A history extended by the append it was read for stays sound, once the data
\* file of that append is complete.
LEMMA ExtendHistory ==
    ASSUME NEW s \in Seq(Snapshot), NEW n \in Snapshot, NEW done,
           SoundHistory(s, done),
           n.parent = Newest(s).id,
           n.records = Newest(s).records + n.added,
           n.files = Len(s) + 1
    PROVE  SoundHistory(Append(s, n), done \cup {n.id})
  <1>. DEFINE t == Append(s, n)
  <1>. SUFFICES ASSUME NEW i \in DOMAIN t
                PROVE /\ t[i].id \in done \cup {n.id}
                      /\ t[i].parent = (IF i = 1 THEN NoId ELSE t[i - 1].id)
                      /\ t[i].records = (IF i = 1 THEN 0 ELSE t[i - 1].records) + t[i].added
                      /\ t[i].files = i
    BY DEF SoundHistory
  <1>1. DOMAIN t = 1..(Len(s) + 1) /\ DOMAIN s = 1..Len(s) /\ Len(s) \in Nat
    OBVIOUS
  <1>2. CASE i \in DOMAIN s
    <2>1. t[i] = s[i] /\ (i # 1 => t[i - 1] = s[i - 1])
      BY <1>1, <1>2
    <2>. QED  BY <1>2, <2>1 DEF SoundHistory
  <1>3. CASE i = Len(s) + 1
    <2>1. t[i] = n
      BY <1>1, <1>3
    <2>2. i = 1 => Newest(s) = NoSnapshot
      BY <1>1, <1>3 DEF Newest
    <2>3. i # 1 => Newest(s) = s[Len(s)]
      BY <1>1, <1>3 DEF Newest
    <2>4. i # 1 => t[i - 1] = s[Len(s)]
      <3>1. i # 1 => i - 1 = Len(s) /\ Len(s) \in 1..Len(s)
        BY <1>1, <1>3
      <3>2. \A k \in 1..Len(s) : t[k] = s[k]
        OBVIOUS
      <3>. QED  BY <3>1, <3>2
    <2>. QED  BY <1>3, <2>1, <2>2, <2>3, <2>4 DEF NoSnapshot, NoId
  <1>. QED  BY <1>1, <1>2, <1>3

\* Completing more data files keeps a history sound.
LEMMA KeepHistory ==
    ASSUME NEW s, NEW A, NEW B, SoundHistory(s, A), A \subseteq B
    PROVE  SoundHistory(s, B)
  BY DEF SoundHistory

\* Initially every variable has its type.
LEMMA InitType == IcebergInit => IcebergTypeOK
  BY DEF IcebergInit, IcebergTypeOK, Metadata, NoSnapshot

\* Type correctness is inductive, given what a handle is about to append.
LEMMA NextType == IInv /\ [IcebergNext]_icebergVars => IcebergTypeOK'
  <1>. SUFFICES ASSUME IInv, [IcebergNext]_icebergVars PROVE IcebergTypeOK'
    OBVIOUS
  <1>0. \A v \in DOMAIN meta : meta[v].snaps \in Seq(Snapshot)
    <2>1. \A v \in DOMAIN meta : meta[v] \in Metadata
      BY DEF IInv, IcebergTypeOK
    <2>2. \A m \in Metadata : m.snaps \in Seq(Snapshot)
      BY DEF Metadata
    <2>. QED  BY <2>1, <2>2
  <1>. USE DEF IInv, IcebergTypeOK, dirVars, handleVars, Metadata
  <1>1. ASSUME NEW h \in Handle, Open(h) PROVE IcebergTypeOK'
    <2>1. PICK v \in DOMAIN meta : snaps' = [snaps EXCEPT ![h] = meta[v].snaps]
      BY <1>1 DEF Open
    <2>2. meta[v].snaps \in Seq(Snapshot)
      BY <1>0
    <2>. QED  BY <1>1, <2>1, <2>2 DEF Open
  <1>2. ASSUME NEW h \in Handle, Drop(h) PROVE IcebergTypeOK'
    BY <1>2 DEF Drop
  <1>3. ASSUME NEW h \in Handle, StartAppend(h) PROVE IcebergTypeOK'
    <2>1. clock + 1 \in Id /\ clock' = clock + 1
      <3>1. clock < MaxAppends /\ clock' = clock + 1
        BY <1>3 DEF StartAppend
      <3>2. clock \in 0..MaxAppends
        OBVIOUS
      <3>3. MaxAppends \in Nat
        BY ONLY TableAssumption DEF TableAssumption
      <3>. QED  BY <3>1, <3>2, <3>3 DEF Id
    <2>2. next' \in [Handle -> Snapshot \cup {NoSnapshot}]
      <3>1. PICK n \in RowCount : next' = [next EXCEPT ![h] =
                [id |-> clock', parent |-> Newest(snaps[h]).id, added |-> n,
                 records |-> Newest(snaps[h]).records + n,
                 files |-> Newest(snaps[h]).files + 1]]
        BY <1>3 DEF StartAppend
      <3>. DEFINE s == [id |-> clock', parent |-> Newest(snaps[h]).id, added |-> n,
                        records |-> Newest(snaps[h]).records + n,
                        files |-> Newest(snaps[h]).files + 1]
      <3>2. n \in Nat /\ snaps[h] \in Seq(Snapshot)
        OBVIOUS
      <3>4. /\ Newest(snaps[h]).id \in Id \cup {NoId}
            /\ Newest(snaps[h]).records + n \in Nat /\ Newest(snaps[h]).files + 1 \in Nat
        BY <3>2, LastType
      <3>5. clock' \in Id /\ n \in RowCount
        BY <2>1
      <3>3. s \in Snapshot
        BY <3>4, <3>5 DEF Snapshot
      <3>. HIDE DEF s
      <3>. QED  BY <3>1, <3>3 DEF s
    <2>. QED  BY <1>3, <2>1, <2>2 DEF StartAppend, Id
  <1>4. ASSUME NEW h \in Handle, DataFails(h) PROVE IcebergTypeOK'
    BY <1>4 DEF DataFails
  <1>5. ASSUME NEW h \in Handle, StartCommit(h) PROVE IcebergTypeOK'
    <2>1. next[h] \in Snapshot /\ next[h].id \in Id
      BY <1>5 DEF HandlesSound, StartCommit, Snapshot
    <2>2. snaps' \in [Handle -> Seq(Snapshot)] /\ Len(snaps[h]) + 1 \in Nat \ {0}
      BY <1>5, <2>1 DEF StartCommit
    <2>3. TornFile \in [torn : BOOLEAN, snaps : Seq(Snapshot)]
      BY DEF TornFile
    <2>. QED  BY <1>5, <2>1, <2>2, <2>3 DEF StartCommit, WithVersion
  <1>6. ASSUME NEW h \in Handle, FinishCommit(h) PROVE IcebergTypeOK'
    <2>1. next[h] \in Snapshot /\ next[h].id \in Id /\ snaps[h] # <<>>
      BY <1>6 DEF HandlesSound, FinishCommit, Snapshot
    <2>2. Len(snaps[h]) \in Nat \ {0}
      BY <2>1
    <2>. QED  BY <1>6, <2>1, <2>2 DEF FinishCommit, EndAppend, WithVersion
  <1>7. ASSUME NEW h \in Handle, CommitFails(h) PROVE IcebergTypeOK'
    BY <1>7 DEF CommitFails, EndAppend
  <1>8. CASE HandleCrash
    BY <1>8 DEF HandleCrash
  <1>9. CASE UNCHANGED icebergVars
    BY <1>9 DEF icebergVars
  <1>. QED  BY <1>1, <1>2, <1>3, <1>4, <1>5, <1>6, <1>7, <1>8, <1>9 DEF IcebergNext

\* Every version and every handle keeps a sound history: one step per action,
\* and for those that write metadata one for the files and one for the handles.
LEMMA NextSound == IInv /\ IcebergTypeOK' /\ [IcebergNext]_icebergVars => (MetadataSound /\ HandlesSound)'
  <1>. SUFFICES ASSUME IInv, IcebergTypeOK', [IcebergNext]_icebergVars PROVE MetadataSound' /\ HandlesSound'
    OBVIOUS
  <1>. USE DEF IInv, dirVars, handleVars
  <1>0. /\ \A h \in Handle : snaps[h] \in Seq(Snapshot)
        /\ \A h \in Handle : SoundHistory(snaps[h], complete)
        /\ \A v \in DOMAIN meta : SoundHistory(meta[v].snaps, complete)
    BY DEF IcebergTypeOK, MetadataSound, HandlesSound
  <1>1. ASSUME NEW h \in Handle, Open(h) PROVE MetadataSound' /\ HandlesSound'
    <2>1. PICK v \in DOMAIN meta : snaps' = [snaps EXCEPT ![h] = meta[v].snaps]
      BY <1>1 DEF Open
    <2>2. complete' = complete /\ meta' = meta /\ next' = next
      BY <1>1 DEF Open
    <2>3. \A k \in Handle : SoundHistory(snaps'[k], complete')
      BY <1>0, <2>1, <2>2 DEF IcebergTypeOK
    <2>4. ASSUME NEW k \in Handle, pc'[k] \in {"data", "commit"}
          PROVE  pc[k] = pc'[k] /\ snaps'[k] = snaps[k]
      BY <1>1, <2>1, <2>4 DEF Open, IcebergTypeOK
    <2>. QED  BY <2>2, <2>3, <2>4 DEF HandlesSound, MetadataSound
  <1>2. ASSUME NEW h \in Handle, Drop(h) PROVE MetadataSound' /\ HandlesSound'
    BY <1>2 DEF Drop, HandlesSound, MetadataSound, IcebergTypeOK, SoundHistory
  <1>3. ASSUME NEW h \in Handle, StartAppend(h) PROVE MetadataSound' /\ HandlesSound'
    <2>1. PICK n \in RowCount : next' = [next EXCEPT ![h] =
                [id |-> clock', parent |-> Newest(snaps[h]).id, added |-> n,
                 records |-> Newest(snaps[h]).records + n,
                 files |-> Newest(snaps[h]).files + 1]]
      BY <1>3 DEF StartAppend
    <2>2. /\ next'[h] \in Snapshot
          /\ next'[h].parent = Newest(snaps[h]).id
          /\ next'[h].records = Newest(snaps[h]).records + next'[h].added
          /\ next'[h].files = Len(snaps[h]) + 1
      <3>1. Newest(snaps[h]).files = Len(snaps[h])
        BY <1>0, LastFiles
      <3>2. next'[h] = [id |-> clock', parent |-> Newest(snaps[h]).id, added |-> n,
                 records |-> Newest(snaps[h]).records + n,
                 files |-> Newest(snaps[h]).files + 1]
        BY <2>1 DEF IcebergTypeOK
      <3>3. next'[h].id # NoId /\ next'[h] \in Snapshot \cup {NoSnapshot}
        BY <1>3, <3>2 DEF StartAppend, IcebergTypeOK, NoId
      <3>. QED  BY <3>1, <3>2, <3>3 DEF NoSnapshot
    <2>3. ASSUME NEW k \in Handle, k # h PROVE next'[k] = next[k] /\ pc'[k] = pc[k]
      BY <1>3, <2>1, <2>3 DEF StartAppend, IcebergTypeOK
    <2>4. pc'[h] = "data" /\ snaps' = snaps /\ meta' = meta /\ complete' = complete
      BY <1>3 DEF StartAppend, IcebergTypeOK
    <2>. QED  BY <2>2, <2>3, <2>4 DEF HandlesSound, MetadataSound
  <1>4. ASSUME NEW h \in Handle, DataFails(h) PROVE MetadataSound' /\ HandlesSound'
    BY <1>4 DEF DataFails, HandlesSound, MetadataSound, IcebergTypeOK
  <1>5. ASSUME NEW h \in Handle, StartCommit(h) PROVE MetadataSound' /\ HandlesSound'
    <2>1. complete' = complete \cup {next[h].id} /\ next' = next
      BY <1>5 DEF StartCommit
    <2>2. snaps'[h] = Append(snaps[h], next[h]) /\ pc'[h] = "commit"
      BY <1>5 DEF StartCommit, IcebergTypeOK
    <2>3. SoundHistory(snaps'[h], complete') /\ next[h] \in Snapshot
      <3>1. /\ next[h] \in Snapshot
            /\ next[h].parent = Newest(snaps[h]).id
            /\ next[h].records = Newest(snaps[h]).records + next[h].added
            /\ next[h].files = Len(snaps[h]) + 1
        BY <1>5 DEF StartCommit, HandlesSound
      <3>2. snaps[h] \in Seq(Snapshot) /\ SoundHistory(snaps[h], complete)
        BY <1>0
      <3>3. SoundHistory(Append(snaps[h], next[h]), complete \cup {next[h].id})
        BY <3>1, <3>2, ExtendHistory
      <3>. QED  BY <2>1, <2>2, <3>1, <3>3
    <2>4. snaps'[h] # <<>>
      BY <1>0, <2>2
    <2>5. ASSUME NEW k \in Handle, k # h
          PROVE  snaps'[k] = snaps[k] /\ pc'[k] = pc[k] /\ SoundHistory(snaps'[k], complete')
      BY <1>0, <1>5, <2>1, <2>5, KeepHistory DEF StartCommit, IcebergTypeOK
    <2>6. HandlesSound'
      BY <2>1, <2>2, <2>3, <2>4, <2>5 DEF HandlesSound
    <2>7. ASSUME NEW v \in DOMAIN meta' PROVE SoundHistory(meta'[v].snaps, complete')
      <3>1. meta'[v] = TornFile \/ (v \in DOMAIN meta /\ meta'[v] = meta[v])
        BY <1>5 DEF StartCommit, WithVersion
      <3>2. SoundHistory(TornFile.snaps, complete')
        <4>1. TornFile.snaps = <<>>
          BY DEF TornFile
        <4>2. SoundHistory(<<>>, complete')
          BY DEF SoundHistory
        <4>. QED  BY <4>1, <4>2
      <3>. QED  BY <1>0, <2>1, <3>1, <3>2, KeepHistory
    <2>. QED  BY <2>6, <2>7 DEF MetadataSound
  <1>6. ASSUME NEW h \in Handle, FinishCommit(h) PROVE MetadataSound' /\ HandlesSound'
    <2>1. complete' = complete /\ snaps' = snaps
      BY <1>6 DEF FinishCommit
    <2>2. ASSUME NEW k \in Handle, pc'[k] \in {"data", "commit"}
          PROVE  pc[k] = pc'[k] /\ next'[k] = next[k]
      BY <1>6, <2>2 DEF FinishCommit, EndAppend, IcebergTypeOK
    <2>3. HandlesSound'
      BY <2>1, <2>2 DEF HandlesSound
    <2>4. ASSUME NEW v \in DOMAIN meta' PROVE SoundHistory(meta'[v].snaps, complete')
      <3>1. \/ meta'[v] = [torn |-> FALSE, snaps |-> snaps[h]]
            \/ v \in DOMAIN meta /\ meta'[v] = meta[v]
        BY <1>6 DEF FinishCommit, WithVersion
      <3>. QED  BY <1>0, <2>1, <3>1
    <2>. QED  BY <2>3, <2>4 DEF MetadataSound
  <1>7. ASSUME NEW h \in Handle, CommitFails(h) PROVE MetadataSound' /\ HandlesSound'
    BY <1>7 DEF CommitFails, EndAppend, HandlesSound, MetadataSound, IcebergTypeOK
  <1>8. CASE HandleCrash
    BY <1>8 DEF HandleCrash, HandlesSound, MetadataSound, SoundHistory
  <1>9. CASE UNCHANGED icebergVars
    BY <1>9 DEF icebergVars, HandlesSound, MetadataSound
  <1>. QED  BY <1>1, <1>2, <1>3, <1>4, <1>5, <1>6, <1>7, <1>8, <1>9 DEF IcebergNext

\* The inductive invariant holds in every reachable state.
LEMMA IcebergInvariant == IcebergSpec => []IInv
  <1>1. IcebergInit => IInv
    BY InitType DEF IcebergInit, IInv, MetadataSound, HandlesSound, SoundHistory
  <1>2. IInv /\ [IcebergNext]_icebergVars => IInv'
    BY NextType, NextSound DEF IInv
  <1>. QED  BY <1>1, <1>2, PTL DEF IcebergSpec

\* Type correctness of the directory, the handles and their histories.
THEOREM IcebergTyped == IcebergSpec => []IcebergTypeOK
  <1>1. IInv => IcebergTypeOK
    BY DEF IInv
  <1>. QED  BY <1>1, IcebergInvariant, PTL

\* Whatever fails, handleCrashes or is opened meanwhile, and however many handles
\* append, every metadata file in the directory describes complete data files,
\* one chain of parents and correct totals (append, table.rs:126-196).
THEOREM HistoriesSound == IcebergSpec => []MetadataSound
  <1>1. IInv => MetadataSound
    BY DEF IInv
  <1>. QED  BY <1>1, IcebergInvariant, PTL

-----------------------------------------------------------------------------
\* What an acknowledged append may count on.

(* Nine appends through one handle, or fewer: with a tenth the paths are no *)
(* longer in the order of the versions.                                     *)
OneWriterNineAppends == MaxAppends <= 9 /\ \A g, h \in Writer : g = h

\* A copy of the metadata that is up to date when there are n versions: the
\* first append writes v1 again, every other one writes a new version.
UpToDate(s, n) == /\ acked \subseteq Ids(s)
                  /\ \/ Len(s) = n /\ n <= clock
                     \/ n = 1 /\ s = <<>>

(* The versions are 1..n; the last one, unless torn, and the copy of the    *)
(* handle that appends hold every acknowledged append.                      *)
VersionsUpTo(n) ==
    /\ DOMAIN meta = 1..n
    /\ meta[n].torn \/ UpToDate(meta[n].snaps, n)
    /\ \A h \in Handle :
        /\ pc[h] \in {"data", "commit"} => h \in Writer
        /\ pc[h] # "closed" /\ h \in Writer => UpToDate(snaps[h], n)
        /\ pc[h] = "data" => Len(snaps[h]) < clock
        /\ pc[h] = "commit" => meta[n].torn /\ Newest(snaps[h]) = next[h]

VisibleInv == IInv /\ \E n \in 1..9 : VersionsUpTo(n)

\* An up-to-date copy stays so while nothing is acknowledged.
LEMMA StaysUpToDate ==
    ASSUME NEW s, NEW n, UpToDate(s, n), acked' = acked,
           clock \in Nat, clock' \in Nat, n \in Nat, clock <= clock'
    PROVE  UpToDate(s, n)'
  BY DEF UpToDate

\* With fewer than ten versions the last path is the last version.
LEMMA LastPath ==
    ASSUME NEW n \in 1..9, DOMAIN meta = 1..n, NEW v \in DOMAIN meta, IsLatest(v)
    PROVE  v = n
  <1>1. PathOrder(n) <= PathOrder(v) /\ v \in 1..9 /\ v <= n
    BY DEF IsLatest
  <1>2. PathOrder(n) = 11 * n /\ PathOrder(v) = 11 * v
    BY <1>1 DEF PathOrder
  <1>. QED  BY <1>1, <1>2

\* A history with one more snapshot holds the ids it had and the new one.
LEMMA IdsAppend ==
    ASSUME NEW s \in Seq(Snapshot), NEW x \in Snapshot
    PROVE  Ids(s) \cup {x.id} \subseteq Ids(Append(s, x)) /\ Newest(Append(s, x)) = x
  <1>. DEFINE t == Append(s, x)
  <1>1. /\ Len(t) = Len(s) + 1 /\ DOMAIN t = 1..(Len(s) + 1) /\ DOMAIN s = 1..Len(s)
        /\ Len(s) \in Nat /\ t[Len(s) + 1] = x /\ t # <<>>
        /\ \A i \in 1..Len(s) : t[i] = s[i]
    OBVIOUS
  <1>. HIDE DEF t
  <1>2. Ids(s) \subseteq Ids(t)
    BY <1>1 DEF Ids
  <1>3. x.id \in Ids(t)
    BY <1>1 DEF Ids
  <1>4. Newest(t) = x
    BY <1>1 DEF Newest
  <1>. QED  BY <1>2, <1>3, <1>4 DEF t

\* Appends keep the last version, or the copy that will replace it, up to date:
\* one step per action.
LEMMA NextVisible ==
    ASSUME OneWriterNineAppends, VisibleInv, IInv', [IcebergNext]_icebergVars
    PROVE  VisibleInv'
  <1>. USE DEF dirVars, handleVars
  <1>1. PICK n \in 1..9 : VersionsUpTo(n)
    BY DEF VisibleInv
  <1>2. /\ \A h \in Handle : snaps[h] \in Seq(Snapshot)
        /\ pc \in [Handle -> {"closed", "open", "data", "commit"}]
        /\ DOMAIN snaps = Handle /\ DOMAIN next = Handle
        /\ clock \in 0..MaxAppends /\ clock' \in 0..MaxAppends
        /\ \A v \in DOMAIN meta : meta[v] \in Metadata
    BY DEF VisibleInv, IInv, IcebergTypeOK
  <1>3. /\ DOMAIN meta = 1..n
        /\ meta[n].torn \/ UpToDate(meta[n].snaps, n)
    BY <1>1 DEF VersionsUpTo
  <1>4. ASSUME NEW h \in Handle
        PROVE  /\ pc[h] \in {"data", "commit"} => h \in Writer
               /\ pc[h] # "closed" /\ h \in Writer => UpToDate(snaps[h], n)
               /\ pc[h] = "data" => Len(snaps[h]) < clock
               /\ pc[h] = "commit" => meta[n].torn /\ Newest(snaps[h]) = next[h]
    BY <1>1 DEF VersionsUpTo
  <1>5. SUFFICES \E k \in 1..9 : VersionsUpTo(k)'
    BY DEF VisibleInv
  \* A step that leaves the directory alone and moves at most the handle h.
  <1>6. ASSUME NEW h \in Handle, meta' = meta, acked' = acked, clock <= clock',
               \A k \in Handle : k # h =>
                   pc'[k] = pc[k] /\ snaps'[k] = snaps[k] /\ next'[k] = next[k],
               pc'[h] \in {"data", "commit"} => h \in Writer,
               pc'[h] # "closed" /\ h \in Writer => UpToDate(snaps'[h], n),
               pc'[h] = "data" => Len(snaps'[h]) < clock',
               pc'[h] # "commit"
        PROVE  VersionsUpTo(n)'
    <2>1. DOMAIN meta' = 1..n /\ (meta'[n].torn \/ UpToDate(meta[n].snaps, n)')
      <3>1. UpToDate(meta[n].snaps, n) => UpToDate(meta[n].snaps, n)'
        BY <1>2, <1>6, TableAssumption DEF UpToDate
      <3>. QED  BY <1>3, <1>6, <3>1
    <2>2. ASSUME NEW k \in Handle
          PROVE  /\ pc'[k] \in {"data", "commit"} => k \in Writer
                 /\ pc'[k] # "closed" /\ k \in Writer => UpToDate(snaps[k], n)'
                 /\ pc'[k] = "data" => Len(snaps'[k]) < clock'
                 /\ pc'[k] = "commit" => meta'[n].torn /\ Newest(snaps'[k]) = next'[k]
      <3>1. CASE k = h
        <4>1. UpToDate(snaps'[h], n) => UpToDate(snaps[h], n)'
          BY <1>2, <1>6, TableAssumption DEF UpToDate
        <4>. QED  BY <3>1, <4>1, <1>6
      <3>2. CASE k # h
        <4>1. pc'[k] = pc[k] /\ snaps'[k] = snaps[k] /\ next'[k] = next[k]
          BY <3>2, <1>6
        <4>2. UpToDate(snaps[k], n) => UpToDate(snaps[k], n)'
          BY <4>1, <1>2, <1>6, TableAssumption DEF UpToDate
        <4>3. pc[k] = "data" => Len(snaps[k]) < clock'
          <5>1. Len(snaps[k]) \in Nat /\ clock \in Nat /\ clock' \in Nat
            BY <1>2, TableAssumption
          <5>. QED  BY <5>1, <1>4, <1>6
        <4>. QED  BY <4>1, <4>2, <4>3, <1>4, <1>6
      <3>. QED  BY <3>1, <3>2
    <2>. QED  BY <2>1, <2>2 DEF VersionsUpTo
  <1>7. ASSUME NEW h \in Handle, Open(h) PROVE VersionsUpTo(n)'
    <2>1. PICK v \in DOMAIN meta : /\ IsLatest(v) /\ ~meta[v].torn
                                   /\ snaps' = [snaps EXCEPT ![h] = meta[v].snaps]
      BY <1>7 DEF Open
    <2>2. v = n
      BY <2>1, <1>3, LastPath
    <2>3. /\ meta' = meta /\ acked' = acked /\ clock' = clock /\ next' = next
          /\ pc' = [pc EXCEPT ![h] = "open"]
      BY <1>7 DEF Open
    <2>4. snaps'[h] = meta[n].snaps /\ UpToDate(meta[n].snaps, n) /\ pc'[h] = "open"
      BY <2>1, <2>2, <2>3, <1>2, <1>3
    <2>5. \A k \in Handle : k # h =>
                   pc'[k] = pc[k] /\ snaps'[k] = snaps[k] /\ next'[k] = next[k]
      BY <2>1, <2>3, <1>2
    <2>6. clock <= clock'
      BY <2>3, <1>2, TableAssumption
    <2>. QED  BY <2>3, <2>4, <2>5, <2>6, <1>6
  <1>8. ASSUME NEW h \in Handle, Drop(h) PROVE VersionsUpTo(n)'
    <2>1. /\ meta' = meta /\ acked' = acked /\ clock' = clock /\ next' = next
          /\ pc' = [pc EXCEPT ![h] = "closed"] /\ snaps' = [snaps EXCEPT ![h] = <<>>]
      BY <1>8 DEF Drop
    <2>2. pc'[h] = "closed"
      BY <2>1, <1>2
    <2>3. \A k \in Handle : k # h =>
                   pc'[k] = pc[k] /\ snaps'[k] = snaps[k] /\ next'[k] = next[k]
      BY <2>1, <1>2
    <2>4. clock <= clock'
      BY <2>1, <1>2, TableAssumption
    <2>. QED  BY <2>1, <2>2, <2>3, <2>4, <1>6
  <1>9. ASSUME NEW h \in Handle, StartAppend(h) PROVE VersionsUpTo(n)'
    <2>1. /\ h \in Writer /\ pc[h] = "open" /\ clock' = clock + 1
          /\ meta' = meta /\ acked' = acked /\ snaps' = snaps
          /\ pc' = [pc EXCEPT ![h] = "data"]
          /\ \E x : next' = [next EXCEPT ![h] = x]
      BY <1>9 DEF StartAppend
    <2>2. pc'[h] = "data" /\ UpToDate(snaps[h], n) /\ snaps'[h] = snaps[h]
      BY <2>1, <1>2, <1>4
    <2>3. Len(snaps[h]) < clock'
      <3>1. snaps[h] \in Seq(Snapshot) /\ clock \in Nat
        BY <1>2, TableAssumption
      <3>2. Len(snaps[h]) <= clock
        BY <2>2, <3>1 DEF UpToDate
      <3>. QED  BY <2>1, <3>1, <3>2
    <2>4. \A k \in Handle : k # h =>
                   pc'[k] = pc[k] /\ snaps'[k] = snaps[k] /\ next'[k] = next[k]
      BY <2>1, <1>2
    <2>5. clock <= clock'
      BY <2>1, <1>2, TableAssumption
    <2>. QED  BY <2>1, <2>2, <2>3, <2>4, <2>5, <1>6
  <1>10. ASSUME NEW h \in Handle, DataFails(h) PROVE VersionsUpTo(n)'
    <2>1. /\ pc[h] = "data" /\ meta' = meta /\ acked' = acked /\ clock' = clock
          /\ snaps' = snaps /\ pc' = [pc EXCEPT ![h] = "open"]
          /\ next' = [next EXCEPT ![h] = NoSnapshot]
      BY <1>10 DEF DataFails
    <2>2. pc'[h] = "open" /\ UpToDate(snaps'[h], n)
      BY <2>1, <1>2, <1>4
    <2>3. \A k \in Handle : k # h =>
                   pc'[k] = pc[k] /\ snaps'[k] = snaps[k] /\ next'[k] = next[k]
      BY <2>1, <1>2
    <2>4. clock <= clock'
      BY <2>1, <1>2, TableAssumption
    <2>. QED  BY <2>1, <2>2, <2>3, <2>4, <1>6
  \* Only the writer is between a new id and the end of its append.
  <1>11. ASSUME NEW h \in Handle, pc[h] \in {"data", "commit"}, NEW k \in Handle, k # h
         PROVE  k \notin Writer /\ pc[k] \notin {"data", "commit"}
    BY <1>4, <1>11 DEF OneWriterNineAppends
  <1>12. ASSUME NEW h \in Handle, StartCommit(h) PROVE \E k \in 1..9 : VersionsUpTo(k)'
    <2>1. /\ pc[h] = "data" /\ acked' = acked /\ clock' = clock /\ next' = next
          /\ snaps' = [snaps EXCEPT ![h] = Append(@, next[h])]
          /\ meta' = WithVersion(Len(snaps[h]) + 1, TornFile)
          /\ pc' = [pc EXCEPT ![h] = "commit"]
      BY <1>12 DEF StartCommit
    <2>2. /\ UpToDate(snaps[h], n) /\ Len(snaps[h]) < clock
          /\ snaps[h] \in Seq(Snapshot) /\ next[h] \in Snapshot
      BY <2>1, <1>2, <1>4 DEF VisibleInv, IInv, HandlesSound
    <2>3. PICK m \in 1..9 : m = Len(snaps[h]) + 1 /\ m <= clock
      <3>1. clock \in Nat /\ clock <= 9
        BY <1>2, TableAssumption DEF OneWriterNineAppends
      <3>2. Len(snaps[h]) \in Nat
        BY <2>2
      <3>3. Len(snaps[h]) + 1 \in 1..9 /\ Len(snaps[h]) + 1 <= clock
        BY <3>1, <3>2, <2>2
      <3>. QED  BY <3>3, Zenon
    <2>4. (1..n) \cup {m} = 1..m
      <3>1. m = n + 1 \/ (n = 1 /\ m = 1)
        BY <2>2, <2>3 DEF UpToDate
      <3>. QED  BY <3>1, <2>3
    <2>5. DOMAIN meta' = 1..m /\ meta'[m].torn
      BY <2>1, <2>3, <2>4, <1>3 DEF WithVersion, TornFile
    <2>6. snaps'[h] = Append(snaps[h], next[h]) /\ pc'[h] = "commit" /\ next'[h] = next[h]
      BY <2>1, <1>2
    <2>7. UpToDate(snaps[h], m)'
      <3>1. acked \subseteq Ids(snaps'[h])
        BY <2>2, <2>6, IdsAppend DEF UpToDate
      <3>2. Len(snaps'[h]) = m
        BY <2>2, <2>3, <2>6
      <3>. QED  BY <3>1, <3>2, <2>1, <2>3 DEF UpToDate
    <2>8. Newest(snaps'[h]) = next'[h]
      BY <2>2, <2>6, IdsAppend
    <2>9. h \in Writer
      BY <2>1, <1>4
    <2>10. ASSUME NEW k \in Handle
           PROVE  /\ pc'[k] \in {"data", "commit"} => k \in Writer
                  /\ pc'[k] # "closed" /\ k \in Writer => UpToDate(snaps[k], m)'
                  /\ pc'[k] = "data" => Len(snaps'[k]) < clock'
                  /\ pc'[k] = "commit" => meta'[m].torn /\ Newest(snaps'[k]) = next'[k]
      <3>1. CASE k = h
        BY <3>1, <2>5, <2>6, <2>7, <2>8, <2>9
      <3>2. CASE k # h
        <4>1. k \notin Writer /\ pc[k] \notin {"data", "commit"}
          BY <3>2, <2>1, <1>11
        <4>2. pc'[k] = pc[k]
          BY <3>2, <2>1, <1>2
        <4>. QED  BY <4>1, <4>2
      <3>. QED  BY <3>1, <3>2
    <2>. QED  BY <2>3, <2>5, <2>10 DEF VersionsUpTo
  <1>13. ASSUME NEW h \in Handle, FinishCommit(h) PROVE VersionsUpTo(n)'
    <2>1. /\ pc[h] = "commit" /\ clock' = clock /\ snaps' = snaps
          /\ meta' = WithVersion(Len(snaps[h]), [torn |-> FALSE, snaps |-> snaps[h]])
          /\ acked' = acked \cup {next[h].id}
          /\ pc' = [pc EXCEPT ![h] = "open"]
      BY <1>13 DEF FinishCommit, EndAppend
    <2>2. /\ UpToDate(snaps[h], n) /\ Newest(snaps[h]) = next[h] /\ h \in Writer
          /\ snaps[h] \in Seq(Snapshot) /\ snaps[h] # <<>>
      BY <2>1, <1>2, <1>4 DEF VisibleInv, IInv, HandlesSound
    <2>3. Len(snaps[h]) = n
      BY <2>2 DEF UpToDate
    <2>4. next[h].id \in Ids(snaps[h])
      BY <2>2, LastType DEF Ids
    <2>5. UpToDate(snaps[h], n)'
      BY <2>1, <2>2, <2>3, <2>4 DEF UpToDate
    <2>6. DOMAIN meta' = 1..n /\ meta'[n].snaps = snaps[h]
      BY <2>1, <2>3, <1>3 DEF WithVersion
    <2>7. UpToDate(meta[n].snaps, n)'
      BY <2>1, <2>5, <2>6
    <2>8. ASSUME NEW k \in Handle
          PROVE  /\ pc'[k] \in {"data", "commit"} => k \in Writer
                 /\ pc'[k] # "closed" /\ k \in Writer => UpToDate(snaps[k], n)'
                 /\ pc'[k] = "data" => Len(snaps'[k]) < clock'
                 /\ pc'[k] = "commit" => meta'[n].torn /\ Newest(snaps'[k]) = next'[k]
      <3>1. CASE k = h
        BY <3>1, <2>1, <2>5, <1>2
      <3>2. CASE k # h
        <4>1. k \notin Writer /\ pc[k] \notin {"data", "commit"}
          BY <3>2, <2>1, <1>11
        <4>2. pc'[k] = pc[k]
          BY <3>2, <2>1, <1>2
        <4>. QED  BY <4>1, <4>2
      <3>. QED  BY <3>1, <3>2
    <2>. QED  BY <2>6, <2>7, <2>8 DEF VersionsUpTo
  <1>14. ASSUME NEW h \in Handle, CommitFails(h) PROVE VersionsUpTo(n)'
    <2>1. /\ pc[h] = "commit" /\ meta' = meta /\ acked' = acked /\ clock' = clock
          /\ snaps' = snaps /\ pc' = [pc EXCEPT ![h] = "open"]
          /\ next' = [next EXCEPT ![h] = NoSnapshot]
      BY <1>14 DEF CommitFails, EndAppend
    <2>2. pc'[h] = "open" /\ UpToDate(snaps'[h], n)
      BY <2>1, <1>2, <1>4
    <2>3. \A k \in Handle : k # h =>
                   pc'[k] = pc[k] /\ snaps'[k] = snaps[k] /\ next'[k] = next[k]
      BY <2>1, <1>2
    <2>4. clock <= clock'
      BY <2>1, <1>2, TableAssumption
    <2>. QED  BY <2>1, <2>2, <2>3, <2>4, <1>6
  <1>15. CASE HandleCrash
    <2>1. /\ meta' = meta /\ acked' = acked /\ clock' = clock
          /\ pc' = [k \in Handle |-> "closed"]
      BY <1>15 DEF HandleCrash
    <2>2. UpToDate(meta[n].snaps, n) => UpToDate(meta[n].snaps, n)'
      BY <2>1 DEF UpToDate
    <2>. QED  BY <2>1, <2>2, <1>3 DEF VersionsUpTo
  <1>16. CASE UNCHANGED icebergVars
    <2>1. VersionsUpTo(n)' <=> VersionsUpTo(n)
      BY <1>16 DEF icebergVars, VersionsUpTo, UpToDate
    <2>. QED  BY <2>1, <1>1
  <1>. QED
    BY <1>7, <1>8, <1>9, <1>10, <1>12, <1>13, <1>14, <1>15, <1>16 DEF IcebergNext

(* As long as one handle appends, and no more than nine times, a query at   *)
(* the time of an acknowledged append reads that append and those before    *)
(* it, whatever failed or crashed, unless a commit that did not finish left *)
(* the last metadata file torn (append and open, table.rs:96-196).  The     *)
(* bound is the code's: the tenth version sorts before the second.          *)
THEOREM AppendsVisible == OneWriterNineAppends => (IcebergSpec => []CommittedVisible)
  <1>. SUFFICES ASSUME OneWriterNineAppends PROVE IcebergSpec => []CommittedVisible
    OBVIOUS
  <1>1. IcebergInit /\ IInv => VisibleInv
    <2>. SUFFICES ASSUME IcebergInit, IInv PROVE VersionsUpTo(1)
      BY DEF VisibleInv
    <2>1. DOMAIN meta = 1..1 /\ meta[1].snaps = <<>> /\ acked = {}
      BY DEF IcebergInit
    <2>2. UpToDate(<<>>, 1)
      BY <2>1 DEF UpToDate
    <2>. QED  BY <2>1, <2>2 DEF IcebergInit, VersionsUpTo
  <1>2. VisibleInv /\ IInv' /\ [IcebergNext]_icebergVars => VisibleInv'
    BY NextVisible
  <1>3. VisibleInv => CommittedVisible
    <2>. SUFFICES ASSUME VisibleInv, NEW v \in DOMAIN meta, IsLatest(v), ~meta[v].torn,
                         NEW t \in acked
                  PROVE  {i \in acked : i <= t} \subseteq QueryAt(meta[v].snaps, t)
      BY DEF CommittedVisible
    <2>1. PICK n \in 1..9 : VersionsUpTo(n)
      BY DEF VisibleInv
    <2>2. v = n
      BY <2>1, LastPath DEF VersionsUpTo
    <2>3. acked \subseteq Ids(meta[v].snaps)
      BY <2>1, <2>2 DEF VersionsUpTo, UpToDate
    <2>4. Ids(meta[v].snaps) \subseteq complete
      BY DEF VisibleInv, IInv, MetadataSound, SoundHistory, Ids
    <2>. QED  BY <2>3, <2>4 DEF QueryAt, DataFilesAt
  <1>. QED  BY <1>1, <1>2, <1>3, IcebergInvariant, PTL DEF IcebergSpec
=============================================================================
