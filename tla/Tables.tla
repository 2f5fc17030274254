------------------------------- MODULE Tables -------------------------------
(***************************************************************************)
(* Tables and materialized views of one engine (opensnow-core): CREATE     *)
(* TABLE AS, COPY INTO, DROP TABLE and CREATE, REFRESH and DROP            *)
(* MATERIALIZED VIEW.  A name stands for a Parquet file, a registration in *)
(* the session and, for a view, a row of the catalog; only the session is  *)
(* lost when the process ends.                                             *)
(*                                                                         *)
(* The engine's thread runs one command at a time, so a step is one effect *)
(* of the current command; a crash can fall between any two.  Commands     *)
(* that fail before they change anything are stuttering steps.             *)
(***************************************************************************)
EXTENDS Integers

CONSTANTS
    Name,         \* unqualified table and view names
    MaxWrites,    \* bound: files written
    MaxFaults,    \* bound: file or catalog operations that fail
    MaxCrashes    \* bound: ends of the process, clean or not

ASSUME TablesAssumption == {MaxWrites, MaxFaults, MaxCrashes} \subseteq Nat

VARIABLES
    up,        \* the process has started
    cmd,       \* the command the engine's thread is in
    file,      \* [directory -> [Name -> its Parquet file]]
    reg,       \* session: which directory's file a name is registered on
    temp,      \* session: names with a registered __copy_source_<name>
    rows,      \* catalog: names in materialized_views
    writes, faults, crashes,
    said       \* history: what the last answered command on a name promised,
               \* if no other command on the name has changed anything since

bounds == <<writes, faults, crashes>>
vars == <<up, cmd, file, reg, temp, rows, bounds, said>>

Dir == {"public", "views"}
Idle == [op |-> "none"]

\* A file is a version that was written completely, or one of these.
Missing == 0
Empty == -1    \* truncated
Torn == -2     \* partly written

\* What a query on a name reads that is registered on directory d.
Content(n, d) == IF d = "none" THEN Missing ELSE file[d][n]

TypeOK ==
    /\ up \in BOOLEAN
    /\ cmd = Idle \/ cmd \in [op : {"ctas", "copy", "create", "refresh", "drop"},
                              name : Name,
                              step : {"open", "write", "register", "record",
                                      "forget"}]
    /\ file \in [Dir -> [Name -> {Empty, Torn} \cup Nat]]
    /\ reg \in [Name -> Dir \cup {"none"}]
    /\ temp \subseteq Name /\ rows \subseteq Name
    /\ {writes, faults, crashes} \subseteq Nat
    /\ said \in [Name ->
         [kind : {"unknown", "table", "view", "no table", "no view"},
          version : Nat]]

Unknown == [kind |-> "unknown", version |-> 0]

Init ==
    /\ up = TRUE /\ cmd = Idle
    /\ file = [d \in Dir |-> [n \in Name |-> Missing]]
    /\ reg = [n \in Name |-> "none"]
    /\ temp = {} /\ rows = {}
    /\ writes = 0 /\ faults = 0 /\ crashes = 0
    /\ said = [n \in Name |-> Unknown]

DirOf(op) == IF op \in {"ctas", "copy"} THEN "public" ELSE "views"

Fault == faults < MaxFaults /\ faults' = faults + 1

Say(n, kind, v) ==
    said' = [said EXCEPT ![n] = [kind |-> kind, version |-> v]]

-----------------------------------------------------------------------------
(* The start of a command: the engine is idle and the source yields rows.  *)

Begin(op, n) ==
    /\ up /\ cmd = Idle /\ writes < MaxWrites
    /\ cmd' = [op |-> op, name |-> n, step |-> "open"]
    /\ Say(n, "unknown", 0)
    /\ UNCHANGED <<up, file, reg, rows, bounds>>

CreateTable(n) == Begin("ctas", n) /\ UNCHANGED temp

\* The source is registered under a name of its own; when it cannot be read,
\* the error leaves that registration behind.
CopyInto(n) ==
    /\ n \notin temp
    /\ \/ Begin("copy", n)
       \/ up /\ cmd = Idle /\ UNCHANGED <<up, cmd, file, reg, rows, bounds, said>>
    /\ temp' = temp \cup {n}

CreateView(n) == n \notin rows /\ Begin("create", n) /\ UNCHANGED temp

RefreshView(n) == n \in rows /\ Begin("refresh", n) /\ UNCHANGED temp

-----------------------------------------------------------------------------
(* The steps they share: write_warehouse_parquet and the registration.     *)

At(step) == up /\ cmd # Idle /\ cmd.step = step
Goto(step) == cmd' = [cmd EXCEPT !.step = step]
SetFile(d, n, c) == file' = [file EXCEPT ![d][n] = c]

\* File::create truncates what is there.
OpenFile ==
    /\ At("open")
    /\ \/ SetFile(DirOf(cmd.op), cmd.name, Empty) /\ Goto("write")
          /\ UNCHANGED faults
       \/ Fault /\ cmd' = Idle /\ UNCHANGED file
    /\ UNCHANGED <<up, reg, temp, rows, writes, crashes, said>>

\* Some bytes reach the file.
Flush ==
    /\ At("write") /\ file[DirOf(cmd.op)][cmd.name] = Empty
    /\ SetFile(DirOf(cmd.op), cmd.name, Torn)
    /\ UNCHANGED <<up, cmd, reg, temp, rows, bounds, said>>

\* The writer is closed, or fails and the file stays as it is.
CloseFile ==
    /\ At("write")
    /\ \/ /\ writes' = writes + 1
          /\ SetFile(DirOf(cmd.op), cmd.name, writes + 1)
          /\ Goto("register")
          /\ UNCHANGED faults
       \/ Fault /\ cmd' = Idle /\ UNCHANGED <<file, writes>>
    /\ UNCHANGED <<up, reg, temp, rows, crashes, said>>

\* Registering a table without replacing the registration there is.
RegisterTable_Keep ==
    /\ At("register") /\ cmd.op = "ctas"
    /\ reg' = [reg EXCEPT ![cmd.name] = IF @ = "none" THEN "public" ELSE @]
    /\ Say(cmd.name, "table", writes)
    /\ cmd' = Idle
    /\ UNCHANGED <<up, file, temp, rows, bounds>>

\* CREATE TABLE AS replaces the registration and answers.
RegisterTable ==
    /\ At("register") /\ cmd.op = "ctas"
    /\ reg' = [reg EXCEPT ![cmd.name] = "public"]
    /\ Say(cmd.name, "table", writes)
    /\ cmd' = Idle
    /\ UNCHANGED <<up, file, temp, rows, bounds>>

\* COPY INTO does not: a registered name is an error, after the write.
RegisterCopy ==
    /\ At("register") /\ cmd.op = "copy"
    /\ temp' = temp \ {cmd.name}
    /\ \/ /\ reg[cmd.name] = "none"
          /\ reg' = [reg EXCEPT ![cmd.name] = "public"]
          /\ Say(cmd.name, "table", writes)
       \/ reg[cmd.name] # "none" /\ UNCHANGED <<reg, said>>
    /\ cmd' = Idle
    /\ UNCHANGED <<up, file, rows, bounds>>

RegisterView ==
    /\ At("register") /\ cmd.op \in {"create", "refresh"}
    /\ reg' = [reg EXCEPT ![cmd.name] = "views"]
    /\ Goto("record")
    /\ UNCHANGED <<up, file, temp, rows, bounds, said>>

\* upsert_materialized_view.
RecordView ==
    /\ At("record")
    /\ \/ /\ rows' = rows \cup {cmd.name}
          /\ Say(cmd.name, "view", writes)
          /\ UNCHANGED faults
       \/ Fault /\ UNCHANGED <<rows, said>>
    /\ cmd' = Idle
    /\ UNCHANGED <<up, file, reg, temp, writes, crashes>>

-----------------------------------------------------------------------------
(* DROP. *)

\* The file is removed while the name is still registered.
DropTable_FileOnly(n) ==
    /\ up /\ cmd = Idle
    /\ SetFile("public", n, Missing)
    /\ Say(n, "no table", 0)
    /\ UNCHANGED <<up, cmd, reg, temp, rows, bounds>>

DropTable(n) ==
    /\ up /\ cmd = Idle
    /\ reg' = [reg EXCEPT ![n] = "none"]
    /\ \/ /\ SetFile("public", n, Missing)
          /\ Say(n, "no table", 0)
          /\ UNCHANGED faults
       \/ /\ file["public"][n] # Missing /\ Fault
          /\ Say(n, "unknown", 0)
          /\ UNCHANGED file
    /\ UNCHANGED <<up, cmd, temp, rows, writes, crashes>>

\* The name is deregistered, whatever it stands for; the file of a view is
\* removed, and a failure to remove it is only logged.
DropView(n) ==
    /\ up /\ cmd = Idle
    /\ reg' = [reg EXCEPT ![n] = "none"]
    /\ \/ SetFile("views", n, IF n \in rows THEN Missing ELSE file["views"][n])
          /\ UNCHANGED faults
       \/ n \in rows /\ file["views"][n] # Missing /\ Fault /\ UNCHANGED file
    /\ cmd' = [op |-> "drop", name |-> n, step |-> "forget"]
    /\ Say(n, "unknown", 0)
    /\ UNCHANGED <<up, temp, rows, writes, crashes>>

\* The row is deleted; without one the answer is an error.
ForgetView ==
    /\ At("forget")
    /\ rows' = rows \ {cmd.name}
    /\ IF cmd.name \in rows THEN Say(cmd.name, "no view", 0) ELSE UNCHANGED said
    /\ cmd' = Idle
    /\ UNCHANGED <<up, file, reg, temp, bounds>>

-----------------------------------------------------------------------------
(* The process. *)

\* It ends; the session and the command in it are gone.
Crash ==
    /\ up /\ crashes < MaxCrashes
    /\ crashes' = crashes + 1
    /\ up' = FALSE /\ cmd' = Idle
    /\ reg' = [n \in Name |-> "none"] /\ temp' = {}
    /\ UNCHANGED <<file, rows, writes, faults, said>>

\* register_materialized_views registers the views that have a readable file.
Restorable(n) == n \in rows /\ file["views"][n] \notin {Missing, Torn}

\* register_warehouse_tables registers every table file and returns the first
\* error, which an unreadable footer is (a file without a byte is not); the
\* views get the names that are free then.
Start ==
    /\ ~up
    /\ \A n \in Name : file["public"][n] # Torn
    /\ up' = TRUE
    /\ reg' = [n \in Name |->
                 IF file["public"][n] # Missing THEN "public"
                 ELSE IF Restorable(n) THEN "views" ELSE "none"]
    /\ UNCHANGED <<cmd, file, temp, rows, bounds, said>>

Step == OpenFile \/ Flush \/ CloseFile \/ RegisterTable \/ RegisterCopy
        \/ RegisterView \/ RecordView \/ ForgetView

Next ==
    \/ \E n \in Name : CreateTable(n) \/ CopyInto(n) \/ CreateView(n)
                       \/ RefreshView(n) \/ DropTable(n) \/ DropView(n)
    \/ Step \/ Crash \/ Start

Spec == Init /\ [][Next]_vars

-----------------------------------------------------------------------------
(* Properties. *)

\* A registered name always has a file behind it, through drops, name
\* clashes, failures and crashes (handle_drop_table,
\* handle_drop_materialized_view, register_materialized_views).
RegisteredHasFile ==
    \A n \in Name : reg[n] # "none" => Content(n, reg[n]) # Missing

\* What a command answered stays true, also after the process ended and
\* started again, until a later command on the same name changes something:
\* a created table or view reads as the rows it was created from, a dropped
\* one is not found.  For a view and a table of the same name the table's
\* file wins at the next start, and DROP TABLE leaves the view's row.
AckedStands ==
    up => \A n \in Name :
        LET now == Content(n, reg[n]) IN
        /\ said[n].kind = "table" => now = said[n].version
        /\ said[n].kind = "view" /\ file["public"][n] = Missing
             => now = said[n].version
        /\ said[n].kind = "no table" /\ n \notin rows => now = Missing
        /\ said[n].kind = "no view" /\ file["public"][n] = Missing => now = Missing
=============================================================================
