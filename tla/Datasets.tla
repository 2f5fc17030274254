------------------------------ MODULE Datasets ------------------------------
(***************************************************************************)
(* The sample datasets: TPC-H (bench.rs), banking and telecom (industry),  *)
(* and the two that the command line writes (main.rs).  A generator writes *)
(* one Parquet file per table, in order, and stops at the first error; a   *)
(* later run with another scale writes over the files.                     *)
(*                                                                         *)
(* Of a table the model keeps its keys and, per reference, the table and   *)
(* the keys a row may hold: every key a random draw can give, so that one  *)
(* state stands for every outcome of the draws.                            *)
(***************************************************************************)
EXTENDS Integers, Sequences, FiniteSets

CONSTANT Scales   \* the scale factors asked for; thousandths for TPC-H

ASSUME DatasetsAssumption == Scales \subseteq Nat

VARIABLES dataset,   \* the one whose generator runs
          files,     \* of each of its tables, the scale of the file on disk
          run        \* the scale and the next table of the generator, and if it ended well

datasetVars == <<dataset, files, run>>

NoFile == -1

\* The keys of a table that no reference names are left out.
Table(name, keys, refs) == [name |-> name, keys |-> keys, refs |-> refs]
Ref(to, keys) == [to |-> to, keys |-> keys]
AtLeast(n, least) == IF n < least THEN least ELSE n

-----------------------------------------------------------------------------
(* TPC-H: keys count from 1, those of region and nation from 0.             *)

Suppliers(s) == AtLeast((100 * s) \div 1000, 10)
Customers(s) == AtLeast(150 * s, 100)
Parts(s) == AtLeast(200 * s, 100)
Orders(s) == AtLeast(1500 * s, 1000)

\* The supplier of a part's j-th entry of four.
PartSupplier_FromZero(p, j, suppliers) ==
    (p + j * (suppliers \div 4 + (p - 1) \div suppliers)) % suppliers
PartSupplier(p, j, suppliers) ==
    ((p + j * (suppliers \div 4 + (p - 1) \div suppliers)) % suppliers) + 1

PartSupp(s) ==
    Table("partsupp", {}, {Ref("part", 1..Parts(s)),
        Ref("supplier", {PartSupplier(p, j, Suppliers(s)) : p \in 1..Parts(s), j \in 0..3})})

OrderTables(s) ==
    << Table("orders", 1..Orders(s), {Ref("customer", 1..Customers(s))}),
       Table("lineitem", {}, {Ref("orders", 1..Orders(s)), Ref("part", 1..Parts(s)),
                              Ref("supplier", 1..Suppliers(s))}) >>

Region == Table("region", 0..4, {})
Nation == Table("nation", 0..24, {Ref("region", 0..4)})
Supplier(s) == Table("supplier", 1..Suppliers(s), {Ref("nation", 0..24)})
Customer(s) == Table("customer", 1..Customers(s), {Ref("nation", 0..24)})
Part(s) == Table("part", 1..Parts(s), {})

Tpch(s) == <<Region, Nation, Supplier(s), Customer(s), Part(s), PartSupp(s)>> \o OrderTables(s)

-----------------------------------------------------------------------------
(* Banking (industry): a reference is a draw from the ids made before it.   *)

CustomerIds(s) == 0..(100 * s - 1)
AccountIds(s) == 0..(200 * s - 1)

BankCustomers(s) == Table("customers", CustomerIds(s), {})
BankAccounts(s) == Table("accounts", AccountIds(s), {Ref("customers", CustomerIds(s))})
BankTransactions(s) == Table("transactions", {}, {Ref("accounts", AccountIds(s))})
BankCards(s) == Table("cards", {}, {Ref("accounts", AccountIds(s))})
AmlAlerts(s) == Table("aml_alerts", {}, {Ref("customers", CustomerIds(s))})
BankLoans(s) == Table("loans", {}, {Ref("customers", CustomerIds(s))})

Banking(s) == <<BankCustomers(s), BankAccounts(s), BankTransactions(s), BankCards(s),
                AmlAlerts(s), BankLoans(s)>>

-----------------------------------------------------------------------------
(* Telecom (industry).  A tower's id holds its index and its technology,    *)
(* and the ids that the other tables draw from are made a second time.      *)

Locations == 20
Technologies == 4
TowerId(index, technology) == <<index, technology>>

TowerCount(s) == 20 * s
Towers(s) == {TowerId(i, i % Technologies) : i \in 0..(TowerCount(s) - 1)}
TowersDrawn(s) == {TowerId((i % Locations) * Technologies + (i % Technologies),
                           i % Technologies) : i \in 0..(TowerCount(s) - 1)}

Subscribers(s) == Table("subscribers", 1..(1000 * s), {})
CallRecords(name, s) ==
    Table(name, {}, {Ref("subscribers", 1..(1000 * s)), Ref("towers", TowersDrawn(s))})
NetworkEvents(s) == Table("network_events", {}, {Ref("towers", TowersDrawn(s))})

Telecom(s) == <<Table("towers", Towers(s), {}), Subscribers(s), CallRecords("cdr_voice", s),
                CallRecords("cdr_sms", s), CallRecords("cdr_data", s), NetworkEvents(s)>>

-----------------------------------------------------------------------------
(* The command line's own data, of one size.                                *)

CliRecords == Table("cdrs", {}, {Ref("towers", {(i % 500) + 1 : i \in 0..9999})})
CliSubscribers == Table("subscribers", 1..5000, {})
CliTowers == Table("towers", {i + 1 : i \in 0..499}, {})

CliTransactions == Table("transactions", {}, {})
CliAccounts == Table("accounts", {}, {Ref("customers", {(i % 5000) + 1 : i \in 0..9999})})
CliCustomers == Table("customers", {i + 1 : i \in 0..4999}, {})

-----------------------------------------------------------------------------
DatasetNames == {"tpch", "banking", "telecom", "cli-telecom", "cli-banking"}

Dataset(d, s) == CASE d = "tpch" -> Tpch(s)
                   [] d = "banking" -> Banking(s)
                   [] d = "telecom" -> Telecom(s)
                   [] d = "cli-telecom" -> <<CliRecords, CliSubscribers, CliTowers>>
                   [] d = "cli-banking" -> <<CliTransactions, CliAccounts, CliCustomers>>

DatasetInit == /\ dataset \in DatasetNames
               /\ files = [k \in 1..8 |-> NoFile]
               /\ run = [scale |-> 0, next |-> 0, ok |-> FALSE]

Generate(s) == /\ run.next = 0
               /\ run' = [scale |-> s, next |-> 1, ok |-> FALSE]
               /\ UNCHANGED <<dataset, files>>

\* The file of the next table replaces the one of the same name.
WriteTable ==
    LET last == Len(Dataset(dataset, run.scale))
    IN  /\ run.next > 0
        /\ files' = [files EXCEPT ![run.next] = run.scale]
        /\ run' = [run EXCEPT !.next = IF @ = last THEN 0 ELSE @ + 1, !.ok = run.next = last]
        /\ UNCHANGED dataset

WriteTableFails == /\ run.next > 0
                   /\ run' = [run EXCEPT !.next = 0]
                   /\ UNCHANGED <<dataset, files>>

DatasetNext == (\E s \in Scales : Generate(s)) \/ WriteTable \/ WriteTableFails

DatasetSpec == DatasetInit /\ [][DatasetNext]_datasetVars

-----------------------------------------------------------------------------
OnDisk == {Dataset(dataset, files[k])[k] : k \in {i \in DOMAIN files : files[i] # NoFile}}

Dangling == {t \in OnDisk : \E r \in t.refs : \E u \in OnDisk :
                u.name = r.to /\ ~(r.keys \subseteq u.keys)}
Unmatched == {t \in OnDisk : \E r \in t.refs : \A u \in OnDisk : u.name # r.to}

(* The tables of a generator that ended well can be joined: whatever the    *)
(* draws were, and whatever an earlier run that failed had left there, each *)
(* key a row refers to is a key of the table it refers to.  The towers of a *)
(* small telecom dataset are left to the next property.                     *)
DatasetsJoin ==
    run.ok => /\ Unmatched = {}
              /\ \/ Dangling = {}
                 \/ dataset = "telecom" /\ TowerCount(run.scale) < Locations * Technologies

(* sample_data.rs:156 says of the second list of tower ids: "Collect tower  *)
(* IDs for reference".  A record that draws from it refers to a tower.      *)
TowersForReference == run.ok /\ dataset = "telecom" => Dangling = {}
=============================================================================
