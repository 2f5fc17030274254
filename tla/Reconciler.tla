------------------------------ MODULE Reconciler ------------------------------
(***************************************************************************)
(* Virtual warehouses and the controllers that size them: CREATE and ALTER *)
(* WAREHOUSE (opensnow-core/commands.rs) change a catalog row, and a       *)
(* controller (opensnow-distributed/operator.rs, k8s.rs) reads the rows,   *)
(* asks kubectl for the replicas of each StatefulSet, plans, and scales    *)
(* one StatefulSet after the other.  Nothing is locked meanwhile.  Two     *)
(* kinds run: the loop, and the one-shot `operator-apply` command.         *)
(***************************************************************************)
EXTENDS Integers, FiniteSets

CONSTANTS Houses,        \* warehouse names
          Sizes,         \* what a statement can ask for, pairs <<min, max>>
          Half,          \* an i32 holds -Half .. Half-1
          MaxCommands,   \* bound: SQL statements
          MaxMisses,     \* bound: failures of the catalog and of kubectl
          MaxApplies     \* bound: runs of the one-shot command

ASSUME ReconcilerAssumption == /\ Half \in Nat /\ Half >= 2
                               /\ Sizes \subseteq Int \X Int

VARIABLES house,    \* warehouses: a row per name
          replicas, \* .spec.replicas of each StatefulSet
          ctl,      \* what each controller is doing
          commands, misses, applies

reconcilerVars == <<house, replicas, ctl, commands, misses, applies>>

Controllers == {"loop", "apply"}
NoHouse == [state |-> "none", min |-> 0, max |-> 0]
NoSet == -1        \* no StatefulSet of that name
Asleep == [at |-> "asleep", specs |-> <<>>, seen |-> <<>>, todo |-> {}]
Greater(a, b) == IF a > b THEN a ELSE b

(* i64_to_i32_clamped, of the command, and `as i32`, of the loop, which    *)
(* wraps.                                                                  *)
AsReplicas(c, n) ==
    IF c = "apply" THEN IF n >= Half THEN Half - 1 ELSE n
                   ELSE ((n + Half) % (2 * Half)) - Half

(* The replicas a row asks for.  Bounds below zero count as zero, and a    *)
(* maximum below the minimum as the minimum.                               *)
Desired(min, max, state) ==
    LET low == Greater(min, 0)
        high == Greater(Greater(max, 0), low)
    IN  IF state # "RUNNING" \/ high = 0 THEN 0 ELSE Greater(low, 1)

ReconcilerInit ==
    /\ house = [h \in Houses |-> NoHouse]
    /\ replicas = [h \in Houses |-> NoSet]
    /\ ctl = [c \in Controllers |-> Asleep]
    /\ commands = 0 /\ misses = 0 /\ applies = 0

-------------------------------------------------------------------------------
\* The statements, one row each; negative or crossed bounds are refused.
CreateHouse(h, size) ==
    /\ commands < MaxCommands /\ commands' = commands + 1
    /\ house[h] = NoHouse
    /\ 0 <= size[1] /\ size[1] <= size[2]
    /\ house' = [house EXCEPT ![h] = [state |-> "RUNNING", min |-> size[1], max |-> size[2]]]
    /\ UNCHANGED <<replicas, ctl, misses, applies>>

AlterHouse(h, state) ==
    /\ commands < MaxCommands /\ commands' = commands + 1
    /\ house[h] # NoHouse
    /\ house' = [house EXCEPT ![h].state = state]
    /\ UNCHANGED <<replicas, ctl, misses, applies>>

\* Somebody creates the StatefulSet; no code here does.
CreateSet(h) ==
    /\ replicas[h] = NoSet
    /\ replicas' = [replicas EXCEPT ![h] = 1]
    /\ UNCHANGED <<house, ctl, commands, misses, applies>>

-------------------------------------------------------------------------------
Miss == misses < MaxMisses /\ misses' = misses + 1

\* list_warehouses reads the whole table.
Listed == {h \in Houses : house[h] # NoHouse}

\* A cycle begins with the rows; the command stops when they cannot be read,
\* the loop goes on with none.
List(c) ==
    /\ ctl[c] = Asleep
    /\ IF c = "apply" THEN applies < MaxApplies /\ applies' = applies + 1
                      ELSE UNCHANGED applies
    /\ ctl' = [ctl EXCEPT ![c] =
           [at |-> "observe", specs |-> [h \in Listed |-> house[h]],
            seen |-> [h \in Listed |-> 0], todo |-> Listed]]
    /\ UNCHANGED <<house, replicas, commands, misses>>

ListFails(c) ==
    /\ ctl[c] = Asleep /\ Miss
    /\ IF c = "apply" THEN applies < MaxApplies /\ applies' = applies + 1
                      ELSE UNCHANGED applies
    /\ UNCHANGED <<house, replicas, ctl, commands>>

(* One kubectl get.  A StatefulSet that is missing and a call that fails   *)
(* both leave the warehouse out of the map, which then reads as 0.         *)
Observe(c, h) ==
    /\ ctl[c].at = "observe" /\ h \in ctl[c].todo
    /\ \/ /\ ctl' = [ctl EXCEPT ![c].todo = @ \ {h},
                                ![c].seen[h] = Greater(replicas[h], 0)]
          /\ UNCHANGED misses
       \/ Miss /\ ctl' = [ctl EXCEPT ![c].todo = @ \ {h}]
    /\ UNCHANGED <<house, replicas, commands, applies>>

Wanted(c, h) == LET s == ctl[c].specs[h]
                IN  Desired(AsReplicas(c, s.min), AsReplicas(c, s.max), s.state)

\* Mutant: a StatefulSet above its target is left alone.
Plan_UpOnly(c) ==
    /\ ctl[c].at = "observe" /\ ctl[c].todo = {}
    /\ ctl' = [ctl EXCEPT ![c].at = "scale",
           ![c].todo = {h \in DOMAIN ctl[c].specs : ctl[c].seen[h] < Wanted(c, h)}]
    /\ UNCHANGED <<house, replicas, commands, misses, applies>>

\* build_reconcile_plan, from the rows and the counts of this cycle.
Plan(c) ==
    /\ ctl[c].at = "observe" /\ ctl[c].todo = {}
    /\ ctl' = [ctl EXCEPT ![c].at = "scale",
           ![c].todo = {h \in DOMAIN ctl[c].specs : ctl[c].seen[h] # Wanted(c, h)}]
    /\ UNCHANGED <<house, replicas, commands, misses, applies>>

\* One kubectl scale; a failure is reported and the next one goes ahead.
Scale(c, h) ==
    /\ ctl[c].at = "scale" /\ h \in ctl[c].todo
    /\ ctl' = [ctl EXCEPT ![c].todo = @ \ {h}]
    /\ \/ /\ replicas[h] # NoSet
          /\ replicas' = [replicas EXCEPT ![h] = Wanted(c, h)]
          /\ UNCHANGED misses
       \/ replicas[h] = NoSet /\ UNCHANGED <<replicas, misses>>
       \/ Miss /\ UNCHANGED replicas
    /\ UNCHANGED <<house, commands, applies>>

Sleep(c) ==
    /\ ctl[c].at = "scale" /\ ctl[c].todo = {}
    /\ ctl' = [ctl EXCEPT ![c] = Asleep]
    /\ UNCHANGED <<house, replicas, commands, misses, applies>>

Cycle(c) ==
    \/ List(c) \/ Plan(c) \/ Sleep(c)
    \/ \E h \in Houses : Observe(c, h) \/ Scale(c, h)

ReconcilerNext ==
    \/ \E h \in Houses :
        \/ \E size \in Sizes : CreateHouse(h, size)
        \/ \E state \in {"RUNNING", "SUSPENDED"} : AlterHouse(h, state)
        \/ CreateSet(h)
    \/ \E c \in Controllers : Cycle(c) \/ ListFails(c)

\* A controller that has begun goes on, and the loop never stops.
ReconcilerFairness ==
    /\ WF_reconcilerVars(Cycle("loop"))
    /\ WF_reconcilerVars(ctl["apply"] # Asleep /\ Cycle("apply"))
ReconcilerSpec ==
    ReconcilerInit /\ [][ReconcilerNext]_reconcilerVars /\ ReconcilerFairness

-------------------------------------------------------------------------------
Target(h) == Desired(AsReplicas("loop", house[h].min),
                     AsReplicas("loop", house[h].max), house[h].state)

(* Once the statements and the failures end, every StatefulSet settles at  *)
(* what the loop reads in its row: a plan made from old rows, counts that  *)
(* a failing kubectl hid and a command that undoes the loop's scaling are  *)
(* all made good by a later cycle (run_reconcile_loop).                    *)
Converges ==
    \A h \in Houses : <>[](house[h] # NoHouse /\ replicas[h] # NoSet =>
        replicas[h] = Target(h))

(* Counts that kubectl is given: never below zero and never above what an  *)
(* i32 holds, whatever the columns of the rows hold (`as i32` wraps).      *)
CountsFit == \A h \in Houses : replicas[h] \in NoSet .. (Half - 1)

(* Where it settles it stays: when every StatefulSet has what its row asks *)
(* for, the loop has read the rows as they are and the one-shot command is *)
(* not at work, nothing scales anything until a statement, a failure, a    *)
(* new StatefulSet or a run of the command.                                *)
Settled ==
    /\ \A h \in Listed : replicas[h] \in {NoSet, Target(h)}
    /\ ctl["apply"] = Asleep
    /\ ctl["loop"] # Asleep =>
         \A h \in DOMAIN ctl["loop"].specs : ctl["loop"].specs[h] = house[h]
Disturbed ==
    \/ commands' # commands \/ misses' # misses \/ applies' # applies
    \/ \E h \in Houses : replicas[h] = NoSet /\ replicas'[h] # NoSet
StaysSettled == [][Settled /\ ~Disturbed => Settled' /\ replicas' = replicas]_reconcilerVars
===============================================================================
