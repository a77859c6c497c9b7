------------------------------ MODULE MCBroker ------------------------------
(***************************************************************************)
(* Instances of the broker's components and of the services that store     *)
(* content.  A behaviour runs one of them, named by running, in one of its *)
(* scenarios; the others stay as they are.                                 *)
(***************************************************************************)
EXTENDS BrokerState, Groups, Overlay, Runat, Modules, Content, ContentCheckpoint, KvsDurable, TLC

CONSTANTS ma, mb, ca, cb, cc,                              \* modules and commands
          bx, by, fx, sx0, sy0, sx1, lx0, lx1, fl0, fl1,   \* content
          ka, kb, nso, sa, pb, oa,                         \* kvs
          get1, get2                                       \* checkpoint

VARIABLE running

storage_vars == <<content_vars, durable_vars, ck_vars>>
bench_vars == <<running, broker_vars, group_vars, overlay_vars, runat_vars, module_vars, storage_vars>>

MCAbove == 1 :> 0 @@ 2 :> 1

-----------------------------------------------------------------------------
(* BrokerState *)

Rcs == {"rc1", "rc2", "cleanup", "rc3"}

BScene(ranks, scripts, quorum, fails, signals, cuts, crashes, refuse, follow) ==
    [ranks |-> ranks, scripts |-> scripts, quorum |-> quorum, fails |-> fails, signals |-> signals,
     cuts |-> cuts, crashes |-> crashes, refuse |-> refuse, follow |-> follow]

MCBrokerScenarios ==
    {BScene({0, 1, 2}, Rcs, 3, {}, {}, {}, {}, {}, FALSE)}
    \cup {BScene({0, 1}, Rcs, 1, fails, {}, {}, {}, {}, FALSE) :
             fails \in {{<<1, "rc1">>, <<0, "rc2">>}, {<<1, "rc3">>, <<0, "cleanup">>, <<0, "rc3">>}}}
    \cup {BScene({0, 1}, Rcs, 1, {}, {1}, {}, {}, {}, FALSE)}
    \cup {BScene({0, 1}, Rcs, 1, {}, {}, f[1], f[2], f[3], FALSE) :
             f \in {<<{1}, {}, {}>>, <<{}, {1}, {}>>, <<{}, {}, {1}>>}}
    \cup {BScene({0, 1}, scripts, 2, {}, {}, {}, {}, {}, TRUE) :
             scripts \in {Rcs, {"rc1", "rc3"}, {}}}

-----------------------------------------------------------------------------
(* Groups *)

GScene(joins, leaves, ends, byes, crashes, cuts, back, slow) ==
    [joins |-> joins, leaves |-> leaves, ends |-> ends, byes |-> byes, crashes |-> crashes,
     cuts |-> cuts, back |-> back, slow |-> slow]

J(a, b, c) == 0 :> a @@ 1 :> b @@ 2 :> c

MCGroupScenarios ==
    {GScene(J(1, 1, 1), {1}, {2}, {}, {}, {}, {}, {}),
     GScene(J(0, 1, 1), {}, {}, {1}, {}, {}, {1}, {}),
     GScene(J(0, 0, 1), {}, {}, {2}, {2}, {2}, {}, {}),
     GScene(J(0, 0, 1), {}, {}, {}, {1}, {}, {}, {1}),
     GScene(J(0, 0, 1), {}, {}, {}, {2}, {}, {2}, {2})}

NoGroups == GScene(J(0, 0, 0), {}, {}, {}, {}, {}, {}, {})

-----------------------------------------------------------------------------
(* Overlay *)

MCRpcs == "down" :> [from |-> 0, to |-> 2, more |-> 0]
       @@ "up" :> [from |-> 2, to |-> 0, more |-> 0]
       @@ "watch" :> [from |-> 2, to |-> 0, more |-> 1]
       @@ "near" :> [from |-> 1, to |-> 2, more |-> 1]

OScene(rpcs, hangups, events, crashes, cuts, byes, back) ==
    [rpcs |-> rpcs, hangups |-> hangups, events |-> events, crashes |-> crashes, cuts |-> cuts,
     byes |-> byes, back |-> back, shut |-> {}, old |-> {}]

MCOverlayScenarios ==
    {OScene({"down", "near"}, {"near"}, {}, {}, {1}, {}, {}),
     OScene({"up"}, {}, {2}, {1}, {}, {}, {1}),
     OScene({"watch"}, {"watch"}, {0}, {}, {2}, {}, {}),
     OScene({"down"}, {}, {0, 2}, {2}, {}, {}, {2}),
     OScene({"up"}, {}, {}, {}, {1}, {2}, {2}),
     [OScene({"down"}, {}, {}, {2}, {}, {}, {2}) EXCEPT !.shut = {1}],
     [OScene({"near"}, {}, {}, {2}, {}, {}, {2}) EXCEPT !.old = {2}]}

NoOverlay == OScene({}, {}, {}, {}, {}, {}, {})

-----------------------------------------------------------------------------
(* Runat and Modules *)

MCRunatScenarios == {[pushes |-> {ca, cb, cc}, late |-> {}, aborts |-> TRUE]}
NoRunat == [pushes |-> {}, late |-> {}, aborts |-> FALSE]

MScene(load, remove, requests, fails, adds, events) ==
    [loads |-> load, removes |-> remove, requests |-> requests, fails |-> fails, adds |-> adds,
     events |-> events]

MCModuleScenarios ==
    {MScene(ma :> 2 @@ mb :> 0, ma :> 2 @@ mb :> 0, 2, {ma}, {ma}, 0),
     MScene(ma :> 1 @@ mb :> 1, ma :> 1 @@ mb :> 0, 1, {}, {}, 1)}

NoModules == MScene(ma :> 0 @@ mb :> 0, ma :> 0 @@ mb :> 0, 0, {}, {}, 0)

-----------------------------------------------------------------------------
(* The storage services *)

MCAsk ==
    sx0 :> [rank |-> 0, op |-> "store", blob |-> bx] @@
    sy0 :> [rank |-> 0, op |-> "store", blob |-> by] @@
    sx1 :> [rank |-> 1, op |-> "store", blob |-> bx] @@
    lx0 :> [rank |-> 0, op |-> "load", blob |-> bx] @@
    lx1 :> [rank |-> 1, op |-> "load", blob |-> bx] @@
    fl0 :> [rank |-> 0, op |-> "flush", blob |-> bx] @@
    fl1 :> [rank |-> 1, op |-> "flush", blob |-> bx]

MCBlobOf == fx :> bx

NoContent == [ask |-> {}, faults |-> 0, loads |-> 0, maps |-> {}]

MCContentScenarios ==
    {[ask |-> A, faults |-> 1, loads |-> 2, maps |-> {fx}] :
        A \in {{sx0, sy0, fl0}, {lx1, sx1, lx0}, {sx1, fl1, fl0}, {sx0, lx0, lx1}}}

MCTxOf ==
    sa :> [ns |-> Primary, val |-> ka, sync |-> TRUE] @@
    pb :> [ns |-> Primary, val |-> kb, sync |-> FALSE] @@
    oa :> [ns |-> nso, val |-> ka, sync |-> FALSE] @@
    Period :> [ns |-> Primary, val |-> ka, sync |-> TRUE]

Budget(r, w, c, e, p) ==
    [refusals |-> r, faults |-> w, crashes |-> c, exits |-> e, periods |-> p, failed |-> FALSE]

NoDurable == [txns |-> {}, budget |-> Budget(0, 0, 0, 0, 0)]

MCDurableScenarios ==
    {[txns |-> {sa, pb}, budget |-> Budget(0, 0, 1, 0, 0)],
     [txns |-> {sa, pb}, budget |-> Budget(1, 0, 0, 0, 0)],
     [txns |-> {sa, pb}, budget |-> Budget(0, 1, 0, 0, 0)],
     [txns |-> {sa}, budget |-> Budget(0, 0, 1, 1, 1)],
     [txns |-> {pb}, budget |-> Budget(0, 0, 0, 1, 1)],
     [txns |-> {sa, oa}, budget |-> Budget(0, 0, 0, 0, 0)]}

NoCheckpoint == [puts |-> {}, gets |-> {}, loads |-> 0]

MCCkScenarios ==
    {[puts |-> {1, 2}, gets |-> {}, loads |-> 2],
     [puts |-> {1, 2}, gets |-> {get1}, loads |-> 1],
     [puts |-> {1}, gets |-> {get1, get2}, loads |-> 2]}

-----------------------------------------------------------------------------
(* The bench *)

NoBroker == BScene({}, {}, 0, {}, {}, {}, {}, {}, FALSE)

(* One component has a scenario of its own, the others do nothing. *)
Scenes(component, scenarios, none) == IF running = component THEN scenarios ELSE {none}

Init ==
    /\ running \in {"state", "groups", "overlay", "runat", "modules", "content", "kvs", "checkpoint"}
    /\ \E s \in Scenes("state", BrokerScenarios, NoBroker) : BrokerInit(s)
    /\ \E s \in Scenes("groups", GroupScenarios, NoGroups) : GroupsInit(s)
    /\ \E s \in Scenes("overlay", OverlayScenarios, NoOverlay) : OverlayInit(s)
    /\ \E s \in Scenes("runat", RunatScenarios, NoRunat) : RunatInit(s)
    /\ \E s \in Scenes("modules", ModuleScenarios, NoModules) : ModulesInit(s)
    /\ \E s \in Scenes("content", ContentScenarios, NoContent) : ContentInit(s)
    /\ \E s \in Scenes("kvs", DurableScenarios, NoDurable) : DurableInit(s)
    /\ \E s \in Scenes("checkpoint", CkScenarios, NoCheckpoint) : CheckpointInit(s)

StateStep == /\ running = "state" /\ BrokerNext
             /\ UNCHANGED <<running, group_vars, overlay_vars, runat_vars, module_vars, storage_vars>>
GroupsStep == /\ running = "groups" /\ GroupsNext
              /\ UNCHANGED <<running, broker_vars, overlay_vars, runat_vars, module_vars, storage_vars>>
OverlayStep == /\ running = "overlay" /\ OverlayNext
               /\ UNCHANGED <<running, broker_vars, group_vars, runat_vars, module_vars, storage_vars>>
RunatStep == /\ running = "runat" /\ RunatNext
             /\ UNCHANGED <<running, broker_vars, group_vars, overlay_vars, module_vars, storage_vars>>
ModulesStep == /\ running = "modules" /\ ModulesNext
               /\ UNCHANGED <<running, broker_vars, group_vars, overlay_vars, runat_vars, storage_vars>>
StorageStep == /\ \/ running = "content" /\ ContentNext /\ UNCHANGED <<durable_vars, ck_vars>>
                  \/ running = "kvs" /\ DurableNext /\ UNCHANGED <<content_vars, ck_vars>>
                  \/ running = "checkpoint" /\ CheckpointNext /\ UNCHANGED <<content_vars, durable_vars>>
               /\ UNCHANGED <<running, broker_vars, group_vars, overlay_vars, runat_vars, module_vars>>

Next == StateStep \/ GroupsStep \/ OverlayStep \/ RunatStep \/ ModulesStep \/ StorageStep

(* Scripts end, messages are handled and transactions go on. *)
Work == /\ \/ running = "state" /\ BrokerWork /\ UNCHANGED storage_vars
           \/ /\ \/ running = "content" /\ ContentWork /\ UNCHANGED <<durable_vars, ck_vars>>
                 \/ running = "kvs" /\ DurableWork /\ UNCHANGED <<content_vars, ck_vars>>
                 \/ running = "checkpoint" /\ CheckpointWork /\ UNCHANGED <<content_vars, durable_vars>>
              /\ UNCHANGED broker_vars
        /\ UNCHANGED <<running, group_vars, overlay_vars, runat_vars, module_vars>>

Spec == Init /\ [][Next]_bench_vars /\ WF_bench_vars(Work)

-----------------------------------------------------------------------------
(* A broker runs its commands in order: rc1, rc2, cleanup and rc3, each at   *)
(* the time the state of its parent and of its children allows (RcOrder),   *)
(* and within each all of its commands one after the other (RunsEach).      *)
CommandsInOrder == RcOrder /\ RunsEach

(* Whoever waits for the storage is answered: the loads, stores and flushes  *)
(* of a cache, the transactions of the KVS with their checkpoints, and the   *)
(* requests of the checkpoint service, though the backing module refuses,    *)
(* leaves and returns.                                                       *)
StorageSettles == ContentAnswers /\ DurableSettles /\ CheckpointSettles
=============================================================================
