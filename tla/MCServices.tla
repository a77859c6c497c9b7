----------------------------- MODULE MCServices -----------------------------
(***************************************************************************)
(* Instances of the services beside the broker: kvs-watch, resource and    *)
(* job-exec.  A behaviour runs one of them, named by running, in one of    *)
(* its scenarios; the others stay as they are.                             *)
(***************************************************************************)
EXTENDS KvsWatch, Resource, JobExec, TLC

VARIABLE running

bench_vars == <<running, watch_vars, resource_vars, exec_vars>>

-----------------------------------------------------------------------------
(* KvsWatch *)

Flags(mode, watch, waitcreate) ==
    [mode |-> mode, watch |-> watch, waitcreate |-> waitcreate, may |-> TRUE]

MCWatchers ==
    "plain" :> Flags("plain", TRUE, FALSE) @@ "full" :> Flags("full", TRUE, FALSE)
    @@ "uniq" :> Flags("uniq", TRUE, FALSE)
    @@ "append" :> Flags("append", TRUE, TRUE) @@ "once" :> Flags("plain", FALSE, TRUE)
    @@ "wait" :> Flags("plain", TRUE, TRUE)
    @@ "denied" :> [Flags("plain", TRUE, TRUE) EXCEPT !.may = FALSE]

WScene(exists, ops, watchers, cancels, leaves) ==
    [exists |-> exists, ops |-> ops, watchers |-> watchers, cancels |-> cancels,
     leaves |-> leaves]

MCWatchScenarios ==
    {WScene(TRUE, <<"set", "other", "set">>, {"plain"}, {"plain"}, {}),
     WScene(TRUE, <<"set", "other", "set">>, {"full"}, {}, {"full"}),
     WScene(TRUE, <<"set", "unlink">>, {"uniq", "plain"}, {}, {}),
     WScene(TRUE, <<"append", "append">>, {"append", "once"}, {}, {}),
     WScene(TRUE, <<"set", "remove">>, {"full", "plain"}, {}, {}),
     WScene(FALSE, <<"create", "set", "remove">>, {"wait"}, {"wait"}, {}),
     WScene(FALSE, <<"create", "other", "set">>, {"once"}, {}, {"once"}),
     WScene(FALSE, <<"create", "set">>, {"wait", "denied"}, {}, {})}

NoWatch == WScene(TRUE, <<>>, {}, {}, {})

-----------------------------------------------------------------------------
(* Resource: operations by actor, each actor's in order. *)

Boot(conf, parent, excl, host) ==
    [op |-> "restart", conf |-> conf, parent |-> parent, excl |-> excl, host |-> host,
     mismatch |-> FALSE, ts |-> 9]

CrashTo(b) == [b EXCEPT !.op = "crash"]
Mismatch(b) == [b EXCEPT !.mismatch = TRUE]
H2 == 0 :> "a" @@ 1 :> "b"
H2x == 0 :> "b" @@ 1 :> "a"
All == Some({0, 1})
DrainOp(ranks, reason, mode, ts) ==
    [op |-> "drain", ranks |-> ranks, reason |-> reason, mode |-> mode, ts |-> ts]
UndrainOp(ranks, mode) == [op |-> "undrain", ranks |-> ranks, mode |-> mode]
RanksOp(op, ranks) == [op |-> op, ranks |-> ranks]
OnlyOp(op) == [op |-> op]
ExpireOp(exp) == [op |-> "expire", exp |-> exp]
RScene(start, acting) == [start |-> start, acts |-> acting]

MCResourceScenarios ==
    {RScene(Boot(All, None, {}, H2),
        << <<DrainOp({0, 1}, "x", "", 1), DrainOp({1}, "y", "update", 2),
             DrainOp({0}, "z", "force-overwrite", 3), UndrainOp({0}, "")>>,
           <<CrashTo(Boot(All, None, {}, H2x))>> >>),
     RScene(Boot(All, None, {}, H2),
        << <<DrainOp({0}, "", "", 1), DrainOp({0}, "y", "overwrite", 2),
             UndrainOp({0, 1}, "force")>>,
           <<Boot(All, None, {0}, H2), Boot(None, None, {}, H2)>> >>),
     RScene(Boot(All, None, {1}, H2),
        << <<DrainOp({1}, "x", "", 1), UndrainOp({0}, ""), DrainOp({0}, "x", "", 2)>>,
           <<OnlyOp("acquire"), OnlyOp("status"), OnlyOp("release"), RanksOp("reload", {0})>>,
           <<RanksOp("online", {0, 1}), RanksOp("torpid", {0})>> >>),
     RScene(Boot(None, None, {}, H2),
        << <<OnlyOp("acquire"), OnlyOp("acquire")>>, <<OnlyOp("reduced"), OnlyOp("reduced")>>,
           <<RanksOp("online", {0}), RanksOp("online", {0, 1}), RanksOp("online", {1})>>,
           <<[op |-> "waitup", n |-> 2], OnlyOp("status")>> >>),
     RScene(Boot(None, All, {}, H2),
        << <<OnlyOp("acquire"), ExpireOp(2), ExpireOp(3)>>, <<DrainOp({0}, "x", "", 1)>>,
           <<RanksOp("online", {0, 1}), RanksOp("torpid", {1})>> >>),
     RScene(Boot(All, None, {}, H2),
        << <<OnlyOp("acquire"), OnlyOp("mute")>>,
           <<DrainOp({0}, "x", "", 1), UndrainOp({0}, "")>>, <<OnlyOp("fail")>> >>),
     RScene(Boot(All, None, {}, H2),
        << <<OnlyOp("acquire"), DrainOp({0}, "x", "", 1), UndrainOp({0}, "")>>,
           <<OnlyOp("status"), OnlyOp("status")>>, <<RanksOp("online", {0, 1})>> >>),
     RScene(Mismatch(Boot(All, None, {}, H2)),
        << <<DrainOp({1}, "x", "", 1)>>, <<Mismatch(Boot(None, None, {}, H2))>>,
           <<RanksOp("reload", {1}), OnlyOp("status"), OnlyOp("acquire")>> >>)}

NoResource == RScene(Boot(All, None, {}, H2), <<>>)

-----------------------------------------------------------------------------
(* JobExec *)

NoFaults ==
    [start |-> 1, nolaunch |-> 0, noexec |-> 0, crash |-> 0, lost |-> 0, late |-> 0,
     again |-> 0, limit |-> 0, cancel |-> 0, crit |-> 0, expire |-> 0, log |-> 0,
     restart |-> 0]

XScene(n, barriers) ==
    [n |-> n, barriers |-> barriers, reattach |-> FALSE, ns |-> "none", root |-> "none",
     initfails |-> FALSE, hung |-> {}, unkillable |-> {}, maxkill |-> 1, timeout |-> FALSE,
     expires |-> FALSE, early |-> FALSE, left |-> NoFaults]

MCExecScenarios ==
    {XScene(2, 2),
     [XScene(2, 1) EXCEPT !.left.cancel = 1],
     [XScene(2, 1) EXCEPT !.left.crash = 1],
     [XScene(2, 1) EXCEPT !.left.noexec = 1],
     [XScene(2, 0) EXCEPT !.left.lost = 1, !.left.crit = 1],
     [XScene(2, 1) EXCEPT !.hung = {1}, !.unkillable = {1}, !.timeout = TRUE,
                          !.left.late = 1, !.left.again = 1],
     [XScene(1, 1) EXCEPT !.maxkill = 2, !.left.cancel = 2, !.left.log = 1],
     [XScene(1, 1) EXCEPT !.left.noexec = 1, !.left.nolaunch = 1],
     [XScene(1, 1) EXCEPT !.left.lost = 1, !.left.crit = 1],
     [XScene(1, 1) EXCEPT !.expires = TRUE, !.left.limit = 1, !.left.expire = 1],
     [XScene(1, 1) EXCEPT !.left.restart = 1, !.left.crash = 1],
     [XScene(1, 1) EXCEPT !.reattach = TRUE, !.root = "saved"],
     [XScene(1, 1) EXCEPT !.initfails = TRUE],
     [XScene(1, 1) EXCEPT !.ns = "there"]}

NoExec == XScene(1, 0)

-----------------------------------------------------------------------------
Init ==
    \/ /\ running = "watch"
       /\ \E s \in WatchScenarios : WatchInit(s)
       /\ ResourceInit(NoResource) /\ ExecInit(NoExec)
    \/ /\ running = "resource"
       /\ \E s \in ResourceScenarios : ResourceInit(s)
       /\ WatchInit(NoWatch) /\ ExecInit(NoExec)
    \/ /\ running = "exec"
       /\ \E s \in ExecScenarios : ExecInit(s)
       /\ WatchInit(NoWatch) /\ ResourceInit(NoResource)

WatchStep ==
    running = "watch" /\ WatchNext /\ UNCHANGED <<running, resource_vars, exec_vars>>

ResourceStep ==
    running = "resource" /\ ResourceNext /\ UNCHANGED <<running, watch_vars, exec_vars>>

ExecStep ==
    running = "exec" /\ ExecNext /\ UNCHANGED <<running, watch_vars, resource_vars>>

Next == WatchStep \/ ResourceStep \/ ExecStep

Spec == Init /\ [][Next]_bench_vars
=============================================================================
