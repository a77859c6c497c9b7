------------------------------ MODULE MCJobs ------------------------------
(***************************************************************************)
(* Instances of job-ingest, job-info, job-list and housekeeping.  A        *)
(* behaviour runs one of them, named by running, in one of its scenarios;  *)
(* the others stay as they are.                                            *)
(***************************************************************************)
EXTENDS JobInfo, Housekeeping, JobIngest, JobList, TLC

VARIABLE running

bench_vars == <<running, info_vars, keep_vars, ingest_vars, list_vars>>

-----------------------------------------------------------------------------
(* JobInfo *)

Client(kind, role, wait) == [kind |-> kind, role |-> role, wait |-> wait]

MCInfoClients ==
    "m" :> Client("main", "user", FALSE) @@ "n" :> Client("main", "owner", TRUE)
    @@ "o" :> Client("main", "other", FALSE) @@ "g" :> Client("guest", "user", FALSE)
    @@ "h" :> Client("guest", "owner", TRUE) @@ "p" :> Client("guest", "other", FALSE)
    @@ "u" :> Client("update", "user", FALSE) @@ "v" :> Client("update", "owner", FALSE)
    @@ "x" :> Client("update", "other", FALSE) @@ "c" :> Client("current", "user", FALSE)
    @@ "d" :> Client("current", "other", FALSE)

IScene(job, asks, cancels, leaves, evicts, unloads) ==
    [job |-> job, asks |-> asks, cancels |-> cancels, leaves |-> leaves,
     evicts |-> evicts, unloads |-> unloads]

Life == <<"submit", "create", "append", "start", "append", "copy", "remove", "release", "clean">>
Running == <<"submit", "create", "append", "start">>
Updated == <<"submit", "update", "update", "clean">>

MCInfoScenarios ==
    {IScene(Life, {"m"}, {"m"}, {}, 0, 0),
     IScene(Running, {"n", "o"}, {}, {"n"}, 0, 0),
     IScene(Life, {"g"}, {"g"}, {}, 0, 1),
     IScene(Life, {"h"}, {}, {"h"}, 0, 0),
     IScene(Running, {"g", "p"}, {}, {}, 1, 0),
     IScene(<<"submit", "create", "append", "copy", "remove", "clean">>, {"g"}, {}, {}, 0, 0),
     IScene(<<"submit", "update", "update">>, {"u", "v"}, {"u"}, {"v"}, 0, 0),
     IScene(Updated, {"u", "c"}, {}, {"u"}, 1, 0),
     IScene(<<"submit", "update", "clean">>, {"u", "x", "d"}, {}, {}, 0, 1)}

NoInfo == IScene(<<>>, {}, {}, {}, 0, 0)

-----------------------------------------------------------------------------
(* Housekeeping *)

MCKeptJobs == "j" :> {0, 1} @@ "k" :> {1} @@ "l" :> {0, 1, 2}

KScene(command, release, configs, kjobs, unloads) ==
    [command |-> command, release |-> release, configs |-> configs, jobs |-> kjobs, unloads |-> unloads]

Config(command, release) == [command |-> command, release |-> release]

MCKeepScenarios ==
    {KScene(TRUE, "never", <<Config(TRUE, "zero")>>, {"j", "k", "l"}, 2),
     KScene(TRUE, "zero", <<>>, {"j", "k", "l"}, 2),
     KScene(TRUE, "after", <<Config(TRUE, "unset")>>, {"l", "k"}, 2),
     KScene(TRUE, "after", <<>>, {"j", "k", "l"}, 1),
     KScene(FALSE, "never", <<Config(TRUE, "after"), Config(FALSE, "unset")>>, {"j", "k"}, 1)}

NoKeep == KScene(FALSE, "never", <<>>, {}, 0)

-----------------------------------------------------------------------------
(* JobIngest *)

MCSubmits == {"a", "b", "c"}

GScene == [jobs |-> MCSubmits, bad |-> {}, novalidate |-> {}, frob |-> FALSE, bypass |-> FALSE,
           count |-> 0, reloads |-> <<>>, crashes |-> 0, execfails |-> 0, idles |-> 0, kvsfails |-> 0,
           refused |-> {}, jmfails |-> 0, shutdowns |-> 0]

IngestConf(count, bypass, frob) == [count |-> count, bypass |-> bypass, frob |-> frob]

MCIngestScenarios ==
    {[GScene EXCEPT !.bad = {<<"val", "b">>}, !.crashes = 1],
     [GScene EXCEPT !.bad = {<<"val", "b">>, <<"val", "c">>}, !.novalidate = {"c"}, !.kvsfails = 1, !.refused = {"a"}],
     [GScene EXCEPT !.jobs = {"a", "b"}, !.frob = TRUE, !.bad = {<<"frob", "b">>}, !.shutdowns = 1],
     [GScene EXCEPT !.jobs = {"a", "b"}, !.frob = TRUE, !.execfails = 1, !.idles = 1],
     [GScene EXCEPT !.jobs = {"a", "b"}, !.jmfails = 1, !.reloads = <<IngestConf(Unset, TRUE, TRUE)>>],
     [GScene EXCEPT !.count = 2, !.bypass = TRUE, !.reloads = <<IngestConf(0, FALSE, FALSE)>>],
     [GScene EXCEPT !.bypass = TRUE, !.jmfails = 1, !.refused = {"b"}, !.reloads = <<IngestConf(2, TRUE, FALSE)>>]}

NoIngest == [GScene EXCEPT !.jobs = {}]

-----------------------------------------------------------------------------
(* JobList *)

MCListedJobs == 1..3
MCJobQueues == {"p", "q"}

ListRequest(id, want) == [id |-> id, want |-> want]
MCListRequests ==
    "any1" :> ListRequest(1, "any") @@ "sched1" :> ListRequest(1, "SCHED")
    @@ "run1" :> ListRequest(1, "RUN") @@ "run2" :> ListRequest(2, "RUN") @@ "any2" :> ListRequest(2, "any")

Entry(j, name, key, val) == [job |-> j, event |-> [name |-> name, key |-> key, val |-> val, t |-> 0]]
Plain(j, names) == [i \in 1..Len(names) |-> Entry(j, names[i], "", 0)]
Submitted(j, queue) == <<Entry(j, "store", "", 0),
                         Entry(j, "submit", "", [queue |-> queue, duration |-> 1])>>
Priority(j, p) == <<Entry(j, "priority", "", p)>>
Update(j, key, val) == <<Entry(j, "jobspec-update", key, val)>>
Exception(j, sev, type) == <<Entry(j, "exception", "", [sev |-> sev, type |-> type])>>
Finish(j, status) == <<Entry(j, "finish", "", status)>>
Valid == <<"validate", "depend">>

LScene(script, early, requests) ==
    [script |-> script, early |-> early, limit |-> 9, requests |-> requests, purges |-> 0,
     pauses |-> 0, watch |-> 0, unloads |-> 0]

(* One job through its life, one that is canceled, one that moves between queues. *)
OneLife == Submitted(1, "p") \o Plain(1, Valid) \o Priority(1, 2) \o Plain(1, <<"alloc">>)
           \o Update(1, "duration", 9) \o Finish(1, 0) \o Plain(1, <<"clean">>)
Canceled == Submitted(2, "none") \o Plain(2, Valid) \o Exception(2, 1, "warning")
            \o Exception(2, 0, "cancel") \o Plain(2, <<"clean">>)
Moved == Submitted(1, "p") \o Submitted(2, "q") \o Update(1, "queue", "q") \o Plain(1, Valid)
         \o Plain(2, Valid) \o Priority(2, 3) \o Priority(1, 4) \o Update(1, "queue", "p")
         \o Update(2, "queue", "none") \o Priority(1, 1) \o Priority(2, 3) \o Plain(2, <<"urgency">>)
         \o Priority(2, 1) \o Plain(2, <<"alloc">>) \o Plain(1, <<"alloc">>)
Restarted == Submitted(1, "p") \o Plain(1, Valid) \o Priority(1, 1) \o Submitted(2, "p") \o Plain(2, Valid)
             \o Priority(2, 1) \o Plain(1, <<"flux-restart">>) \o Plain(2, <<"flux-restart">>)
             \o Priority(2, 3) \o Priority(1, 3) \o Plain(1, <<"alloc">>) \o Plain(2, <<"alloc">>)
             \o Finish(2, 1) \o Exception(1, 0, "timeout") \o Finish(1, 0) \o Plain(1, <<"clean">>)
Refused == Submitted(3, "p") \o Plain(3, <<"invalidate", "unlink">>)

MCListScenarios ==
    {LScene(OneLife, 9, {"sched1", "run1"}),
     [LScene(OneLife \o Canceled, 5, {"any1", "run2"}) EXCEPT !.limit = 0],
     [LScene(OneLife \o Canceled, 4, {}) EXCEPT !.limit = 1, !.purges = 1, !.watch = 1],
     [LScene(Canceled \o OneLife, 6, {"run1"}) EXCEPT !.purges = 1, !.pauses = 1],
     [LScene(Moved, 18, {"run1"}) EXCEPT !.watch = 1],
     [LScene(Moved, 11, {}) EXCEPT !.pauses = 1],
     LScene(Restarted, 8, {"any1", "sched1"}),
     [LScene(Refused \o Canceled, 14, {"any2", "any1"}) EXCEPT !.unloads = 1, !.limit = 0]}

NoListing == LScene(<<>>, -1, {})

-----------------------------------------------------------------------------
(* The bench *)

Init ==
    \/ /\ running = "info" /\ \E s \in InfoScenarios : InfoInit(s)
       /\ KeepInit(NoKeep) /\ IngestInit(NoIngest) /\ ListInit(NoListing)
    \/ /\ running = "keep" /\ \E s \in KeepScenarios : KeepInit(s)
       /\ InfoInit(NoInfo) /\ IngestInit(NoIngest) /\ ListInit(NoListing)
    \/ /\ running = "ingest" /\ \E s \in IngestScenarios : IngestInit(s)
       /\ InfoInit(NoInfo) /\ KeepInit(NoKeep) /\ ListInit(NoListing)
    \/ /\ running = "list" /\ \E s \in ListScenarios : ListInit(s)
       /\ InfoInit(NoInfo) /\ KeepInit(NoKeep) /\ IngestInit(NoIngest)

Next ==
    \/ running = "info" /\ InfoNext /\ UNCHANGED <<running, keep_vars, ingest_vars, list_vars>>
    \/ running = "keep" /\ KeepNext /\ UNCHANGED <<running, info_vars, ingest_vars, list_vars>>
    \/ running = "ingest" /\ IngestNext /\ UNCHANGED <<running, info_vars, keep_vars, list_vars>>
    \/ running = "list" /\ ListNext /\ UNCHANGED <<running, info_vars, keep_vars, ingest_vars>>

Spec == Init /\ [][Next]_bench_vars
=============================================================================
