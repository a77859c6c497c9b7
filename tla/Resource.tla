------------------------------ MODULE Resource ------------------------------
(***************************************************************************)
(* The resource module at rank 0 (src/modules/resource): the drained       *)
(* ranks and the log they are recovered from (drain.c, reslog.c), the      *)
(* ranks that are up (monitor.c), the resources themselves (inventory.c),  *)
(* what the scheduler is told of them (acquire.c) and the cached answer of *)
(* resource.sched-status (status.c).                                       *)
(*                                                                         *)
(* A step is one callback of the module's reactor, or one commit of the    *)
(* KVS, which is external: commits are made in the order they were sent,   *)
(* and the answer comes later.  A scenario gives each actor (an            *)
(* administrator, the scheduler, the broker's groups ...) a sequence of    *)
(* operations; those of different actors come in any order.                *)
(***************************************************************************)
EXTENDS Integers, Sequences, FiniteSets, SequencesExt, FiniteSetsExt, Functions

CONSTANT ResourceScenarios   \* sets of [start, acts]: how the module is started first, and
                             \* [actor -> sequence of operations]

VARIABLES mod,      \* struct resource_ctx: the memory of the module
          rkvs,     \* [log, R, flight]: resource.eventlog, resource.R, the commits in flight
          sched,    \* what the scheduler was told: [on, valid, up, exp]
          acts,     \* the operations to come
          rhist     \* history: [failed, early, skipped, dropped, acked]

resource_vars == <<mod, rkvs, sched, acts, rhist>>

None == <<>>          \* no value; <<v>> is the value v
Some(v) == <<v>>
NoReason == ""
NoMsg == FALSE        \* the event answers no request

Fresh(host) == [r \in DOMAIN host |-> [drained |-> FALSE, reason |-> NoReason, ts |-> 0]]

NoAcquire == [on |-> FALSE, count |-> 0, valid |-> {}, up |-> {}]
NoSched == [on |-> FALSE, valid |-> {}, up |-> {}, exp |-> 0]

(* host: the hostlist attribute, [rank -> host]; pend: reslog->pending;      *)
(* puts: the commits of R that have a continuation; put_f: the one that      *)
(* inv->put_f points to, or 0; serial numbers the commits.                   *)
NewModule(start, serial) ==
    [host |-> start.host, info |-> Fresh(start.host), excl |-> start.excl, up |-> {}, torpid |-> {},
     R |-> None, exp |-> 0, watching |-> FALSE, pend |-> <<>>, puts |-> <<>>, put_f |-> 0,
     acq |-> NoAcquire, mute |-> FALSE, cache |-> [rl |-> None, down |-> None], waits |-> {}, serial |-> serial]

World == [mod |-> mod, kvs |-> rkvs, sched |-> sched, hist |-> rhist]

ResDone(new) ==
    \E w \in {new} : mod' = w.mod /\ rkvs' = w.kvs /\ sched' = w.sched /\ rhist' = w.hist
-----------------------------------------------------------------------------
(* Drain state (drain.c) *)

(* update_draininfo_rank *)
UpdateRank(i, drained, ts, reason, overwrite) ==
    IF overwrite = 0 /\ i.drained /\ i.reason # NoReason THEN i
    ELSE [drained |-> drained, reason |-> reason,
          ts |-> IF i.drained # drained \/ overwrite = 2 THEN ts ELSE i.ts]

UpdateInfo(info, ranks, drained, ts, reason, overwrite) ==
    [r \in DOMAIN info |-> IF r \in ranks THEN UpdateRank(info[r], drained, ts, reason, overwrite)
                           ELSE info[r]]

DrainGet(m) == {r \in DOMAIN m.info : m.info[r].drained}

Down(m) == DOMAIN m.host \ m.up                       \* monitor_get_down

Available(m, valid) == valid \ (DrainGet(m) \cup Down(m) \cup m.torpid \cup m.excl)

(* The context of an event of resource.eventlog.  "ranks" is the idset, and *)
(* with the host of each, the nodelist.                                     *)
Event(name, m, ranks, ts, reason, overwrite) ==
    [name |-> name, ranks |-> ranks, nodelist |-> [r \in ranks |-> m.host[r]], ts |-> ts,
     reason |-> reason, overwrite |-> overwrite, exp |-> 0]

Plain(name, exp) == [name |-> name, ranks |-> {}, nodelist |-> <<>>, ts |-> 0, reason |-> NoReason,
                     overwrite |-> 0, exp |-> exp]

(* add_target: the rank that the host has now; none if it is gone *)
AddTarget(host, r, h) ==
    IF r \in DOMAIN host /\ host[r] = h THEN {r}
    ELSE LET rs == {q \in DOMAIN host : host[q] = h} IN IF rs = {} THEN {} ELSE {Min(rs)}

DecodeTargets(host, e) == UNION {AddTarget(host, r, e.nodelist[r]) : r \in e.ranks}

(* replay_eventlog *)
ReplayEvent(host, info, e) ==
    IF e.name = "drain"
    THEN UpdateInfo(info, DecodeTargets(host, e), TRUE, e.ts, e.reason, e.overwrite)
    ELSE IF e.name = "undrain"
    THEN UpdateInfo(info, DecodeTargets(host, e), FALSE, e.ts, NoReason, 1)
    ELSE info

Replay(log, host) == FoldLeft(LAMBDA info, e : ReplayEvent(host, info, e), Fresh(host), log)
-----------------------------------------------------------------------------
(* What the scheduler is told (acquire.c) and the cached status (status.c) *)

(* acquire_request_init and acquire_respond_first *)
RespondFirst(w) ==
    LET valid == w.mod.R[1] \ w.mod.excl
        up == Available(w.mod, valid)
    IN [w EXCEPT !.mod.acq = [on |-> TRUE, count |-> 1, valid |-> valid, up |-> up],
                 !.sched = [on |-> TRUE, valid |-> valid, up |-> up, exp |-> w.mod.exp]]

(* Mutant: the torpid ranks are not taken off. *)
RespondNextTorpid(w) ==
    LET new == Available([w.mod EXCEPT !.torpid = {}], w.mod.acq.valid)
        joined == new \ w.mod.acq.up
        left == w.mod.acq.up \ new
    IN [w EXCEPT !.mod.acq.up = new, !.sched.up = (@ \cup joined) \ left]

(* acquire_request_update and acquire_respond_next: only the difference to  *)
(* what was told before is sent.                                            *)
RespondNext(w) ==
    LET new == Available(w.mod, w.mod.acq.valid)
        joined == new \ w.mod.acq.up
        left == w.mod.acq.up \ new
    IN [w EXCEPT !.mod.acq.up = new, !.sched.up = (@ \cup joined) \ left]

Availability == {"online", "offline", "drain", "undrain", "torpid", "lively"}

(* reslog_cb of acquire.c *)
AcquireNotify(w, e) ==
    IF w.mod.mute \/ ~w.mod.acq.on THEN w
    ELSE IF e.name = "resource-define"
         THEN IF w.mod.acq.count = 0 THEN RespondFirst(w) ELSE w
    ELSE IF e.name = "resource-update" THEN [w EXCEPT !.sched.exp = e.exp]
    ELSE IF w.mod.acq.count > 0 THEN RespondNext(w) ELSE w

(* reslog_cb of status.c: invalidate_cache *)
StatusNotify(w, e) ==
    IF e.name = "resource-define" THEN [w EXCEPT !.mod.cache = [rl |-> None, down |-> None]]
    ELSE IF e.name \in Availability THEN [w EXCEPT !.mod.cache.down = None]
    ELSE w
-----------------------------------------------------------------------------
(* The log of events (reslog.c) *)

(* reslog_post_pack: an event that is not committed is ready at once when   *)
(* nothing is pending, and otherwise when its turn comes.                   *)
Post(w, e, msg, commit) ==
    LET n == w.mod.serial + 1
        f == [id |-> n, ev |-> e, msg |-> msg, commit |-> commit,
              ready |-> IF ~commit /\ w.mod.pend = <<>> THEN "ok" ELSE "no"]
    IN [w EXCEPT !.mod.serial = n, !.mod.pend = Append(@, f),
                 !.kvs.flight = IF commit THEN Append(@, [id |-> n, kind |-> "event", ev |-> e, R |-> {}])
                                ELSE @]

(* The end of post_handler: the future that is now first is fulfilled if no *)
(* request waits for it, whether it is a commit or not.                     *)
FulfillNext(pend) ==
    IF pend # <<>> /\ pend[1].msg = NoMsg /\ pend[1].ready = "no"
    THEN [pend EXCEPT ![1].ready = "ok"] ELSE pend

(* History of post_handler: what the administrator was told of each host. *)
Acked(w, f) ==
    IF f.msg = NoMsg \/ f.ready = "err" THEN w.hist.acked
    ELSE LET open == UNION {Range(g.ev.nodelist) : g \in {g \in Range(w.mod.pend) : g.id > f.id}}
         IN [h \in DOMAIN w.hist.acked |->
               IF h \in Range(f.ev.nodelist)
               THEN (IF h \in open THEN "unknown" ELSE IF f.ev.name = "drain" THEN "drained" ELSE "undrained")
               ELSE w.hist.acked[h]]

InFlight(w, f) == \E i \in 1 .. Len(w.kvs.flight) : w.kvs.flight[i].id = f.id

(* post_handler for the i-th pending event: answer the request, tell the    *)
(* others of the event unless its commit failed, and turn to the next.      *)
PostHandler(w, i) ==
    LET f == w.mod.pend[i]
        a == [w EXCEPT !.hist.acked = Acked(w, f), !.hist.early = @ \/ (f.ready = "ok" /\ InFlight(w, f))]
        b == IF f.ready = "ok" THEN StatusNotify(AcquireNotify(a, f.ev), f.ev) ELSE a
    IN [b EXCEPT !.mod.pend = FulfillNext(RemoveAt(@, i))]

(* The reactor takes the answers of the KVS in order; an event that is not  *)
(* committed may come before or after one of them.                          *)
PostContinuation ==
    /\ \E i \in DOMAIN mod.pend :
         /\ mod.pend[i].ready # "no"
         /\ \A j \in 1 .. i - 1 : mod.pend[j].ready # "no" => mod.pend[j].commit # mod.pend[i].commit
         /\ ResDone(PostHandler(World, i))
    /\ UNCHANGED acts

Answer(q, id, result) ==
    [i \in DOMAIN q |-> IF q[i].id = id /\ q[i].ready = "no" THEN [q[i] EXCEPT !.ready = result] ELSE q[i]]

(* The KVS (external) makes the first commit in flight, or fails it. *)
CommitHead(w, result) ==
    LET c == Head(w.kvs.flight)
        k == [w.kvs EXCEPT !.flight = Tail(@),
                           !.log = IF result = "ok" /\ c.kind = "event" THEN Append(@, c.ev) ELSE @,
                           !.R = IF result = "ok" /\ c.kind = "R" THEN Some(c.R) ELSE @]
    IN [w EXCEPT !.kvs = k, !.hist.failed = @ \/ result = "err",
                 !.mod.pend = Answer(@, c.id, result), !.mod.puts = Answer(@, c.id, result)]

(* A synchronous wait for commit n: the KVS works, the reactor does not.    *)
CommitTo(w, n) ==
    LET k == Cardinality({i \in DOMAIN w.kvs.flight : w.kvs.flight[i].id <= n})
    IN FoldLeft(LAMBDA x, i : CommitHead(x, "ok"), w, [i \in 1 .. k |-> i])

(* reslog_sync, and the loop of reslog_destroy *)
SyncHead(w) ==
    LET f == w.mod.pend[1]
    IN PostHandler(IF f.ready = "no" THEN CommitTo(w, f.id) ELSE w, 1)

Sync(w) == FoldLeft(LAMBDA x, i : SyncHead(x), w, w.mod.pend)

KvsCommit ==
    /\ rkvs.flight # <<>>
    /\ ResDone(CommitHead(World, "ok"))
    /\ UNCHANGED acts
-----------------------------------------------------------------------------
(* The operations *)

(* Actor a performs its next operation, which is one named op. *)
Acts(a, op) == acts[a] # <<>> /\ Head(acts[a]).op = op /\ acts' = [acts EXCEPT ![a] = Tail(@)]

Touched(w, ranks) ==
    [h \in DOMAIN w.hist.acked |->
       IF h \in {w.mod.host[r] : r \in ranks} THEN "unknown" ELSE w.hist.acked[h]]

Overwrite(mode) == IF mode = "force-overwrite" THEN 2 ELSE IF mode = "overwrite" THEN 1 ELSE 0

(* drain_cb, with check_draininfo_idset when no mode is given: the state    *)
(* changes now, the request is answered when the event is committed.        *)
Drain(w, o) ==
    LET n == Overwrite(o.mode)
        bad == {r \in o.ranks : r \in w.mod.excl \/ (w.mod.info[r].drained /\ w.mod.info[r].reason # NoReason)}
    IN IF o.mode = "" /\ bad # {} THEN w
       ELSE Post([w EXCEPT !.mod.info = UpdateInfo(@, o.ranks, TRUE, o.ts, o.reason, n),
                           !.hist.acked = Touched(w, o.ranks)],
                 Event("drain", w.mod, o.ranks, o.ts, o.reason, n), TRUE, TRUE)

(* undrain_cb and undrain_rank_idset *)
Undrain(w, o) ==
    LET ranks == o.ranks \cap DrainGet(w.mod)
    IN IF (o.mode = "" /\ ranks # o.ranks) \/ ranks = {} THEN w
       ELSE Post([w EXCEPT !.mod.info = UpdateInfo(@, ranks, FALSE, 0, NoReason, 1),
                           !.hist.acked = Touched(w, ranks)],
                 Event("undrain", w.mod, ranks, 0, NoReason, 1), TRUE, TRUE)

(* acquire_cb: one request at a time; the answer is deferred while there    *)
(* are no resources.                                                        *)
Acquire(w) ==
    IF w.mod.acq.on THEN w
    ELSE LET x == [w EXCEPT !.mod.acq = [NoAcquire EXCEPT !.on = TRUE]]
         IN IF x.mod.R = None THEN x ELSE RespondFirst(x)

(* cancel_cb and acquire_disconnect *)
Release(w) == [w EXCEPT !.mod.acq = NoAcquire, !.sched = NoSched]

(* post_event and post_join_leave *)
PostJoinLeave(w, old, new, join, leave) ==
    LET a == IF new \ old = {} THEN w
             ELSE Post(w, Event(join, w.mod, new \ old, 0, NoReason, 0), NoMsg, FALSE)
    IN IF old \ new = {} THEN a
       ELSE Post(a, Event(leave, w.mod, old \ new, 0, NoReason, 0), NoMsg, FALSE)

(* broker_online_cb and notify_waitup *)
Online(w, up) ==
    LET x == PostJoinLeave(w, w.mod.up, up, "online", "offline")
    IN [x EXCEPT !.mod.up = up, !.mod.waits = @ \ {Cardinality(up)}]

(* broker_torpid_cb *)
Torpid(w, torpid) ==
    [PostJoinLeave(w, w.mod.torpid, torpid, "torpid", "lively") EXCEPT !.mod.torpid = torpid]

(* waitup_cb *)
Waitup(w, n) ==
    IF Cardinality(w.mod.up) = n THEN w ELSE [w EXCEPT !.mod.waits = @ \cup {n}]

(* sched_status_continuation: get_resource_list, get_all and get_down *)
SchedStatus(w) ==
    IF w.mod.R = None THEN w
    ELSE LET rl == IF w.mod.cache.rl = None THEN Some(w.mod.R[1] \ w.mod.excl) ELSE w.mod.cache.rl
             down == IF w.mod.cache.down # None THEN w.mod.cache.down
                     ELSE Some(rl[1] \cap (Down(w.mod) \cup w.mod.torpid \cup DrainGet(w.mod)))
         IN [w EXCEPT !.mod.cache = [rl |-> rl, down |-> down]]
-----------------------------------------------------------------------------
(* The resources (inventory.c) and the start of the module (resource.c) *)

(* inventory_put_R: R is committed, and "kind" happens when it is, unless   *)
(* another commit has taken the one slot put_f by then.                     *)
PutR(w, kind) ==
    LET n == w.mod.serial + 1
    IN [w EXCEPT !.mod.serial = n, !.mod.puts = Append(@, [id |-> n, kind |-> kind, ready |-> "no"]),
                 !.mod.put_f = n,
                 !.kvs.flight = Append(@, [id |-> n, kind |-> "R", ev |-> Plain("", 0), R |-> w.mod.R[1]])]

(* inventory_put *)
InventoryPut(w, R) == PutR([w EXCEPT !.mod.R = Some(R)], "resource-define")

(* inventory_put_finalize: wait for the commit put_f points to, post        *)
(* resource-define if it is one of inventory_put, and destroy its future    *)
(* with its continuation.  That of an update has no "method", without which *)
(* the event cannot be packed.                                              *)
PutFinalize(w) ==
    LET n == w.mod.put_f
        x == CommitTo(w, n)
        f == CHOOSE g \in Range(x.mod.puts) : g.id = n
        y == [x EXCEPT !.mod.puts = SelectSeq(@, LAMBDA g : g.id # n), !.mod.put_f = 0]
    IN IF n = 0 THEN w
       ELSE IF f.kind = "resource-update" THEN [y EXCEPT !.hist.dropped = TRUE]
       ELSE IF f.ready = "err" THEN y
       ELSE Post(y, Plain("resource-define", 0), NoMsg, TRUE)

(* inventory_put_continuation and inventory_put_update_cb; the latter goes  *)
(* on after an error                                                        *)
PutDone(w) ==
    LET f == Head(w.mod.puts)
        x == [w EXCEPT !.mod.puts = SelectSeq(@, LAMBDA g : g.id # f.id)]
    IN IF f.kind = "resource-update"
       THEN Post([x EXCEPT !.mod.put_f = 0, !.hist.dropped = FALSE],
                 Plain("resource-update", w.mod.exp), NoMsg, TRUE)
       ELSE PutFinalize(IF w.mod.put_f = f.id THEN w ELSE x)

PutContinuation ==
    /\ mod.puts # <<>> /\ Head(mod.puts).ready # "no"
    /\ ResDone(PutDone(World))
    /\ UNCHANGED acts

(* resource_reload: the R of a file, which has no expiration *)
Reload(w, R) ==
    IF w.mod.acq.on THEN w ELSE PutFinalize(InventoryPut([w EXCEPT !.mod.exp = 0], R))

(* R_update_cb: the parent instance has changed the expiration *)
Expire(w, exp) == IF w.mod.watching THEN PutR([w EXCEPT !.mod.exp = exp], "resource-update") ELSE w

(* topo_reduce_finalize at rank 0: the resources all ranks have found *)
Reduced(w) == IF w.mod.R = None THEN InventoryPut(w, DOMAIN w.mod.host) ELSE w

(* inventory_create: the configured resources, those the KVS has, those of  *)
(* the parent instance; or none until they are discovered                   *)
InventoryCreate(w, start) ==
    IF start.conf # None THEN InventoryPut(w, start.conf[1])
    ELSE IF w.kvs.R # None THEN InventoryPut(w, w.kvs.R[1])
    ELSE IF start.parent # None
         THEN [InventoryPut(w, start.parent[1]) EXCEPT !.mod.watching = TRUE, !.mod.exp = 1]
    ELSE w

(* reconcile_excluded *)
ReconcileExcluded(w) ==
    LET ranks == DrainGet(w.mod) \cap w.mod.excl
        x == [w EXCEPT !.mod.info = UpdateInfo(@, ranks, FALSE, 0, NoReason, 1), !.hist.acked = Touched(w, ranks)]
    IN IF ranks = {} THEN w ELSE Post(x, Event("undrain", w.mod, ranks, 0, NoReason, 1), NoMsg, TRUE)

(* topo_verify and drain_rank: rank 0 drains itself when its resources are  *)
(* not what R says.  The event has no "overwrite": a replay takes it as 1.  *)
TopoVerify(w, start) ==
    IF ~start.mismatch \/ w.mod.R = None \/ w.mod.watching THEN w
    ELSE LET x == [w EXCEPT !.mod.info = UpdateInfo(@, {0}, TRUE, start.ts, "topo", 0),
                            !.hist.skipped = @ \/ (w.mod.info[0].drained /\ w.mod.info[0].reason # NoReason),
                            !.hist.acked = Touched(w, {0})]
         IN Sync(Post(x, Event("drain", w.mod, {0}, start.ts, "topo", 1), NoMsg, TRUE))

(* mod_main *)
Start(w, start) ==
    LET a == [w EXCEPT !.mod = NewModule(start, w.mod.serial), !.sched = NoSched]
        b == InventoryCreate(a, start)
        c == [b EXCEPT !.mod.info = Replay(b.kvs.log, start.host)]
    IN TopoVerify(ReconcileExcluded(c), start)

(* resource_ctx_destroy: acquire and status go before the log is flushed *)
Unload(w) == Sync([w EXCEPT !.mod.acq = NoAcquire, !.mod.cache = [rl |-> None, down |-> None]])

(* The broker dies: of the commits in flight the first n were made. *)
Crash(w, n) == [CommitTo(w, IF n = 0 THEN 0 ELSE w.kvs.flight[n].id) EXCEPT !.kvs.flight = <<>>]

ResourceInit(s) ==
    LET k == [log |-> <<>>, R |-> None, flight |-> <<>>]
        h == [failed |-> FALSE, early |-> FALSE, skipped |-> FALSE, dropped |-> FALSE,
              acked |-> [x \in Range(s.start.host) |-> "undrained"]]
        w == Start([mod |-> NewModule(s.start, 0), kvs |-> k, sched |-> NoSched, hist |-> h], s.start)
    IN mod = w.mod /\ rkvs = w.kvs /\ sched = w.sched /\ rhist = w.hist /\ acts = s.acts
-----------------------------------------------------------------------------
Op(a) == Head(acts[a])

AdminDrains == \E a \in DOMAIN acts : Acts(a, "drain") /\ ResDone(Drain(World, Op(a)))
AdminUndrains == \E a \in DOMAIN acts : Acts(a, "undrain") /\ ResDone(Undrain(World, Op(a)))
SchedAcquires == \E a \in DOMAIN acts : Acts(a, "acquire") /\ ResDone(Acquire(World))
SchedReleases == \E a \in DOMAIN acts : Acts(a, "release") /\ ResDone(Release(World))
Mutes == \E a \in DOMAIN acts : Acts(a, "mute") /\ ResDone([World EXCEPT !.mod.mute = TRUE])
BrokersOnline == \E a \in DOMAIN acts : Acts(a, "online") /\ ResDone(Online(World, Op(a).ranks))
BrokersTorpid == \E a \in DOMAIN acts : Acts(a, "torpid") /\ ResDone(Torpid(World, Op(a).ranks))
WaitsUp == \E a \in DOMAIN acts : Acts(a, "waitup") /\ ResDone(Waitup(World, Op(a).n))
AsksStatus == \E a \in DOMAIN acts : Acts(a, "status") /\ ResDone(SchedStatus(World))
Reloads == \E a \in DOMAIN acts : Acts(a, "reload") /\ ResDone(Reload(World, Op(a).ranks))
Expires == \E a \in DOMAIN acts : Acts(a, "expire") /\ ResDone(Expire(World, Op(a).exp))
Discovered == \E a \in DOMAIN acts : Acts(a, "reduced") /\ ResDone(Reduced(World))
CommitFails ==
    \E a \in DOMAIN acts : rkvs.flight # <<>> /\ Acts(a, "fail") /\ ResDone(CommitHead(World, "err"))
Restarts ==
    \E a \in DOMAIN acts : Acts(a, "restart") /\ ResDone(Start(Unload(World), Op(a)))
Crashes ==
    \E a \in DOMAIN acts :
      /\ Acts(a, "crash")
      /\ \E n \in 0 .. Len(rkvs.flight) : ResDone(Start(Crash(World, n), Op(a)))

ResourceNext ==
    \/ PostContinuation \/ PutContinuation \/ KvsCommit \/ CommitFails
    \/ AdminDrains \/ AdminUndrains
    \/ SchedAcquires \/ SchedReleases \/ Mutes
    \/ BrokersOnline \/ BrokersTorpid \/ WaitsUp
    \/ AsksStatus \/ Reloads \/ Expires \/ Discovered
    \/ Restarts \/ Crashes
-----------------------------------------------------------------------------
(* Nothing is pending in the module, and no commit is in flight. *)
ResourceQuiet == mod.pend = <<>> /\ mod.puts = <<>> /\ rkvs.flight = <<>>

(* When everything has been handled the scheduler believes a rank to be up  *)
(* exactly when it is one of its resources, online, not torpid, not drained *)
(* and not excluded (acquire.c sends differences; a lost or unordered one   *)
(* would stay).  A failed commit of a drain leaves the scheduler untold,    *)
(* answers are muted during shutdown, and of an expiration the scheduler is *)
(* told unless its update was dropped (UpdateTold).  One that asked before  *)
(* the resources were known is answered once they are, the cached answer of *)
(* resource.sched-status is not stale, and no event stays at the head of    *)
(* the log without a commit in flight for it.                               *)
SchedulerView ==
    /\ ResourceQuiet /\ sched.on /\ ~mod.mute /\ ~rhist.failed
        => sched.up = Available(mod, sched.valid) /\ (sched.exp = mod.exp \/ rhist.dropped)
    /\ ResourceQuiet /\ mod.acq.on /\ mod.R # None /\ ~mod.mute /\ ~rhist.failed => mod.acq.count > 0
    /\ ResourceQuiet /\ ~rhist.failed =>
         /\ mod.cache.rl # None => mod.cache.rl[1] = mod.R[1] \ mod.excl
         /\ mod.cache.down # None =>
              mod.cache.down[1] = mod.cache.rl[1] \cap (Down(mod) \cup mod.torpid \cup DrainGet(mod))
    /\ mod.pend # <<>> => (Head(mod.pend).ready # "no" \/ InFlight(World, Head(mod.pend)))

(* The drain state and what a replay of the log would give agree in every   *)
(* rank, with reason and time (drain.c: the state "is reacquired by         *)
(* replaying the eventlog"), whatever was drained, overwritten, undrained   *)
(* or excluded, and however often the module or the broker was restarted.   *)
(* Two cases are left out: a commit failed; rank 0, already drained,        *)
(* drained itself again (hist.skipped).  And what an administrator was told *)
(* of a host stays true: after a crash, and under another rank, it is       *)
(* drained or not as the last answered request left it.                     *)
ReplayFaithful ==
    /\ rkvs.flight = <<>> /\ ~rhist.failed /\ ~rhist.skipped
        => LET re == Replay(rkvs.log, mod.host)
           IN \A r \in DOMAIN mod.info :
                /\ mod.info[r].drained = re[r].drained
                /\ mod.info[r].drained => mod.info[r] = re[r]
    /\ \A r \in DOMAIN mod.host :
        /\ rhist.acked[mod.host[r]] = "drained" => mod.info[r].drained
        /\ rhist.acked[mod.host[r]] = "undrained" => ~mod.info[r].drained

(* As stated in inventory.c: "Update R in KVS, post resource-update event   *)
(* when commit is complete".  This is not so for an update that comes while *)
(* the first commit of R is in flight: its future takes the slot put_f, and *)
(* the continuation of the first destroys it.                               *)
UpdateTold ==
    ResourceQuiet /\ sched.on /\ ~mod.mute /\ ~rhist.failed => sched.exp = mod.exp

\* The scheduler and the eventlog both see the resources as they are.
ResourceKept == SchedulerView /\ ReplayFaithful

(* As stated at reslog_cb of acquire.c: "this function is not called until  *)
(* after the eventlog KVS commit completes".                                *)
CommitFirst == ~rhist.early

(* As stated in drain.c: "Drain state is sticky across module reload /      *)
(* instance restart", of the reason as well.                                *)
DrainSticky ==
    rkvs.flight = <<>> /\ ~rhist.failed
        => LET re == Replay(rkvs.log, mod.host)
           IN \A r \in DOMAIN mod.info : mod.info[r].drained => mod.info[r].reason = re[r].reason

(* As stated at reconcile_excluded: "Excluded targets may not be drained".  *)
ExcludedNotDrained == DrainGet(mod) \cap mod.excl = {}
=============================================================================
