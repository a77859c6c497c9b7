------------------------------ MODULE JobList ------------------------------
(***************************************************************************)
(* job-list (src/modules/job-list) and its source, the job manager's       *)
(* journal (journal.c) and purge (purge.c).  The job manager posts events  *)
(* to jobs; a listener of the journal gets the eventlogs of all jobs, a    *)
(* sentinel, and then each event as it is posted.  job-list rebuilds the   *)
(* state of every job from them, keeps the jobs on sorted lists, counts    *)
(* them, and answers list-id requests, some of which wait for a job to     *)
(* become known or to reach a state.  The job manager purges inactive jobs *)
(* from the KVS and tells job-list with an event message.                  *)
(***************************************************************************)
EXTENDS Integers, Sequences, FiniteSets, SequencesExt, FiniteSetsExt

CONSTANTS ListedJobs,     \* job ids: a set of numbers
          JobQueues,      \* names of queues, NoQueue not among them
          ListRequests,   \* [requests -> [id, want]], want a state or "any"
          HighPriority,   \* FLUX_JOB_PRIORITY_MAX / 2
          PurgeBatch,     \* purge_batch_max
          ListScenarios   \* sets of [script, early, limit, requests, purges, pauses, watch, unloads]

VARIABLES jm,     \* the job manager: [jobs, log, script, queue, listening, purging]
          wire,   \* messages from the job manager to job-list, in order
          jl,     \* struct list_ctx, job_state_ctx, idsync_ctx and job_stats_ctx
          lkvs,   \* job directories in the KVS
          lask,   \* [requests -> "no", "sent" or "taken"]
          lans,   \* [requests -> sequence of answers]
          lhist,  \* history: [lost, updated, missed, silent, purged]
          lleft   \* what may still happen

list_vars == <<jm, wire, jl, lkvs, lask, lans, lhist, lleft>>

-----------------------------------------------------------------------------
NoQueue == "none"
States == {"NEW", "DEPEND", "PRIORITY", "SCHED", "RUN", "CLEANUP", "INACTIVE"}
Results == {"completed", "failed", "canceled", "timeout"}
Pending == {"DEPEND", "PRIORITY", "SCHED"}
BeforeRun == {"NEW"} \cup Pending
NoException == [sev |-> 8, type |-> "none"]

ListNames == {"processing", "pending", "running", "inactive"}
GetList(state) ==
    CASE state = "NEW" -> "processing"
      [] state \in Pending -> "pending"
      [] state \in {"RUN", "CLEANUP"} -> "running"
      [] state = "INACTIVE" -> "inactive"

NoCounts == [states |-> [s \in States |-> 0], results |-> [r \in Results |-> 0], purged |-> 0]

JobCreate(spec) == [state |-> "NEW", mask |-> {"NEW"}, emask |-> {"NEW"}, prio |-> 0, t_run |-> 0,
                    t_inactive |-> 0, queue |-> NoQueue, duration |-> 0, spec |-> spec,
                    exc |-> NoException, success |-> FALSE, result |-> "failed"]

JobAbsent == [state |-> "absent"]

ListInit(s) ==
    /\ jm = [jobs |-> [j \in ListedJobs |-> JobAbsent], log |-> [j \in ListedJobs |-> <<>>],
             script |-> s.script, now |-> 0, queue |-> <<>>, listening |-> FALSE,
             purging |-> {}, f_purge |-> {}]
    /\ wire = <<>>
    /\ jl = [st |-> "out", initialized |-> FALSE, pause |-> FALSE, backlog |-> <<>>, deferred |-> {},
             index |-> [j \in ListedJobs |-> JobAbsent], lists |-> [l \in ListNames |-> <<>>],
             all |-> NoCounts, queues |-> [q \in JobQueues |-> NoCounts],
             lookups |-> {}, waits |-> {}, timer |-> FALSE, watcher |-> FALSE, seen |-> <<>>]
    /\ lkvs = {}
    /\ lask = [r \in DOMAIN ListRequests |-> "no"]
    /\ lans = [r \in DOMAIN ListRequests |-> <<>>]
    /\ lhist = [lost |-> {}, updated |-> {}, missed |-> {}, silent |-> FALSE, purged |-> {}]
    /\ lleft = [requests |-> s.requests, purges |-> s.purges, pauses |-> s.pauses, watch |-> s.watch,
                unloads |-> s.unloads, early |-> s.early, limit |-> s.limit]

-----------------------------------------------------------------------------
(* The job manager: event.c, journal.c and purge.c *)

(* What an event makes of a job of the job manager.                         *)
EventJobUpdate(m, e) ==
    CASE e.name = "validate" -> [m EXCEPT !.state = "DEPEND"]
      [] e.name = "depend" -> [m EXCEPT !.state = IF @ = "DEPEND" THEN "PRIORITY" ELSE @]
      [] e.name = "priority" -> [m EXCEPT !.state = IF @ = "PRIORITY" THEN "SCHED" ELSE @,
                                         !.prio = IF m.state \in {"PRIORITY", "SCHED"} THEN e.val ELSE @]
      [] e.name = "jobspec-update" -> [m EXCEPT !.spec = [f \in DOMAIN @ |-> IF f = e.key THEN e.val ELSE @[f]],
                                               !.state = IF @ = "SCHED" THEN "PRIORITY" ELSE @]
      [] e.name \in {"urgency", "flux-restart"} -> [m EXCEPT !.state = IF @ = "SCHED" THEN "PRIORITY" ELSE @]
      [] e.name = "alloc" -> [m EXCEPT !.state = IF @ = "SCHED" THEN "RUN" ELSE @]
      [] e.name = "exception" -> [m EXCEPT !.state = IF e.val.sev = 0 /\ @ \notin {"NEW", "INACTIVE"}
                                                     THEN "CLEANUP" ELSE @]
      [] e.name = "finish" -> [m EXCEPT !.state = IF @ = "RUN" THEN "CLEANUP" ELSE @]
      [] e.name = "clean" -> [m EXCEPT !.state = IF @ = "CLEANUP" THEN "INACTIVE" ELSE @]
      [] OTHER -> m

EventMessage(j, events, spec) == [type |-> "events", id |-> j, events |-> events, spec |-> spec]
Send(msgs) == IF jl.st = "up" THEN wire \o msgs ELSE wire

(* The next step of the script: job-ingest stores a job, and unlinks one     *)
(* that was refused; any other is an event, which the journal sends to its   *)
(* listener.                                                                 *)
PostEvent ==
    /\ jm.script /= <<>>
    /\ \E j \in {Head(jm.script).job}, e \in {Head(jm.script).event}, now \in {jm.now + 1} :
        LET entry == [e EXCEPT !.t = now]
            m == IF e.name = "submit" THEN [state |-> "NEW", prio |-> 0, spec |-> e.val]
                 ELSE EventJobUpdate(jm.jobs[j], e)
        IN IF e.name \in {"store", "unlink"}
           THEN /\ jm' = [jm EXCEPT !.script = Tail(@)]
                /\ lkvs' = IF e.name = "store" THEN lkvs \cup {j} ELSE lkvs \ {j}
                /\ UNCHANGED <<wire, lhist>>
           ELSE /\ jm' = [jm EXCEPT !.script = Tail(@), !.now = now, !.log[j] = Append(@, entry),
                                    !.jobs[j] = IF e.name = "invalidate" THEN JobAbsent ELSE m,
                                    !.queue = IF e.name = "clean" THEN Append(@, j) ELSE @]
                /\ wire' = IF jm.listening THEN Send(<<EventMessage(j, <<entry>>, m.spec)>>) ELSE wire
                /\ lhist' = [lhist EXCEPT
                               !.updated = IF e.name \in {"urgency", "jobspec-update"} /\ jm.jobs[j].state = "SCHED"
                                           THEN @ \cup {j}
                                           ELSE IF m.state = "PRIORITY" THEN @ ELSE @ \ {j}]
                /\ UNCHANGED lkvs
    /\ UNCHANGED <<jl, lask, lans, lleft>>

(* The job manager takes the request of a listener: journal_handle_request,  *)
(* send_backlog.  Inactive jobs come first, in no particular order.          *)
JournalRequest ==
    /\ jl.st = "up" /\ ~jm.listening /\ lleft.unloads >= 0
    /\ jm' = [jm EXCEPT !.listening = TRUE]
    /\ LET held(active) == {j \in ListedJobs : /\ jm.jobs[j] /= JobAbsent
                                               /\ active = (jm.jobs[j].state /= "INACTIVE")}
           logs(js) == LET order == SetToSeq(js)
                       IN [i \in 1..Len(order) |-> EventMessage(order[i], jm.log[order[i]], jm.jobs[order[i]].spec)]
       IN wire' = wire \o logs(held(FALSE)) \o logs(held(TRUE)) \o <<[type |-> "sentinel"]>>
    /\ UNCHANGED <<jl, lkvs, lask, lans, lhist, lleft>>

(* journal_ctx_destroy: the job manager is unloaded.                         *)
JournalEnds ==
    /\ jm.listening /\ lleft.unloads > 0
    /\ jm' = [jm EXCEPT !.listening = FALSE, !.script = <<>>]
    /\ wire' = Append(wire, [type |-> "eof"])
    /\ lleft' = [lleft EXCEPT !.unloads = -1]
    /\ UNCHANGED <<jl, lkvs, lask, lans, lhist>>

(* The jobs that exceed the limit on the number of inactive jobs, oldest     *)
(* first, at most a batch of them: purge_eligible, purge_jobs.               *)
PurgeJobs(limit, max) ==
    LET over == Len(jm.queue) - limit
    IN SubSeq(jm.queue, 1, IF over < max THEN over ELSE max)

(* purge_inactive_jobs: the commit and the event are sent at once, the jobs  *)
(* forgotten.                                                                *)
PurgeInactive(js, periodic) ==
    /\ js /= <<>>
    /\ jm' = [jm EXCEPT !.jobs = [j \in ListedJobs |-> IF j \in ToSet(js) THEN JobAbsent ELSE @[j]],
                        !.queue = SelectSeq(@, LAMBDA j : j \notin ToSet(js)),
                        !.purging = @ \cup {ToSet(js)},
                        !.f_purge = IF periodic THEN ToSet(js) ELSE @]
    /\ wire' = Send(<<[type |-> "purge", jobs |-> js]>>)
    /\ lhist' = [lhist EXCEPT !.purged = @ \cup ToSet(js)]

SyncCb ==
    /\ jm.f_purge = {} /\ lleft.unloads >= 0
    /\ PurgeInactive(PurgeJobs(lleft.limit, PurgeBatch), TRUE)
    /\ UNCHANGED <<jl, lkvs, lask, lans, lleft>>

PurgeRequest ==
    /\ lleft.purges > 0 /\ lleft.unloads >= 0
    /\ \/ PurgeInactive(PurgeJobs(0, 1), FALSE)
       \/ \E j \in ToSet(jm.queue) : PurgeInactive(<<j>>, FALSE)
    /\ lleft' = [lleft EXCEPT !.purges = @ - 1]
    /\ UNCHANGED <<jl, lkvs, lask, lans>>

(* The KVS has committed the unlinks: purge_continuation.                    *)
PurgeContinuation ==
    /\ \E js \in jm.purging :
        /\ lkvs' = lkvs \ js
        /\ jm' = [jm EXCEPT !.purging = @ \ {js}, !.f_purge = IF @ = js THEN {} ELSE @]
    /\ UNCHANGED <<wire, jl, lask, lans, lhist, lleft>>

-----------------------------------------------------------------------------
(* job-list: stats.c *)

(* A handler takes the module, the answers and the history through its calls. *)
Listing == [l |-> jl, a |-> lans, h |-> lhist]
ListingDone(new) == \E x \in {new} : jl' = x.l /\ lans' = x.a /\ lhist' = x.h

ResultOf(job) ==
    IF job.success THEN "completed"
    ELSE IF job.exc.type \in {"cancel"} THEN "canceled"
    ELSE IF job.exc.type \in {"timeout"} THEN "timeout"
    ELSE "failed"

(* Adds n times a job in a state; jobs in NEW are not counted.               *)
StatsAdd(c, job, state, n) ==
    IF state = "NEW" THEN c
    ELSE [c EXCEPT !.states[state] = @ + n,
                   !.results = IF state = "INACTIVE"
                               THEN [@ EXCEPT ![ResultOf(job)] = @ + n] ELSE @]

StatsUpdate(c, job, new) ==
    StatsAdd(IF job.state = "NEW" THEN c ELSE [c EXCEPT !.states[job.state] = @ - 1], job, new, 1)

ArmTimer(x) == [x EXCEPT !.l.timer = TRUE]

JobStatsUpdate(x, job, new) ==
    ArmTimer([x EXCEPT !.l.all = StatsUpdate(@, job, new),
                       !.l.queues = IF job.queue = NoQueue THEN @
                                    ELSE [@ EXCEPT ![job.queue] = StatsUpdate(@, job, new)]])

JobStatsAddQueue(x, job) ==
    ArmTimer([x EXCEPT !.l.queues = IF job.queue = NoQueue THEN @
                                    ELSE [@ EXCEPT ![job.queue] = StatsAdd(@, job, job.state, 1)]])

JobStatsRemoveQueue(x, job) ==
    IF job.queue = NoQueue THEN x
    ELSE ArmTimer([x EXCEPT !.l.queues[job.queue] = StatsAdd(@, job, job.state, -1)])

StatsPurge(c, job) == [StatsAdd(c, job, job.state, -1) EXCEPT !.purged = @ + 1]

(* The watchers are not told of a purge of a job without a queue.            *)
JobStatsPurge(x, job) ==
    IF job.queue = NoQueue
    THEN [x EXCEPT !.l.all = StatsPurge(@, job), !.h.silent = @ \/ ~x.l.timer]
    ELSE ArmTimer([x EXCEPT !.l.all = StatsPurge(@, job),
                            !.l.queues[job.queue] = StatsPurge(@, job)])

Counts(l) == [all |-> l.all, queues |-> l.queues]

-----------------------------------------------------------------------------
(* job-list: list.c and idsync.c *)

RespondJob(x, r) ==
    [x EXCEPT !.a[r] = Append(@, [state |-> x.l.index[ListRequests[r].id].state,
                                  mask |-> x.l.index[ListRequests[r].id].mask])]
RespondEnoent(x, r) == [x EXCEPT !.a[r] = Append(@, [state |-> "enoent", mask |-> {}])]

Reached(job, want) == want = "any" \/ want \in job.mask

(* What get_job_by_id does of a request: answer, look the id up in the KVS   *)
(* ("lookup"), or wait for the job ("wait").                                 *)
GetJobById(job, want) ==
    IF job = JobAbsent THEN "lookup"
    ELSE IF job.state = "INACTIVE" THEN "answer"
    ELSE IF job.state = "NEW" \/ ~Reached(job, want) THEN "wait"
    ELSE "answer"

(* The state of a job has changed.                                           *)
IdsyncCheckWaitingId(x, j) ==
    LET job == x.l.index[j]
        ready == {r \in x.l.waits : /\ ListRequests[r].id = j
                                    /\ Reached(job, ListRequests[r].want) \/ job.state = "INACTIVE"}
    IN FoldLeft(LAMBDA y, r : RespondJob(y, r), [x EXCEPT !.l.waits = @ \ ready], SetToSeq(ready))

-----------------------------------------------------------------------------
(* job-list: job_state.c *)

(* cmp (a, b) <= 0 for the comparators of the lists.                         *)
Precedes(l, name, a, b) ==
    LET u == l.index[a]  v == l.index[b]
    IN CASE name = "pending" -> u.prio > v.prio \/ (u.prio = v.prio /\ a <= b)
         [] name = "running" -> u.t_run >= v.t_run
         [] name = "inactive" -> u.t_inactive >= v.t_inactive
         [] name = "processing" -> FALSE

(* zlistx_insert and zlistx_reorder search for the place of a job from the   *)
(* head of the list, or from its tail.                                       *)
ListInsert(l, name, j) ==
    LET list == SelectSeq(l.lists[name], LAMBDA k : k /= j)
        head == name /= "pending" \/ l.index[j].prio > HighPriority
        after == IF head
                 THEN {i \in 1..Len(list) : \A k \in 1..i : ~Precedes(l, name, j, list[k])}
                 ELSE {i \in 1..Len(list) : \E k \in i..Len(list) : Precedes(l, name, list[k], j)}
    IN InsertAt(list, Cardinality(after) + 1, j)

SetJob(x, j, job) == [x EXCEPT !.l.index[j] = job]

UpdateJobState(x, j, new, t) ==
    LET job == x.l.index[j]
    IN SetJob(JobStatsUpdate(x, job, new), j,
              [job EXCEPT !.state = new, !.mask = @ \cup {new},
                          !.t_run = IF new = "RUN" THEN t ELSE @,
                          !.t_inactive = IF new = "INACTIVE" THEN t ELSE @])

UpdateJobStateAndList(x, j, new, t) ==
    LET old == GetList(x.l.index[j].state)
        name == GetList(new)
        y == UpdateJobState(x, j, new, t)
        z == IF old /= name
             THEN [y EXCEPT !.l.lists = [@ EXCEPT ![old] = SelectSeq(@, LAMBDA k : k /= j),
                                                  ![name] = ListInsert(y.l, name, j)]]
             ELSE IF new = "SCHED" THEN [y EXCEPT !.l.lists["pending"] = ListInsert(y.l, "pending", j)]
             ELSE y
    IN IdsyncCheckWaitingId(z, j)

(* parse_jobspec: the attributes of the job come from its jobspec.           *)
ParseJobspec(job) == [job EXCEPT !.queue = job.spec.queue, !.duration = job.spec.duration]

(* process_state_transition_update, once the conditions on the state hold.   *)
StateTransition(x, j, new, t) ==
    LET job == x.l.index[j]
    IN UpdateJobStateAndList(
         SetJob(x, j, IF new = "DEPEND" THEN ParseJobspec(job)
                      ELSE IF new = "INACTIVE" THEN [job EXCEPT !.result = ResultOf(job)]
                      ELSE job), j, new, t)

(* job_transition_state, with no flags: journal_advance_job.                 *)
AdvanceJob(x, j, new, t) ==
    IF new \in x.l.index[j].emask THEN x
    ELSE StateTransition([x EXCEPT !.l.index[j].emask = @ \cup {new}], j, new, t)

(* job_transition_state, on condition of the present state.                  *)
ConditionalAdvance(x, j, new, t, expected) ==
    LET y == [x EXCEPT !.l.index[j].emask = @ \cup {new}]
    IN IF x.l.index[j].state /= expected THEN y ELSE StateTransition(y, j, new, t)

(* A revert takes the job to the state, and then falls through to a second   *)
(* transition to the same state.                                             *)
RevertJob(x, j, t) ==
    LET y == [x EXCEPT !.l.index[j].emask = @ \cup {"PRIORITY"}]
    IN IF x.l.index[j].state /= "SCHED" THEN y
       ELSE StateTransition(
              UpdateJobStateAndList([y EXCEPT !.l.index[j].mask = @ \ {"SCHED", "PRIORITY"}],
                                    j, "PRIORITY", t), j, "PRIORITY", t)

SubmitEvent(x, j, spec) ==
    IF x.l.index[j] /= JobAbsent THEN x
    ELSE [SetJob(x, j, JobCreate(spec)) EXCEPT !.l.lists["processing"] = Append(@, j)]

InvalidateEvent(x, j) ==
    [SetJob(x, j, JobAbsent) EXCEPT !.l.lists["processing"] = SelectSeq(@, LAMBDA k : k /= j)]

PriorityEvent(x, j, e) ==
    LET job == x.l.index[j]
        y == [x EXCEPT !.l.index[j].prio = e.val]
        z == IF job.state \in Pending /\ job.prio /= e.val
             THEN [y EXCEPT !.l.lists["pending"] = ListInsert(y.l, "pending", j)] ELSE y
    IN ConditionalAdvance(z, j, "SCHED", e.t, "PRIORITY")

FinishEvent(x, j, e) ==
    AdvanceJob([x EXCEPT !.l.index[j].success = @ \/ (e.val = 0 /\ x.l.index[j].exc.sev /= 0)],
               j, "CLEANUP", e.t)

ExceptionEvent(x, j, e) ==
    LET y == [x EXCEPT !.l.index[j].exc = IF e.val.sev < @.sev THEN e.val ELSE @]
    IN IF e.val.sev = 0 THEN AdvanceJob(y, j, "CLEANUP", e.t) ELSE y

(* Mutant: the count of the queue that the job leaves is kept.               *)
JobspecUpdateEventKeeps(x, j, e) ==
    IF x.l.index[j].state \notin BeforeRun THEN x
    ELSE LET job == ParseJobspec([x.l.index[j] EXCEPT !.spec = [@ EXCEPT ![e.key] = e.val]])
         IN JobStatsAddQueue(SetJob(x, j, job), job)

(* The update may move the job to another queue, and its count with it.      *)
JobspecUpdateEvent(x, j, e) ==
    IF x.l.index[j].state \notin BeforeRun THEN x
    ELSE LET job == ParseJobspec([x.l.index[j] EXCEPT !.spec = [@ EXCEPT ![e.key] = e.val]])
         IN JobStatsAddQueue(SetJob(JobStatsRemoveQueue(x, x.l.index[j]), j, job), job)

(* journal_process_event.  Events that only change attributes (urgency,      *)
(* annotations, memo, dependencies) are left out.                            *)
ProcessEvent(x, j, e, spec) ==
    CASE e.name = "submit" -> SubmitEvent(x, j, spec)
      [] x.l.index[j] = JobAbsent -> x
      [] OTHER ->
         CASE e.name = "invalidate" -> InvalidateEvent(x, j)
           [] e.name = "validate" -> AdvanceJob(x, j, "DEPEND", e.t)
           [] e.name = "depend" -> AdvanceJob(x, j, "PRIORITY", e.t)
           [] e.name = "priority" -> PriorityEvent(x, j, e)
           [] e.name = "alloc" -> AdvanceJob(x, j, "RUN", e.t)
           [] e.name = "finish" -> FinishEvent(x, j, e)
           [] e.name = "clean" -> AdvanceJob(x, j, "INACTIVE", e.t)
           [] e.name = "exception" -> ExceptionEvent(x, j, e)
           [] e.name = "jobspec-update" -> JobspecUpdateEvent(x, j, e)
           [] e.name = "flux-restart" -> RevertJob(x, j, e.t)
           [] OTHER -> x

ProcessEvents(x, msg) == FoldLeft(LAMBDA y, e : ProcessEvent(y, msg.id, e, msg.spec), x, msg.events)
ProcessBacklog(x) == [FoldLeft(ProcessEvents, x, x.l.backlog) EXCEPT !.l.backlog = <<>>]

-----------------------------------------------------------------------------
(* job-list: the handlers *)

ListUp == jl.st = "up"

(* mod_main, job_state_create, once the job manager has come to the point    *)
(* of its script that lleft.early names.                                     *)
ListLoad ==
    /\ jl.st = "out" /\ Len(jm.script) <= lleft.early
    /\ jl' = [jl EXCEPT !.st = "up"]
    /\ UNCHANGED <<jm, wire, lkvs, lask, lans, lhist, lleft>>

(* job_events_journal_continuation and purge_cb.                             *)
JournalMessage(x, msg) ==
    CASE msg.type = "eof" -> [x EXCEPT !.l.st = "stopped"]
      [] msg.type = "sentinel" ->
           [ProcessBacklog(x) EXCEPT !.l.initialized = TRUE, !.l.deferred = {}]
      [] msg.type = "events" ->
           IF ~x.l.initialized \/ x.l.pause
           THEN [x EXCEPT !.l.backlog = Append(@, msg)]
           ELSE ProcessEvents(x, msg)

PurgeCb(x, msg) ==
    FoldLeft(LAMBDA y, j :
               IF y.l.index[j].state /= "INACTIVE"
               THEN [y EXCEPT !.h.missed = IF \E m \in ToSet(y.l.backlog) : m.id = j THEN @ \cup {j} ELSE @]
               ELSE [JobStatsPurge(y, y.l.index[j]) EXCEPT
                       !.l.index[j] = JobAbsent,
                       !.l.lists["inactive"] = SelectSeq(@, LAMBDA k : k /= j)],
             x, msg.jobs)

ListReceives ==
    /\ ListUp /\ wire /= <<>>
    /\ wire' = Tail(wire)
    /\ IF Head(wire).type = "purge" THEN ListingDone(PurgeCb(Listing, Head(wire)))
       ELSE ListingDone(JournalMessage(Listing, Head(wire)))
    /\ lask' = IF Head(wire).type = "sentinel"
               THEN [r \in DOMAIN lask |-> IF r \in jl.deferred THEN "sent" ELSE lask[r]]
               ELSE lask
    /\ UNCHANGED <<jm, lkvs, lleft>>

ListIdCb ==
    /\ ListUp
    /\ \E r \in DOMAIN ListRequests :
        /\ lask[r] = "sent"
        /\ lask' = [lask EXCEPT ![r] = "taken"]
        /\ LET done == GetJobById(jl.index[ListRequests[r].id], ListRequests[r].want)
           IN ListingDone(IF ~jl.initialized THEN [Listing EXCEPT !.l.deferred = @ \cup {r}]
                          ELSE IF done = "lookup" THEN [Listing EXCEPT !.l.lookups = @ \cup {r}]
                          ELSE IF done = "wait" THEN [Listing EXCEPT !.l.waits = @ \cup {r}]
                          ELSE RespondJob(Listing, r))
    /\ UNCHANGED <<jm, wire, lkvs, lleft>>

(* The KVS answers a lookup: check_id_valid_continuation.  A job that has    *)
(* become known but has not reached the state is logged as an error, and     *)
(* the request dropped.                                                      *)
CheckIdValidContinuation ==
    /\ ListUp
    /\ \E r \in jl.lookups :
        LET j == ListRequests[r].id
            done == GetJobById(jl.index[j], ListRequests[r].want)
            x == [Listing EXCEPT !.l.lookups = @ \ {r}]
        IN ListingDone(
             IF j \notin lkvs THEN RespondEnoent(x, r)
             ELSE IF jl.index[j].state \in {"absent", "NEW"}
             THEN [x EXCEPT !.l.waits = @ \cup {r}, !.h.lost = IF j \in lhist.purged THEN @ \cup {r} ELSE @]
             ELSE IF done = "wait" THEN [x EXCEPT !.h.lost = @ \cup {r}]
             ELSE RespondJob(x, r))
    /\ UNCHANGED <<jm, wire, lkvs, lask, lleft>>

PauseCb ==
    /\ ListUp /\ jl.initialized /\ ~jl.pause /\ lleft.pauses > 0
    /\ jl' = [jl EXCEPT !.pause = TRUE]
    /\ lleft' = [lleft EXCEPT !.pauses = @ - 1]
    /\ UNCHANGED <<jm, wire, lkvs, lask, lans, lhist>>

UnpauseCb ==
    /\ ListUp /\ jl.pause
    /\ ListingDone([ProcessBacklog(Listing) EXCEPT !.l.pause = FALSE])
    /\ UNCHANGED <<jm, wire, lkvs, lask, lleft>>

(* A client watches the counts.                                              *)
JobStatsCb ==
    /\ ListUp /\ lleft.watch > 0
    /\ jl' = [jl EXCEPT !.watcher = TRUE, !.seen = <<Counts(jl)>>]
    /\ lleft' = [lleft EXCEPT !.watch = @ - 1]
    /\ UNCHANGED <<jm, wire, lkvs, lask, lans, lhist>>

TimerCb ==
    /\ ListUp /\ jl.timer
    /\ jl' = [jl EXCEPT !.timer = FALSE, !.seen = IF jl.watcher THEN <<Counts(jl)>> ELSE @]
    /\ lhist' = [lhist EXCEPT !.silent = FALSE]
    /\ UNCHANGED <<jm, wire, lkvs, lask, lans, lleft>>

ClientLists ==
    /\ \E r \in lleft.requests :
        /\ lask' = [lask EXCEPT ![r] = "sent"]
        /\ lleft' = [lleft EXCEPT !.requests = @ \ {r}]
    /\ UNCHANGED <<jm, wire, jl, lkvs, lans, lhist>>

ListNext ==
    \/ PostEvent \/ JournalRequest \/ JournalEnds
    \/ SyncCb \/ PurgeRequest \/ PurgeContinuation
    \/ ListLoad \/ ListReceives \/ ListIdCb \/ CheckIdValidContinuation
    \/ PauseCb \/ UnpauseCb \/ JobStatsCb \/ TimerCb
    \/ ClientLists

-----------------------------------------------------------------------------
(* Every journal message sent was processed. *)
CaughtUp == ListUp /\ jl.initialized /\ wire = <<>> /\ jl.backlog = <<>>

(* What list.c answers to a request for inactive jobs since a time: the scan *)
(* stops at the first job that is old enough.                                *)
JobsSince(since) ==
    LET list == jl.lists["inactive"]
        stop == {i \in 1..Len(list) : jl.index[list[i]].t_inactive <= since}
    IN {list[i] : i \in {k \in 1..Len(list) : \A s \in stop : k < s}}

KnownJobs == {j \in ListedJobs : jl.index[j] /= JobAbsent}

CountsOf(js) ==
    [states |-> [s \in States |-> IF s = "NEW" THEN 0 ELSE Cardinality({j \in js : jl.index[j].state = s})],
     results |-> [r \in Results |-> Cardinality({j \in js : jl.index[j].state = "INACTIVE"
                                                         /\ jl.index[j].result = r})]]

(* Every job that job-list knows is on the list its state belongs to and on  *)
(* no other, pending jobs by priority and id, the others by time; a request  *)
(* for the jobs since a time, which stops at the first old one, misses none; *)
(* and the counts, of all jobs and of each queue, are those of the jobs,     *)
(* through reverts, cancellations, moves between queues and purges           *)
(* (job_state.c update_job_state_and_list, stats.c).  Once job-list has      *)
(* processed what the job manager sent, it knows the jobs the job manager    *)
(* holds, and each is in its state there, in its queue, with its priority;   *)
(* a job whose urgency or jobspec was updated in SCHED state excepted, which *)
(* job-list does not revert to PRIORITY, and a job whose purge came while    *)
(* its last events were in the backlog, which job-list does not forget       *)
(* (PurgeForgets).                                                           *)
ListFaithful ==
    /\ \A j \in ListedJobs, name \in ListNames :
         Cardinality({i \in 1..Len(jl.lists[name]) : jl.lists[name][i] = j})
           = IF j \in KnownJobs /\ GetList(jl.index[j].state) = name THEN 1 ELSE 0
    /\ \A name \in {"pending", "running", "inactive"} : \A i, k \in 1..Len(jl.lists[name]) :
         i < k => Precedes(jl, name, jl.lists[name][i], jl.lists[name][k])
    /\ \A t \in 0..jm.now : JobsSince(t) = {j \in KnownJobs : jl.index[j].t_inactive > t}
    /\ \E c \in {CountsOf(KnownJobs)} : c.states = jl.all.states /\ c.results = jl.all.results
    /\ \A q \in JobQueues : \E c \in {CountsOf({j \in KnownJobs : jl.index[j].queue = q})} :
         c.states = jl.queues[q].states /\ c.results = jl.queues[q].results
    /\ CaughtUp /\ jm.listening =>
         \A j \in ListedJobs \ lhist.missed :
           /\ j \in KnownJobs <=> jm.jobs[j] /= JobAbsent
           /\ j \in KnownJobs =>
                /\ j \notin lhist.updated => jl.index[j].state = jm.jobs[j].state
                /\ jl.index[j].prio = jm.jobs[j].prio
                /\ jl.index[j].state /= "NEW" => jl.index[j].queue = jm.jobs[j].spec.queue

(* What may be waited for: nothing is in flight, and job-list is not paused. *)
ListQuiet ==
    /\ CaughtUp /\ ~jl.pause /\ jm.listening /\ ~jl.timer
    /\ jl.lookups = {} /\ jm.purging = {} /\ jm.script = <<>>
    /\ \A r \in DOMAIN lask : lask[r] /= "sent"

(* A list-id request is answered at most once: with the job, which has then  *)
(* reached the state asked for or is inactive, or with ENOENT, which repeats *)
(* what the KVS said when it was asked.  When nothing                        *)
(* is left to happen, every request has been answered except those for a job *)
(* that is active and has not reached the state, and those that a lookup     *)
(* overtaken by an event or by a purge has dropped (list.c                   *)
(* check_id_valid_continuation); and a client that watches the counts has    *)
(* been sent the latest, unless a purge of a job without a queue changed     *)
(* them (stats.c job_stats_purge).                                           *)
ListAnswers ==
    /\ \A r \in DOMAIN lans :
         /\ Len(lans[r]) <= 1
         /\ lans[r] /= <<>> /\ lans[r][1].state \notin {"enoent", "INACTIVE"} =>
              /\ lans[r][1].state /= "NEW"
              /\ ListRequests[r].want \in lans[r][1].mask \cup {"any"}
    /\ ListQuiet =>
         /\ \A r \in DOMAIN lask \ lhist.lost :
              lask[r] = "taken" /\ lans[r] = <<>> =>
                \E job \in {jl.index[ListRequests[r].id]} :
                  job /= JobAbsent /\ GetJobById(job, ListRequests[r].want) = "wait"
         /\ jl.watcher /\ ~lhist.silent => jl.seen = <<Counts(jl)>>

\* job-list agrees with the job manager, in what it keeps and in what it answers.
ListKept == ListFaithful /\ ListAnswers

(* Violated: no list-id request is dropped (list.c:366-403).                 *)
ListIdAlways == ListQuiet => \A r \in lhist.lost : lans[r] /= <<>>

(* Violated: a job that was purged is forgotten (job-list.c:96).             *)
PurgeForgets == ListQuiet => \A j \in lhist.purged : jl.index[j] = JobAbsent

(* Violated: job-list shows the state of the job manager (job_state.c:791).  *)
StateAgrees ==
    CaughtUp /\ jm.listening =>
        \A j \in KnownJobs \ lhist.missed : jl.index[j].state = jm.jobs[j].state

(* Violated: the duration of a job is that of its jobspec when it started    *)
(* to run (job_state.c:802-809), whether job-list followed the job or read   *)
(* its eventlog later.                                                       *)
DurationKept ==
    CaughtUp => \A j \in KnownJobs : jl.index[j].state = "RUN" =>
        LET log == jm.log[j]
            at(name) == {i \in 1..Len(log) : log[i].name = name}
            set == {i \in at("jobspec-update") : log[i].key = "duration" /\ \A k \in at("alloc") : i < k}
        IN jl.index[j].duration = IF set = {} THEN log[1].val.duration ELSE log[Max(set)].val

=============================================================================
