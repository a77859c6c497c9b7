----------------------------- MODULE JobManager -----------------------------
(***************************************************************************)
(* The job manager (src/modules/job-manager): the life of a job from the   *)
(* submit request to the INACTIVE state, with its two partners, the        *)
(* scheduler (RFC 27 protocol, alloc.c) and the exec service (start.c).    *)
(*                                                                         *)
(* The job manager is one reactor: a handler runs to completion before the *)
(* next one.  What a handler does after its own assignments is to post     *)
(* events to jobs; event_job_post_entry() queues an event behind those     *)
(* that the job is still processing and otherwise processes it, and what   *)
(* that posts, before it returns.  Here a handler queues the event, and    *)
(* Process steps drain the queues: every other action waits for Idle.      *)
(*                                                                         *)
(* Messages between the job manager and the scheduler stay in order.  A    *)
(* message names a set of jobs: the cancel requests that one handler sends *)
(* in a loop are one message, which the scheduler takes job by job.        *)
(***************************************************************************)
EXTENDS Integers, Sequences, FiniteSets

CONSTANTS Job,              \* job IDs
          UserUrgency,      \* urgencies that users ask for
          PluginPriority,   \* priorities the priority plugin may assign
          PriorityUnavail,  \* may the plugin leave a job without a priority?
          DependCount,      \* numbers of dependencies plugins add to a job
          PerilogCount,     \* numbers of prologs (epilogs) plugins start
          PerilogMax,       \* UINT8_MAX, where job->perilog_active saturates
          Housekeeping,     \* is a housekeeping command configured?
          AllocLimit,       \* alloc_limit, 0 if the scheduler is unlimited
          MaxRequest        \* bounds: MaxRequest[k] requests of kind k

\* The model has ten priorities; the largest of the code is 4294967295.
FLUX_JOB_PRIORITY_MIN == 0
FLUX_JOB_PRIORITY_MAX == 9
HOLD == 0                         \* FLUX_JOB_URGENCY_HOLD
DEFAULT == 16
EXPEDITE == 31
Urgency == {HOLD, DEFAULT, EXPEDITE}
Priority == {-1} \cup FLUX_JOB_PRIORITY_MIN..FLUX_JOB_PRIORITY_MAX

\* Kinds of request whose number a model bounds: exceptions and memos, urgency
\* and jobspec updates and plugin reprioritizations, queue stops, scheduler
\* losses, alloc requests that fail, jobs that a new scheduler fails to
\* reallocate, and losses of the exec service.
RequestKind == {"raise", "update", "stop", "sched", "error", "hello", "exec"}

ASSUME JobAssumption == Job \subseteq Nat /\ IsFiniteSet(Job)
ASSUME PluginAssumption ==
  /\ UserUrgency \subseteq Urgency
  /\ PluginPriority \subseteq FLUX_JOB_PRIORITY_MIN..FLUX_JOB_PRIORITY_MAX
  /\ PriorityUnavail \in BOOLEAN
  /\ DependCount \subseteq Nat
  /\ PerilogCount \subseteq Nat
  /\ PerilogMax \in Nat \ {0}
ASSUME ConfigAssumption ==
  /\ Housekeeping \in BOOLEAN
  /\ AllocLimit \in Nat
  /\ MaxRequest \in [RequestKind -> Nat]

VARIABLES
  job,           \* struct job of every job
  event_queue,   \* job->event_queue
  active,        \* ctx->active_jobs
  inactive,      \* ctx->inactive_jobs
  queue,         \* alloc->queue, a list that is kept sorted
  sent,          \* alloc->sent
  batch,         \* jobs held by the open event batch
  commits,       \* jobs held by the batches being committed, oldest first
  start,         \* queue->anon->start
  online,        \* alloc->scheduler_is_online
  topic,         \* has an exec service registered (start->topic)?
  housekept,     \* jobs whose resources housekeeping holds
  todo,          \* jobs the running handler has yet to call event_job_action on
  requests,      \* number of requests of each kind so far
  to_sched,      \* messages to the scheduler
  from_sched,    \* and from it
  sched,         \* the scheduler: "down", "hello" (greeted) or "ready"
  sched_queue,   \* its alloc requests
  sched_alloc,   \* the jobs it has allocated resources to
  sched_commit,  \* those whose R it is committing to the KVS
  sched_fail,    \* jobs whose resources it failed to reallocate
  exec_up,       \* is an exec service loaded?
  exec           \* its view of each job

jobs == <<active, inactive>>
batches == <<batch, commits>>
channels == <<to_sched, from_sched>>
manager == <<job, event_queue, jobs, queue, sent, batches, start, online, topic,
             housekept, todo>>
scheduler == <<sched, sched_queue, sched_alloc, sched_commit, sched_fail>>
execution == <<exec_up, exec>>
vars == <<manager, requests, channels, scheduler, execution>>

State == {"NEW", "DEPEND", "PRIORITY", "SCHED", "RUN", "CLEANUP", "INACTIVE"}

\* Severity 0 exceptions, of type scheduler-restart and of any other type.
FatalException == {"exception", "exception.scheduler-restart"}

EventName == {"validate", "dependency-add", "dependency-remove", "depend",
              "priority", "urgency", "jobspec-update", "alloc", "free",
              "start", "finish", "release", "clean", "prolog-start",
              "prolog-finish", "epilog-start", "epilog-finish", "memo"}
             \cup FatalException

\* An event's argument is the priority or the urgency it assigns.
Event == [name : EventName \ {"priority", "urgency"}, arg : {0}]
           \cup [name : {"priority"}, arg : Priority]
           \cup [name : {"urgency"}, arg : Urgency]
Ev(name) == [name |-> name, arg |-> 0]

StructJob == [state : State,
              priority : Priority,
              urgency : Urgency,
              dependencies : Nat,
              perilog_active : 0..PerilogMax,
              end_event : {"none", "exception", "finish"},
              depend_posted : BOOLEAN,
              alloc_queued : BOOLEAN,
              alloc_pending : BOOLEAN,
              has_resources : BOOLEAN,
              R : BOOLEAN,
              start_pending : BOOLEAN,
              free_posted : BOOLEAN,
              hold_events : BOOLEAN,
              eventlog_readonly : BOOLEAN]

\* Messages to the scheduler and from it.
SchedRequest == [type : {"alloc", "cancel", "free"}, ids : SUBSET Job]
SchedResponse == [type : {"success", "deny", "cancel", "error"}, id : Job]

\* job_alloc
NewJob == [state |-> "NEW", priority |-> -1, urgency |-> DEFAULT,
           dependencies |-> 0, perilog_active |-> 0, end_event |-> "none",
           depend_posted |-> FALSE, alloc_queued |-> FALSE,
           alloc_pending |-> FALSE, has_resources |-> FALSE, R |-> FALSE,
           start_pending |-> FALSE, free_posted |-> FALSE,
           hold_events |-> FALSE, eventlog_readonly |-> FALSE]

Init ==
  /\ job = [j \in Job |-> NewJob]
  /\ event_queue = [j \in Job |-> << >>]
  /\ active = {} /\ inactive = {}
  /\ queue = {} /\ sent = {}
  /\ batch = {} /\ commits = << >>
  /\ start = TRUE
  /\ online = FALSE
  /\ topic = FALSE
  /\ housekept = {}
  /\ todo = {}
  /\ requests = [k \in RequestKind |-> 0]
  /\ to_sched = << >> /\ from_sched = << >>
  /\ sched = "down"
  /\ sched_queue = {} /\ sched_alloc = {} /\ sched_commit = {}
  /\ sched_fail = {}
  /\ exec_up = FALSE
  /\ exec = [j \in Job |-> "none"]

\* A job whose events are being processed, inside the running handler.
Busy(j) == /\ event_queue[j] # << >>
           /\ ~ job[j].hold_events
           /\ ~ job[j].eventlog_readonly

\* The reactor is between two handlers.
Idle == todo = {} /\ \A j \in Job : ~ Busy(j)

\* job_event_is_queued: the event being processed is still in the queue.
IsQueued(q, name) == \E i \in 1..Len(q) : q[i].name = name

Posts(q, name, n) == q \o [i \in 1..n |-> Ev(name)]

\* event_job_post_entry; EROFS once the eventlog is read-only.
Post(j, e) ==
  event_queue' = IF job[j].eventlog_readonly
                   THEN event_queue
                   ELSE [event_queue EXCEPT ![j] = Append(@, e)]

Counts(kind) ==
  /\ requests[kind] < MaxRequest[kind]
  /\ requests' = [requests EXCEPT ![kind] = @ + 1]

-----------------------------------------------------------------------------
(* event_job_update: the state machine of RFC 21. *)

ToPriority(r) ==
  [r EXCEPT !.state = IF @ = "SCHED" THEN "PRIORITY" ELSE @]

EndedBy(r, e) ==
  [r EXCEPT !.state = "CLEANUP",
            !.end_event = IF @ = "none" THEN e ELSE @]

event_handle_dependency(r, name) ==
  IF r.state \notin {"NEW", "DEPEND"} THEN r
  ELSE IF name = "dependency-add" THEN [r EXCEPT !.dependencies = @ + 1]
  ELSE [r EXCEPT !.dependencies = IF @ > 0 THEN @ - 1 ELSE 0]

\* EOVERFLOW is PerilogOverflow below.
event_handle_perilog(r, name) ==
  IF name \in {"prolog-start", "epilog-start"}
    THEN [r EXCEPT !.perilog_active = @ + 1]
    ELSE [r EXCEPT !.perilog_active = IF @ > 0 THEN @ - 1 ELSE 0]

event_job_update(r, e) ==
  CASE e.name = "validate" -> [r EXCEPT !.state = "DEPEND"]
    [] e.name = "jobspec-update" -> ToPriority(r)
    [] e.name \in {"dependency-add", "dependency-remove"} ->
         event_handle_dependency(r, e.name)
    [] e.name = "depend" /\ r.state = "DEPEND" ->
         [r EXCEPT !.state = "PRIORITY"]
    [] e.name = "priority" /\ r.state \in {"PRIORITY", "SCHED"} ->
         [r EXCEPT !.priority = e.arg, !.state = "SCHED"]
    [] e.name = "urgency" -> ToPriority([r EXCEPT !.urgency = e.arg])
    [] e.name \in FatalException /\ r.state \notin {"INACTIVE", "NEW"} ->
         EndedBy([r EXCEPT !.has_resources =
                             @ /\ e.name # "exception.scheduler-restart"],
                 "exception")
    [] e.name = "alloc" ->
         [r EXCEPT !.has_resources = TRUE,
                   !.state = IF @ = "SCHED" THEN "RUN" ELSE @]
    [] e.name = "free" -> [r EXCEPT !.has_resources = FALSE]
    [] e.name = "finish" /\ r.state = "RUN" -> EndedBy(r, "finish")
    [] e.name = "clean" /\ r.state = "CLEANUP" ->
         [r EXCEPT !.state = "INACTIVE"]
    [] e.name \in {"prolog-start", "prolog-finish"} /\ ~ r.start_pending ->
         event_handle_perilog(r, e.name)
    [] e.name \in {"epilog-start", "epilog-finish"} /\ r.state = "CLEANUP" ->
         event_handle_perilog(r, e.name)
    [] OTHER -> r

PerilogOverflow(r, e) ==
  /\ \/ e.name = "prolog-start" /\ ~ r.start_pending
     \/ e.name = "epilog-start" /\ r.state = "CLEANUP"
  /\ r.perilog_active = PerilogMax

\* event_job_process_entry refuses the entry.
EntryRefused(r, e) ==
  PerilogOverflow(r, e) \/ (e.name \in FatalException /\ r.state = "NEW")

-----------------------------------------------------------------------------
(* The alloc queue (alloc.c). *)

\* job_priority_comparator: a comes before b.
Before(jb, a, b) ==
  \/ jb[a].priority > jb[b].priority
  \/ jb[a].priority = jb[b].priority /\ a < b

Send(ts, type, J) ==
  IF J = {} THEN ts ELSE Append(ts, [type |-> type, ids |-> J])

\* alloc_queue_recalc_pending pairs the k-th job of the queue with the k-th
\* last one sent, and cancels the latter while it comes after the former.
Outranked(jb, q, s) ==
  IF AllocLimit = 0 THEN {}
  ELSE {t \in s : Cardinality({h \in q : Before(jb, h, t)})
                    >= Cardinality({u \in s : u = t \/ Before(jb, t, u)})}

\* Mutant: the job stays in alloc->sent.
RequeueSent(J) ==
  /\ UNCHANGED sent
  /\ queue' = IF start THEN queue \cup J ELSE queue
  /\ job' = [j \in Job |->
               IF j \in J
                 THEN [job[j] EXCEPT !.alloc_pending = FALSE,
                                     !.alloc_queued = @ \/ start]
                 ELSE job[j]]

\* requeue_pending for the jobs of J.
RequeuePending(J) ==
  /\ sent' = sent \ J
  /\ queue' = IF start THEN queue \cup J ELSE queue
  /\ job' = [j \in Job |->
               IF j \in J
                 THEN [job[j] EXCEPT !.alloc_pending = FALSE,
                                     !.alloc_queued = @ \/ start]
                 ELSE job[j]]

\* interface_teardown
AllocTeardown ==
  IF online
    THEN /\ RequeuePending({j \in active : job[j].alloc_pending})
         /\ online' = FALSE
    ELSE UNCHANGED <<job, queue, sent, online>>

alloc_send_free_request(ts, j) ==
  IF online THEN Send(ts, "free", {j}) ELSE ts

-----------------------------------------------------------------------------
(* event_job_action(j), where r is the struct job, q its event queue and ts  *)
(* the messages to the scheduler so far; done is the number of entries that  *)
(* event_job_post_deferred dequeues when the action returns.                 *)

Dequeue(j, q, done) ==
  event_queue' = [event_queue EXCEPT ![j] = SubSeq(q, done + 1, Len(q))]

ActionDepend(j, r, q, ts, done) ==
  LET post == /\ r.dependencies = 0
              /\ ~ IsQueued(q, "dependency-add")
              /\ ~ r.depend_posted
  IN /\ r.state = "DEPEND"
     /\ job' = [job EXCEPT ![j] = [r EXCEPT !.depend_posted = @ \/ post]]
     /\ Dequeue(j, IF post THEN Append(q, Ev("depend")) ELSE q, done)
     /\ to_sched' = ts
     /\ UNCHANGED <<jobs, queue, sent, housekept, exec>>

\* Mutant: the response to the canceled request is not waited for.
ActionPriorityFinal(j, r, q, ts, done) ==
  /\ r.state = "PRIORITY"
  /\ job' = [job EXCEPT ![j] = [r EXCEPT !.alloc_queued = FALSE,
                                         !.alloc_pending = FALSE]]
  /\ queue' = queue \ {j}
  /\ sent' = sent \ {j}
  /\ to_sched' = IF r.alloc_pending THEN Send(ts, "cancel", {j}) ELSE ts
  /\ Dequeue(j, q, done)
  /\ UNCHANGED <<jobs, housekept, exec>>

ActionPriority(j, r, q, ts, done) ==
  /\ r.state = "PRIORITY"
  /\ job' = [job EXCEPT ![j] = [r EXCEPT !.alloc_queued = FALSE]]
  /\ queue' = IF r.alloc_queued THEN queue \ {j} ELSE queue
  /\ to_sched' = IF r.alloc_pending THEN Send(ts, "cancel", {j}) ELSE ts
  /\ Dequeue(j, q, done)
  /\ UNCHANGED <<jobs, sent, housekept, exec>>

\* alloc_enqueue_alloc_request
Enqueues(r) ==
  /\ ~ r.alloc_queued
  /\ ~ r.alloc_pending
  /\ r.priority # FLUX_JOB_PRIORITY_MIN
  /\ start

ActionSched(j, r, q, ts, done) ==
  LET jb == [job EXCEPT ![j] = [r EXCEPT !.alloc_queued = @ \/ Enqueues(r)]]
      aq == IF Enqueues(r) THEN queue \cup {j} ELSE queue
  IN /\ r.state = "SCHED"
     /\ job' = jb
     /\ queue' = aq
     /\ to_sched' = Send(ts, "cancel", Outranked(jb, aq, sent))
     /\ Dequeue(j, q, done)
     /\ UNCHANGED <<jobs, sent, housekept, exec>>

\* Mutant: a prolog that a plugin has just started is not waited for.
StartsNow(r, q) == r.perilog_active = 0 /\ ~ r.start_pending /\ topic

Starts(r, q) ==
  /\ r.perilog_active = 0
  /\ ~ IsQueued(q, "prolog-start")
  /\ ~ r.start_pending
  /\ topic

\* start_send_request
ActionRun(j, r, q, ts, done) ==
  /\ r.state = "RUN"
  /\ job' = [job EXCEPT ![j] = [r EXCEPT !.start_pending = @ \/ Starts(r, q)]]
  /\ exec' = IF Starts(r, q) THEN [exec EXCEPT ![j] = "init"] ELSE exec
  /\ to_sched' = ts
  /\ Dequeue(j, q, done)
  /\ UNCHANGED <<jobs, queue, sent, housekept>>

\* Mutant: the exec service's final release is not waited for.
QuietUnreleased(r, q) ==
  ~ IsQueued(q, "epilog-start") /\ r.perilog_active = 0

\* Nothing uses the job's resources any more.
Quiet(r, q) ==
  /\ ~ IsQueued(q, "epilog-start")
  /\ r.perilog_active = 0
  /\ ~ r.start_pending

\* alloc_cancel_alloc_request (finalize = true), alloc_dequeue_alloc_request,
\* housekeeping_start, and the free and clean events.
ActionCleanup(j, r, q, ts, done) ==
  LET ts1 == IF r.alloc_pending THEN Send(ts, "cancel", {j}) ELSE ts
      free == r.has_resources /\ Quiet(r, q) /\ ~ r.free_posted
      clean == ~ r.has_resources /\ Quiet(r, q)
  IN /\ r.state = "CLEANUP"
     /\ job' = [job EXCEPT ![j] = [r EXCEPT !.alloc_pending = FALSE,
                                            !.alloc_queued = FALSE,
                                            !.free_posted = @ \/ free]]
     /\ sent' = IF r.alloc_pending THEN sent \ {j} ELSE sent
     /\ queue' = IF r.alloc_queued THEN queue \ {j} ELSE queue
     /\ housekept' = IF free /\ Housekeeping THEN housekept \cup {j}
                                             ELSE housekept
     /\ to_sched' = IF free /\ ~ Housekeeping
                      THEN alloc_send_free_request(ts1, j)
                      ELSE ts1
     /\ Dequeue(j, CASE free -> Append(q, Ev("free"))
                     [] clean -> Append(q, Ev("clean"))
                     [] OTHER -> q, done)
     /\ UNCHANGED <<jobs, exec>>

ActionInactive(j, r, q, ts, done) ==
  /\ r.state = "INACTIVE"
  /\ job' = [job EXCEPT ![j] = [r EXCEPT !.eventlog_readonly = TRUE]]
  /\ active' = active \ {j}
  /\ inactive' = inactive \cup {j}
  /\ to_sched' = ts
  /\ Dequeue(j, q, done)
  /\ UNCHANGED <<queue, sent, housekept, exec>>

\* There is nothing to do in NEW, which the first event of a job ends.
event_job_action(j, r, q, ts, done) ==
  \/ ActionDepend(j, r, q, ts, done)
  \/ ActionPriority(j, r, q, ts, done)
  \/ ActionSched(j, r, q, ts, done)
  \/ ActionRun(j, r, q, ts, done)
  \/ ActionCleanup(j, r, q, ts, done)
  \/ ActionInactive(j, r, q, ts, done)

-----------------------------------------------------------------------------
(* Job priorities (prioritize.c). *)

\* reprioritize_one: the urgencies "hold" and "expedite" override the plugin.
Prioritized(r, p) ==
  CASE r.urgency = HOLD -> FLUX_JOB_PRIORITY_MIN
    [] r.urgency = EXPEDITE -> FLUX_JOB_PRIORITY_MAX
    [] OTHER -> p

\* The alloc requests reprioritize_one cancels once r has its new priority.
\* (The sched.prioritize message only tells the scheduler of the priority.)
CancelledBy(j, r) ==
  LET jb == [job EXCEPT ![j] = r] IN
  IF ~ r.alloc_queued /\ r.alloc_pending /\ r.priority = FLUX_JOB_PRIORITY_MIN
    THEN {j}
    ELSE IF r.alloc_queued \/ r.alloc_pending
           THEN Outranked(jb, queue, sent)
           ELSE {}

PriorityEvent(r) == [name |-> "priority", arg |-> r.priority]

-----------------------------------------------------------------------------
(* Processing an event: event_job_process_entry. *)

\* The jobtap callbacks of a state change.  Plugins may assign a priority, or
\* none yet, and start prologs and epilogs, by posting events behind e.
JobtapCall(j, r, q, done) ==
  \/ /\ r.state = "DEPEND"
     /\ \E n \in DependCount :
          event_job_action(j, r, Posts(q, "dependency-add", n), to_sched, done)
  \/ /\ r.state = "PRIORITY"
     /\ \E p \in PluginPriority :
          LET r1 == [r EXCEPT !.priority = Prioritized(r, p)]
          IN event_job_action(j, r1, Append(q, PriorityEvent(r1)),
                              Send(to_sched, "cancel", CancelledBy(j, r1)),
                              done)
  \/ /\ r.state = "PRIORITY"
     /\ PriorityUnavail
     /\ event_job_action(j, r, q, to_sched, done)
  \/ /\ r.state = "RUN"
     /\ \E n \in PerilogCount :
          event_job_action(j, r, Posts(q, "prolog-start", n), to_sched, done)
  \/ /\ r.state = "CLEANUP"
     /\ \E n \in PerilogCount :
          event_job_action(j, r, Posts(q, "epilog-start", n), to_sched, done)
  \/ /\ r.state \in {"SCHED", "INACTIVE"}
     /\ event_job_action(j, r, q, to_sched, done)

Process(j) ==
  LET q == event_queue[j]
      e == Head(q)
      r == event_job_update(job[j], e)
  IN /\ Busy(j)
     /\ IF EntryRefused(job[j], e)
          THEN /\ event_queue' = [event_queue EXCEPT ![j] = << >>]
               /\ UNCHANGED <<job, jobs, queue, sent, housekept, to_sched,
                              exec>>
          ELSE IF r.state # job[j].state
                 THEN JobtapCall(j, r, q, 1)
                 ELSE event_job_action(j, r, q, to_sched, 1)
     /\ UNCHANGED <<batches, start, online, topic, todo, requests, from_sched,
                    scheduler, exec_up>>

\* A handler calls event_job_action on a job outside of any event.
Act(j) ==
  /\ \A k \in Job : ~ Busy(k)
  /\ j \in todo
  /\ todo' = todo \ {j}
  /\ event_job_action(j, job[j], event_queue[j], to_sched, 0)
  /\ UNCHANGED <<batches, start, online, topic, requests, from_sched,
                 scheduler, exec_up>>

-----------------------------------------------------------------------------
(* Requests from users and administrators. *)

\* submit_job.  A job that a plugin or a disabled queue rejects leaves no trace.
\* n dependencies are added by plugins while the job is NEW.
Submit(j) ==
  /\ Idle
  /\ j \notin active \cup inactive
  /\ \E u \in UserUrgency, n \in DependCount :
       job' = [job EXCEPT ![j] = [@ EXCEPT !.urgency = u,
                                           !.dependencies = n,
                                           !.hold_events = TRUE]]
  /\ active' = active \cup {j}
  /\ batch' = batch \cup {j}
  /\ event_queue' = [event_queue EXCEPT ![j] = <<Ev("validate")>>]
  /\ UNCHANGED <<inactive, queue, sent, commits, start, online, topic,
                 housekept, todo, requests, channels, scheduler, execution>>

\* timer_cb: event_batch_commit.  A batch that holds no job is not modelled.
BatchTimeout ==
  /\ Idle
  /\ batch # {}
  /\ commits' = Append(commits, batch)
  /\ batch' = {}
  /\ UNCHANGED <<job, event_queue, jobs, queue, sent, start, online, topic,
                 housekept, todo, requests, channels, scheduler, execution>>

\* commit_continuation: event_batch_destroy lets the jobs go on.
CommitDone ==
  /\ Idle
  /\ commits # << >>
  /\ job' = [j \in Job |-> IF j \in Head(commits)
                             THEN [job[j] EXCEPT !.hold_events = FALSE]
                             ELSE job[j]]
  /\ commits' = Tail(commits)
  /\ UNCHANGED <<event_queue, jobs, queue, sent, batch, start, online, topic,
                 housekept, todo, requests, channels, scheduler, execution>>

\* Handlers that do no more than post an event to an active job.
PostOnly(j, e) ==
  /\ Idle
  /\ j \in active
  /\ Post(j, e)
  /\ UNCHANGED <<job, jobs, queue, sent, batches, start, online, topic,
                 housekept, todo, channels>>

\* raise_handle_request (severity 0), and the requests that post an event with
\* no effect of its own (lesser exceptions, memo).
RaiseRequest(j) ==
  \E name \in {"exception", "memo"} :
    /\ PostOnly(j, Ev(name))
    /\ Counts("raise")
    /\ UNCHANGED <<scheduler, execution>>

\* urgency_handle_request
UrgencyRequest(j) ==
  /\ ~ job[j].has_resources
  /\ \E u \in UserUrgency : PostOnly(j, [name |-> "urgency", arg |-> u])
  /\ Counts("update")
  /\ UNCHANGED <<scheduler, execution>>

\* post_job_updates
UpdateRequest(j) ==
  /\ PostOnly(j, Ev("jobspec-update"))
  /\ Counts("update")
  /\ UNCHANGED <<scheduler, execution>>

\* queue_start_cb with start = false: queue_stop.
QueueStop ==
  /\ Idle
  /\ Counts("stop")
  /\ start' = FALSE
  /\ queue' = {j \in queue : ~ job[j].alloc_queued}
  /\ job' = [j \in Job |-> [job[j] EXCEPT !.alloc_queued = FALSE]]
  /\ to_sched' = Send(to_sched, "cancel",
                      {j \in active : /\ ~ job[j].alloc_queued
                                      /\ job[j].alloc_pending})
  /\ UNCHANGED <<event_queue, jobs, sent, batches, online, topic, housekept,
                 todo, from_sched, scheduler, execution>>

\* Mutant: the jobs that were in SCHED when the queue stopped are not enqueued.
QueueStartEmpty ==
  /\ Idle
  /\ ~ start
  /\ start' = TRUE
  /\ UNCHANGED <<job, event_queue, jobs, queue, sent, batches, online, topic,
                 housekept, todo, requests, channels, scheduler, execution>>

\* queue_start_cb with start = true: queue_start.
QueueStart ==
  LET J == {j \in active : /\ job[j].state = "SCHED"
                           /\ ~ job[j].alloc_queued
                           /\ ~ job[j].alloc_pending
                           /\ job[j].priority # FLUX_JOB_PRIORITY_MIN}
      jb == [j \in Job |-> [job[j] EXCEPT !.alloc_queued = @ \/ j \in J]]
  IN /\ Idle
     /\ ~ start
     /\ start' = TRUE
     /\ queue' = queue \cup J
     /\ job' = jb
     /\ to_sched' = Send(to_sched, "cancel",
                         IF J = {} THEN {} ELSE Outranked(jb, queue \cup J, sent))
     /\ UNCHANGED <<event_queue, jobs, sent, batches, online, topic,
                    housekept, todo, requests, from_sched, scheduler,
                    execution>>

-----------------------------------------------------------------------------
(* The job manager's side of the scheduler protocol (alloc.c). *)

\* alloc_work_available, for the job at the head of the queue.
WorkAvailable(j) ==
  /\ online
  /\ j \in queue
  /\ \A k \in queue \ {j} : Before(job, j, k)
  /\ AllocLimit = 0 \/ Cardinality(sent) < AllocLimit
  /\ job[j].priority # FLUX_JOB_PRIORITY_MIN

\* check_cb: alloc_request.
AllocRequest(j) ==
  /\ Idle
  /\ WorkAvailable(j)
  /\ to_sched' = Send(to_sched, "alloc", {j})
  /\ queue' = queue \ {j}
  /\ sent' = sent \cup {j}
  /\ job' = [job EXCEPT ![j].alloc_pending = TRUE, ![j].alloc_queued = FALSE]
  /\ UNCHANGED <<event_queue, jobs, batches, start, online, topic, housekept,
                 todo, requests, from_sched, scheduler, execution>>

\* alloc_response_cb: the response at the head of from_sched, of type t, for j.
Response(j, t) ==
  /\ Idle
  /\ from_sched # << >>
  /\ Head(from_sched) = [type |-> t, id |-> j]
  /\ from_sched' = Tail(from_sched)
  /\ UNCHANGED <<jobs, batches, start, topic, housekept, requests, scheduler,
                 execution>>

AllocPending(j) == j \in active /\ job[j].alloc_pending

\* Mutant: the resources are not returned.
AllocUnwantedKept(j) ==
  /\ Response(j, "success")
  /\ ~ AllocPending(j)
  /\ UNCHANGED <<job, event_queue, queue, sent, online, todo, to_sched>>

\* FLUX_SCHED_ALLOC_SUCCESS for a job that no longer waits for resources.
AllocUnwanted(j) ==
  /\ Response(j, "success")
  /\ ~ AllocPending(j)
  /\ to_sched' = Send(to_sched, "free", {j})
  /\ UNCHANGED <<job, event_queue, queue, sent, online, todo>>

\* FLUX_SCHED_ALLOC_SUCCESS.  event_job_post_pack processes the events that the
\* entry sets off before it returns; when it fails (a plugin adds a prolog past
\* the limit of the counter, or memory runs out) the code also tears the
\* scheduler interface down.  That teardown is not modelled: the entry is queued
\* here, and one that is refused is dropped by Process.
AllocSuccess(j) ==
  /\ Response(j, "success")
  /\ AllocPending(j)
  /\ ~ job[j].has_resources /\ ~ job[j].R
  /\ sent' = sent \ {j}
  /\ job' = [job EXCEPT ![j].R = TRUE, ![j].alloc_pending = FALSE]
  /\ Post(j, Ev("alloc"))
  /\ UNCHANGED <<queue, online, todo, to_sched>>

\* FLUX_SCHED_ALLOC_SUCCESS for a job that already has resources (EEXIST).  As
\* its request is pending the scheduler is online, and the teardown requeues it.
AllocExists(j) ==
  /\ Response(j, "success")
  /\ AllocPending(j)
  /\ job[j].has_resources \/ job[j].R
  /\ AllocTeardown
  /\ UNCHANGED <<event_queue, todo, to_sched>>

\* FLUX_SCHED_ALLOC_DENY.  The teardown after a failure of raise_job_exception is
\* not modelled, as in AllocSuccess.
AllocDeny(j) ==
  /\ Response(j, "deny")
  /\ IF AllocPending(j)
       THEN /\ sent' = sent \ {j}
            /\ job' = [job EXCEPT ![j].alloc_pending = FALSE]
            /\ Post(j, Ev("exception"))
       ELSE UNCHANGED <<job, event_queue, sent>>
  /\ UNCHANGED <<queue, online, todo, to_sched>>

\* FLUX_SCHED_ALLOC_CANCEL
AllocCancel(j) ==
  /\ Response(j, "cancel")
  /\ IF AllocPending(j)
       THEN /\ IF job[j].state = "SCHED"
                 THEN RequeuePending({j})
                 ELSE /\ sent' = sent \ {j}
                      /\ job' = [job EXCEPT ![j].alloc_pending = FALSE]
                      /\ UNCHANGED queue
            /\ todo' = IF start THEN {j} ELSE {}
       ELSE UNCHANGED <<job, queue, sent, todo>>
  /\ UNCHANGED <<event_queue, online, to_sched>>

\* A response that flux_response_decode rejects.
AllocError(j) ==
  /\ Response(j, "error")
  /\ AllocTeardown
  /\ UNCHANGED <<event_queue, todo, to_sched>>

\* Mutant: the jobs in CLEANUP are not among them.
HeldRunning == {j \in active : job[j].state = "RUN" /\ job[j].has_resources} \cup housekept

\* The jobs that hello_cb and housekeeping_hello_respond name.
Held == {j \in active : job[j].has_resources} \cup housekept

\* hello_cb, answered in full before anything else, and the scheduler's hello
\* callback, which fails for the jobs of F.
SchedHello ==
  /\ Idle
  /\ sched = "down"
  /\ sched' = "hello"
  /\ \E F \in SUBSET Held :
       /\ sched_alloc' = Held \ F
       /\ sched_fail' = F
       /\ Cardinality(F) \in 0..(MaxRequest["hello"] - requests["hello"])
       /\ requests' = [requests EXCEPT !["hello"] = @ + Cardinality(F)]
  /\ UNCHANGED <<manager, channels, sched_queue, sched_commit, execution>>

\* The scheduler raises an exception on a job it could not reallocate.
SchedRaise(j) ==
  /\ Idle
  /\ j \in sched_fail
  /\ sched_fail' = sched_fail \ {j}
  /\ IF j \in active
       THEN Post(j, Ev("exception.scheduler-restart"))
       ELSE UNCHANGED event_queue
  /\ UNCHANGED <<job, jobs, queue, sent, batches, start, online, topic,
                 housekept, todo, requests, channels, sched, sched_queue,
                 sched_alloc, sched_commit, execution>>

\* ready_cb
SchedReady ==
  /\ Idle
  /\ sched = "hello"
  /\ sched_fail = {}
  /\ sched' = "ready"
  /\ online' = TRUE
  /\ todo' = {j \in active : job[j].state = "CLEANUP" /\ job[j].has_resources}
  /\ UNCHANGED <<job, event_queue, jobs, queue, sent, batches, start, topic,
                 housekept, requests, channels, sched_queue, sched_alloc,
                 sched_commit, sched_fail, execution>>

\* alloc_disconnect_rpc.  The broker sends the disconnect request after the
\* scheduler's last message, and answers what the scheduler has not received
\* with errors, which find the interface torn down.
SchedGone ==
  /\ Idle
  /\ sched # "down"
  /\ from_sched = << >>
  /\ Counts("sched")
  /\ sched' = "down"
  /\ to_sched' = << >>
  /\ sched_queue' = {} /\ sched_alloc' = {} /\ sched_commit' = {}
  /\ sched_fail' = {}
  /\ AllocTeardown
  /\ UNCHANGED <<event_queue, jobs, batches, start, topic, housekept, todo,
                 from_sched, execution>>

-----------------------------------------------------------------------------
(* A scheduler (libschedutil with sched-simple). *)

Receive(type, j) ==
  /\ sched = "ready"
  /\ to_sched # << >>
  /\ Head(to_sched).type = type
  /\ j \in Head(to_sched).ids
  /\ to_sched' = IF Head(to_sched).ids = {j}
                   THEN Tail(to_sched)
                   ELSE [to_sched EXCEPT ![1].ids = @ \ {j}]
  /\ UNCHANGED <<manager, sched, sched_commit, sched_fail, execution>>

Respond(type, j) == from_sched' = Append(from_sched, [type |-> type, id |-> j])

SchedFull == AllocLimit > 0 /\ Cardinality(sched_queue) >= AllocLimit

\* alloc_cb
SchedAllocCb(j) ==
  /\ Receive("alloc", j)
  /\ ~ SchedFull
  /\ sched_queue' = sched_queue \cup {j}
  /\ UNCHANGED <<requests, from_sched, sched_alloc>>

\* alloc_cb fails: there is no room, or jobreq_create fails.
SchedAllocError(j) ==
  /\ Receive("alloc", j)
  /\ IF SchedFull THEN UNCHANGED requests ELSE Counts("error")
  /\ Respond("error", j)
  /\ UNCHANGED <<sched_queue, sched_alloc>>

\* cancel_cb
SchedCancelCb(j) ==
  /\ Receive("cancel", j)
  /\ sched_queue' = sched_queue \ {j}
  /\ IF j \in sched_queue THEN Respond("cancel", j) ELSE UNCHANGED from_sched
  /\ UNCHANGED <<requests, sched_alloc>>

\* free_cb
SchedFreeCb(j) ==
  /\ Receive("free", j)
  /\ sched_alloc' = sched_alloc \ {j}
  /\ UNCHANGED <<requests, from_sched, sched_queue>>

\* check_cb, try_alloc: the request is denied, or resources are allocated and
\* R goes to the KVS.
SchedTryAlloc(j) ==
  /\ j \in sched_queue
  /\ sched_queue' = sched_queue \ {j}
  /\ \/ /\ sched_alloc' = sched_alloc \cup {j}
        /\ sched_commit' = sched_commit \cup {j}
        /\ UNCHANGED from_sched
     \/ /\ Respond("deny", j)
        /\ UNCHANGED <<sched_alloc, sched_commit>>
  /\ UNCHANGED <<manager, requests, to_sched, sched, sched_fail, execution>>

\* alloc_continuation, in libschedutil.
SchedCommitDone(j) ==
  /\ j \in sched_commit
  /\ sched_commit' = sched_commit \ {j}
  /\ Respond("success", j)
  /\ UNCHANGED <<manager, requests, to_sched, sched, sched_queue, sched_alloc,
                 sched_fail, execution>>

-----------------------------------------------------------------------------
(* The exec service (start.c and job-exec).  exec[j] is "init" from the start *)
(* request on, "running" once the job shells have started, "killed" when they *)
(* have been signalled, "final" until the final release.                      *)

\* start.c hello_cb, or its refusal, which ends the exec module.
ExecHello ==
  /\ Idle
  /\ ~ exec_up
  /\ topic => \A j \in active : ~ job[j].start_pending
  /\ exec_up' = TRUE
  /\ topic' = TRUE
  /\ todo' = {j \in active : job[j].state = "RUN"}
  /\ UNCHANGED <<job, event_queue, jobs, queue, sent, batches, start, online,
                 housekept, requests, channels, scheduler, exec>>

\* Mutant: the release event is not posted.
ResponseUnposted(j, p, e) ==
  /\ Idle
  /\ exec' = [exec EXCEPT ![j] = p]
  /\ job' = IF topic /\ j \in active /\ e.name = "release"
              THEN [job EXCEPT ![j].start_pending = FALSE]
              ELSE job
  /\ IF topic /\ j \in active /\ e.name # "release"
       THEN Post(j, e)
       ELSE UNCHANGED event_queue
  /\ UNCHANGED <<jobs, queue, sent, batches, start, online, topic, housekept,
                 todo, channels, scheduler, exec_up>>

\* start_response_cb, for a response of a job that exec leaves in phase p.
\* A response of an unregistered service or for an inactive job is ignored.
StartResponse(j, p, e) ==
  /\ Idle
  /\ exec' = [exec EXCEPT ![j] = p]
  /\ job' = IF topic /\ j \in active /\ e.name = "release"
              THEN [job EXCEPT ![j].start_pending = FALSE]
              ELSE job
  /\ IF topic /\ j \in active THEN Post(j, e) ELSE UNCHANGED event_queue
  /\ UNCHANGED <<jobs, queue, sent, batches, start, online, topic, housekept,
                 todo, channels, scheduler, exec_up>>

\* jobinfo_started
ExecStart(j) ==
  /\ exec_up /\ exec[j] = "init"
  /\ StartResponse(j, "running", Ev("start"))
  /\ UNCHANGED requests

\* jobinfo_fatal_verror.  A job that fails in "init" may have started.
ExecException(j) ==
  /\ exec_up
  /\ \/ exec[j] = "init" /\ StartResponse(j, "final", Ev("exception"))
     \/ exec[j] \in {"init", "running"}
          /\ StartResponse(j, "killed", Ev("exception"))
  /\ Counts("raise")

\* exception_cb: the job manager has published the job's exception.
ExecAbort(j) ==
  /\ exec_up
  /\ job[j].end_event = "exception"
  /\ \/ exec[j] = "init" /\ exec' = [exec EXCEPT ![j] = "final"]
     \/ exec[j] \in {"init", "running"} /\ exec' = [exec EXCEPT ![j] = "killed"]
  /\ UNCHANGED <<manager, requests, channels, scheduler, exec_up>>

\* jobinfo_tasks_complete
ExecFinish(j) ==
  /\ exec[j] \in {"running", "killed"}
  /\ StartResponse(j, "final", Ev("finish"))
  /\ UNCHANGED requests

\* jobinfo_release
ExecRelease(j) ==
  /\ exec[j] = "final"
  /\ StartResponse(j, "none", Ev("release"))
  /\ UNCHANGED requests

\* interface_teardown in start.c, after an error response to j's start request,
\* from start_cb or, when no exec service is loaded, from the broker.
ExecError(j) ==
  /\ Idle
  /\ exec[j] = "init"
  /\ IF exec_up THEN Counts("exec") ELSE UNCHANGED requests
  /\ exec' = [exec EXCEPT ![j] = "none"]
  /\ topic' = FALSE
  /\ job' = IF topic
              THEN [k \in Job |-> [job[k] EXCEPT !.start_pending = FALSE]]
              ELSE job
  /\ UNCHANGED <<event_queue, jobs, queue, sent, batches, start, online,
                 housekept, todo, channels, scheduler, exec_up>>

\* The exec service is unloaded.  The broker answers the start requests it has
\* not received with an error; for the others there is no answer.
ExecUnload ==
  /\ exec_up
  /\ Counts("exec")
  /\ exec_up' = FALSE
  /\ \E J \in SUBSET {j \in Job : exec[j] = "init"} :
       exec' = [j \in Job |-> IF j \in J THEN "init" ELSE "none"]
  /\ UNCHANGED <<manager, channels, scheduler>>

-----------------------------------------------------------------------------
(* Plugins and housekeeping. *)

Queued(j, name) == Cardinality({i \in 1..Len(event_queue[j]) :
                                  event_queue[j][i].name = name})

\* flux_jobtap_dependency_remove
DependencyRemove(j) ==
  /\ job[j].state \in {"NEW", "DEPEND"}
  /\ job[j].dependencies > Queued(j, "dependency-remove")
  /\ PostOnly(j, Ev("dependency-remove"))
  /\ UNCHANGED <<requests, scheduler, execution>>

\* flux_jobtap_prolog_finish, flux_jobtap_epilog_finish
PrologFinish(j) ==
  /\ job[j].perilog_active > 0
  /\ ~ job[j].start_pending
  /\ PostOnly(j, Ev("prolog-finish"))
  /\ UNCHANGED <<requests, scheduler, execution>>

EpilogFinish(j) ==
  /\ job[j].perilog_active > 0
  /\ job[j].state = "CLEANUP"
  /\ PostOnly(j, Ev("epilog-finish"))
  /\ UNCHANGED <<requests, scheduler, execution>>

\* flux_jobtap_reprioritize_job: reprioritize_job.
Reprioritize(j) ==
  /\ Idle
  /\ j \in active
  /\ job[j].state \in {"PRIORITY", "SCHED"}
  /\ \E p \in PluginPriority :
       LET r == [job[j] EXCEPT !.priority = Prioritized(job[j], p)] IN
       /\ job[j].state = "SCHED" => r.priority # job[j].priority
       /\ Post(j, PriorityEvent(r))
       /\ job' = [job EXCEPT ![j] = r]
       /\ to_sched' = Send(to_sched, "cancel", CancelledBy(j, r))
  /\ IF job[j].state = "SCHED" THEN Counts("update") ELSE UNCHANGED requests
  /\ UNCHANGED <<jobs, queue, sent, batches, start, online, topic, housekept,
                 todo, from_sched, scheduler, execution>>

\* allocation_release, when the housekeeping command has run on every rank.
HousekeepingDone(j) ==
  /\ Idle
  /\ j \in housekept
  /\ housekept' = housekept \ {j}
  /\ to_sched' = alloc_send_free_request(to_sched, j)
  /\ UNCHANGED <<job, event_queue, jobs, queue, sent, batches, start, online,
                 topic, todo, requests, from_sched, scheduler, execution>>

-----------------------------------------------------------------------------

Partner(j) ==
  \/ SchedAllocCb(j)
  \/ SchedAllocError(j)
  \/ SchedCancelCb(j)
  \/ SchedFreeCb(j)
  \/ SchedTryAlloc(j)
  \/ SchedCommitDone(j)
  \/ SchedRaise(j)
  \/ ExecStart(j)
  \/ ExecException(j)
  \/ ExecAbort(j)
  \/ ExecFinish(j)
  \/ ExecRelease(j)
  \/ ExecError(j)
  \/ DependencyRemove(j)
  \/ PrologFinish(j)
  \/ EpilogFinish(j)
  \/ Reprioritize(j)
  \/ HousekeepingDone(j)

Handler(j) ==
  \/ Process(j)
  \/ Act(j)
  \/ Submit(j)
  \/ RaiseRequest(j)
  \/ UrgencyRequest(j)
  \/ UpdateRequest(j)
  \/ AllocRequest(j)
  \/ AllocUnwanted(j)
  \/ AllocSuccess(j)
  \/ AllocExists(j)
  \/ AllocDeny(j)
  \/ AllocCancel(j)
  \/ AllocError(j)

Global ==
  \/ BatchTimeout
  \/ CommitDone
  \/ QueueStop
  \/ QueueStart
  \/ SchedHello
  \/ SchedReady
  \/ SchedGone
  \/ ExecHello
  \/ ExecUnload

Next == Global \/ \E j \in Job : Handler(j) \/ Partner(j)

Spec == Init /\ [][Next]_vars

\* The reactor dispatches every message and timer, the scheduler and the exec
\* service answer, a module that was unloaded is loaded again, a stopped queue
\* is started and a plugin that holds a job back lets it go.  Users need not
\* act, and nothing needs to fail.
Fairness ==
  /\ WF_vars(BatchTimeout)
  /\ WF_vars(CommitDone)
  /\ WF_vars(QueueStart)
  /\ WF_vars(SchedHello)
  /\ WF_vars(SchedReady)
  /\ WF_vars(ExecHello)
  /\ \A j \in Job :
       /\ WF_vars(Process(j) \/ Act(j))
       /\ WF_vars(AllocRequest(j))
       /\ WF_vars(\/ AllocUnwanted(j) \/ AllocSuccess(j) \/ AllocExists(j)
                  \/ AllocDeny(j) \/ AllocCancel(j) \/ AllocError(j))
       /\ WF_vars(SchedAllocCb(j) \/ SchedAllocError(j))
       /\ WF_vars(SchedCancelCb(j) \/ SchedFreeCb(j))
       /\ WF_vars(SchedTryAlloc(j))
       /\ WF_vars(SchedCommitDone(j))
       /\ WF_vars(SchedRaise(j))
       /\ WF_vars(ExecStart(j) \/ ExecFinish(j) \/ ExecRelease(j))
       /\ WF_vars(ExecAbort(j))
       /\ WF_vars(ExecError(j))
       /\ WF_vars(DependencyRemove(j))
       /\ WF_vars(PrologFinish(j))
       /\ WF_vars(EpilogFinish(j))
       /\ WF_vars(Reprioritize(j))
       /\ WF_vars(HousekeepingDone(j))

FairSpec == Spec /\ Fairness

-----------------------------------------------------------------------------
(* Properties *)

\* The variables have their types.
TypeOK ==
  /\ job \in [Job -> StructJob]
  /\ event_queue \in [Job -> Seq(Event)]
  /\ active \subseteq Job /\ inactive \subseteq Job
  /\ queue \subseteq Job /\ sent \subseteq Job
  /\ batch \subseteq Job
  /\ commits \in Seq(SUBSET Job)
  /\ start \in BOOLEAN /\ online \in BOOLEAN /\ topic \in BOOLEAN
  /\ housekept \subseteq Job
  /\ todo \subseteq Job
  /\ requests \in [RequestKind -> Nat]
  /\ to_sched \in Seq(SchedRequest)
  /\ from_sched \in Seq(SchedResponse)
  /\ sched \in {"down", "hello", "ready"}
  /\ sched_queue \subseteq Job /\ sched_alloc \subseteq Job
  /\ sched_commit \subseteq Job /\ sched_fail \subseteq Job
  /\ exec_up \in BOOLEAN
  /\ exec \in [Job -> {"none", "init", "running", "killed", "final"}]

\* The flags of struct job agree with the alloc queues, at every step: a job
\* is in alloc->queue exactly when alloc_queued is set, in alloc->sent exactly
\* when alloc_pending is, and never in both.
QueueFlags ==
  \A j \in Job : /\ job[j].alloc_queued <=> j \in queue
                 /\ job[j].alloc_pending <=> j \in sent
                 /\ ~ (job[j].alloc_queued /\ job[j].alloc_pending)

\* A job in SCHED is never forgotten: while its queue is started and it is not
\* held, it is in the alloc queue or has an alloc request pending.
NoLostJob ==
  Idle => \A j \in active :
            job[j].state = "SCHED" /\ start
            /\ job[j].priority # FLUX_JOB_PRIORITY_MIN
              => job[j].alloc_queued \/ job[j].alloc_pending

\* The alloc requests for j there are, by where they are: on their way to the
\* scheduler, being answered, in its queue, or with R being committed.
Outstanding(j) ==
  {<<"to_sched", i>> : i \in {n \in 1..Len(to_sched) : /\ to_sched[n].type = "alloc"
                                                       /\ j \in to_sched[n].ids}}
  \cup {<<"from_sched", i>> : i \in {n \in 1..Len(from_sched) : from_sched[n].id = j}}
  \cup {<<"sched_queue", k>> : k \in sched_queue \cap {j}}
  \cup {<<"sched_commit", k>> : k \in sched_commit \cap {j}}

\* The scheduler never has two alloc requests for a job, whatever the order in
\* which cancels, reprioritizations and responses cross; and a job that waits
\* for a response has one coming.
OneRequest ==
  \A j \in Job : /\ \A p, q \in Outstanding(j) : p = q
                 /\ j \in sent => Outstanding(j) # {}

\* A job in CLEANUP always waits for something: a final release, an epilog or
\* a prolog.  Otherwise no event would ever take it to INACTIVE.
CleanupProgress ==
  Idle => \A j \in active :
            job[j].state = "CLEANUP"
              => job[j].start_pending \/ job[j].perilog_active > 0

Released(j) ==
  j \in housekept \/ (job[j].free_posted /\ job[j].state = "INACTIVE")

\* Resources are let go (to housekeeping or to the scheduler) only when the
\* exec service has sent the final release and no prolog or epilog is active.
ReleasedIdle ==
  \A j \in Job : Released(j) => exec[j] = "none" /\ job[j].perilog_active = 0

InFlight(type, j) ==
  \E i \in 1..Len(to_sched) : to_sched[i].type = type /\ j \in to_sched[i].ids

\* The scheduler frees what it has allocated and nothing else: a free request
\* always finds the job allocated.
FreeOnlyAllocated == \A j \in Job : InFlight("free", j) => j \in sched_alloc

Accounted(j) ==
  \/ j \in sched_commit
  \/ \E i \in 1..Len(from_sched) : from_sched[i] = [type |-> "success", id |-> j]
  \/ job[j].has_resources
  \/ IsQueued(event_queue[j], "alloc")
  \/ j \in housekept
  \/ InFlight("free", j)

\* No resources are lost: what a scheduler in service has allocated belongs to
\* a job or to housekeeping, or is on its way from or to the scheduler.
NoLeak == online => \A j \in sched_alloc : Accounted(j)

\* A start request is sent only to a job in RUN whose prologs have all finished,
\* those included that plugins have just started.
StartAfterProlog ==
  [][\A j \in Job : exec[j] = "none" /\ exec'[j] = "init"
                      => /\ job'[j].state = "RUN"
                         /\ job'[j].perilog_active = 0
                         /\ ~ IsQueued(event_queue'[j], "prolog-start")]_vars

\* Every job that is not held reaches INACTIVE, through queue stops, cancels,
\* exceptions, dependencies, prologs, epilogs and scheduler reloads.
Terminates ==
  \A j \in Job : j \in active ~> (\/ j \in inactive
                                  \/ job[j].priority = FLUX_JOB_PRIORITY_MIN)

=============================================================================
