-------------------------- MODULE DependencyAfter --------------------------
(***************************************************************************)
(* Job dependencies in the job manager: the built-in jobtap plugins        *)
(* .dependency-after (after, afterany, afterok, afternotok) and            *)
(* .dependency-begin-time, over the event queue each job has               *)
(* (src/src/modules/job-manager/plugins/dependency-after.c,                *)
(* plugins/begin-time.c, event.c, submit.c, restart.c).                    *)
(*                                                                         *)
(* Everything happens on the job manager's one thread, but not one call at *)
(* a time: a plugin callback posts events to other jobs, their callbacks   *)
(* run inside it, and they delete entries from the very list the outer     *)
(* callback is walking.  The lists are zlistx lists, which keep one cursor *)
(* each: zlistx_find moves it to what it found, and zlistx_delete of the   *)
(* entry it stands on moves it back to the entry before.  So the model     *)
(* keeps the cursor of every list, and the walks below go where it goes.   *)
(* List entries are compared by address; an address that was freed may be  *)
(* handed out again.                                                       *)
(***************************************************************************)
EXTENDS Naturals, Sequences, FiniteSets, SequencesExt

CONSTANT DJobs    \* job ids, 1..n; a job depends on jobs submitted before it

VARIABLES dj,     \* the job manager's state for these jobs
          dleft   \* what the users still ask for, and budgets

dvars == <<dj, dleft>>

NoDep == [on |-> 0, type |-> "none"]
Event(n) == [n |-> n, dep |-> NoDep]
DepEvent(n, dep) == [n |-> n, dep |-> dep]

\* Data structure: an entry of a job's after_list is struct after_info (the
\* dependent, the type and its address), an entry of after_refs is struct
\* after_ref (the requisite and the address of the entry).
JobsInit == [st |-> [d \in DJobs |-> "none"], deps |-> [d \in DJobs |-> {}],
             q |-> [d \in DJobs |-> <<>>], held |-> {}, posted |-> {},
             end |-> [d \in DJobs |-> "none"], started |-> {}, pending |-> {},
             after |-> [d \in DJobs |-> <<>>], refs |-> [d \in DJobs |-> <<>>],
             cur |-> [d \in DJobs |-> 0], sub |-> {}, timer |-> {}, next |-> 1,
             fired |-> {}, passed |-> {}, raised |-> {}, unhooked |-> {}, warned |-> {}]

\* scn: want, the dependencies each job's jobspec lists; cancels, restarts
DependInit(scn) == dj = JobsInit /\ dleft = scn

DActive(x, d) == x.st[d] \notin {"none", "inactive", "rejected"}

RECURSIVE EventPost(_, _, _), PostDeferred(_, _), ProcessEntry(_, _, _),
          ReleaseAll(_, _, _), RaiseExceptions(_, _), ReleaseReferences(_, _)

(***************************************************************************)
(* event.c: a job's events are queued and processed in order; an event     *)
(* posted while another is being processed waits for it.                   *)
(***************************************************************************)
EventPost(x, d, ev) ==
    LET y == [x EXCEPT !.q[d] = Append(@, ev)]
    IN IF Len(y.q[d]) > 1 \/ d \in y.held THEN y ELSE PostDeferred(y, d)

\* the removal of a dependency the job does not have is an error
EntryFails(x, d, ev) ==
    /\ ev.n = "dependency-remove"
    /\ x.st[d] \in {"new", "depend"}
    /\ ev.dep \notin x.deps[d]

\* stops at an inactive job (eventlog_readonly); an error empties the queue
PostDeferred(x, d) ==
    IF x.q[d] = <<>> THEN x
    ELSE IF x.st[d] = "inactive" \/ EntryFails(x, d, Head(x.q[d]))
         THEN [x EXCEPT !.q[d] = <<>>]
    ELSE LET y == ProcessEntry(x, d, Head(x.q[d]))
         IN PostDeferred([y EXCEPT !.q[d] = Tail(@)], d)

\* event_job_update: the state transitions these events make.  PRIORITY is
\* passed through at once (the default priority is posted with the depend
\* event), so "sched" stands for PRIORITY and SCHED.
DJobUpdate(x, d, ev) ==
    LET s == x.st[d] IN
    CASE ev.n = "validate" -> [x EXCEPT !.st[d] = "depend"]
      [] ev.n = "dependency-remove" ->
            IF s \in {"new", "depend"} THEN [x EXCEPT !.deps[d] = @ \ {ev.dep}] ELSE x
      [] ev.n = "depend" ->
            IF s = "depend" THEN [x EXCEPT !.st[d] = "sched", !.passed = @ \cup {d}] ELSE x
      [] ev.n = "exception" ->
            IF s = "new" THEN x
            ELSE [x EXCEPT !.st[d] = "cleanup",
                           !.end[d] = IF @ = "none" THEN "failed" ELSE @]
      [] ev.n = "alloc" -> IF s = "sched" THEN [x EXCEPT !.st[d] = "run"] ELSE x
      [] ev.n = "start" -> [x EXCEPT !.started = @ \cup {d}]
      [] ev.n \in {"completed", "failed"} ->        \* the finish event, by its status
            IF s = "run" THEN [x EXCEPT !.st[d] = "cleanup",
                                        !.end[d] = IF @ = "none" THEN ev.n ELSE @]
            ELSE x
      [] ev.n = "clean" -> IF s = "cleanup" THEN [x EXCEPT !.st[d] = "inactive"] ELSE x
      [] OTHER -> x                                 \* release

(***************************************************************************)
(* zlistx: deleting the entry the cursor is on moves the cursor back.      *)
(***************************************************************************)
ListDelete(x, t, i) ==
    [x EXCEPT !.after[t] = RemoveAt(@, i),
              !.cur[t] = IF @ >= i THEN @ - 1 ELSE @]

\* flux_jobtap_raise_exception
JobtapRaise(x, d) ==
    IF ~DActive(x, d) THEN x
    ELSE EventPost([x EXCEPT !.raised = @ \cup {d}], d, Event("exception"))

\* flux_jobtap_dependency_remove: refused after DEPEND, and an error when the
\* event is processed at once and fails
RemoveFails(x, d, dep) ==
    \/ x.st[d] \notin {"new", "depend"}
    \/ x.q[d] = <<>> /\ d \notin x.held /\ dep \notin x.deps[d]

JobtapRemove(x, d, dep) == EventPost(x, d, DepEvent("dependency-remove", dep))

\* remove_jobid_dependency
RemoveDependency(x, e, t) ==
    LET dep == [on |-> t, type |-> e.type]
    IN IF RemoveFails(x, e.dep, dep) THEN JobtapRaise(x, e.dep)
       ELSE JobtapRemove(x, e.dep, dep)

\* from the cursor of t's list on; the deletion is of the entry the cursor is
\* on after the nested calls, the first one if it is on none
ReleaseAll(x, t, mask) ==
    IF x.cur[t] > Len(x.after[t]) THEN x
    ELSE LET e == x.after[t][x.cur[t]]
             y == IF e.type \in mask
                  THEN LET z == RemoveDependency(x, e, t)
                       IN IF z.after[t] = <<>> THEN z
                          ELSE ListDelete(z, t, IF z.cur[t] = 0 THEN 1 ELSE z.cur[t])
                  ELSE x
         IN ReleaseAll([y EXCEPT !.cur[t] = @ + 1], t, mask)

RaiseExceptions(x, t) ==
    IF x.cur[t] > Len(x.after[t]) THEN x
    ELSE LET y == JobtapRaise(x, x.after[t][x.cur[t]].dep)
         IN RaiseExceptions([y EXCEPT !.cur[t] = @ + 1], t)

FromFirst(x, t) == [x EXCEPT !.cur[t] = 1]

\* release_dependent_jobs
ReleaseDependents(x, t) ==
    LET mask == {"afterany", IF x.end[t] = "completed" THEN "afterok" ELSE "afternotok"}
        y == ReleaseAll(FromFirst(x, t), t, mask)
    IN RaiseExceptions(FromFirst(y, t), t)

\* release_dependency_references: for each reference, zlistx_find by address
\* (which moves the cursor) and delete.  What is found may be another job's
\* entry, at an address freed since; those jobs are noted in unhooked.
ReleaseReferences(x, d) ==
    IF x.refs[d] = <<>> THEN x
    ELSE LET r == Head(x.refs[d])
             at == {i \in DOMAIN x.after[r.id] : x.after[r.id][i].addr = r.addr}
             y == IF at = {} THEN x
                  ELSE LET i == CHOOSE i \in at : TRUE
                           e == x.after[r.id][i]
                           z == [x EXCEPT !.cur[r.id] = i,
                                          !.unhooked = IF e.dep = d THEN @ ELSE @ \cup {e.dep}]
                       IN ListDelete(z, r.id, i)
         IN ReleaseReferences([y EXCEPT !.refs[d] = Tail(@)], d)

\* inactive_cb with its two halves swapped: the references go first
InactiveCbSwapped(x, d) == ReleaseDependents(ReleaseReferences(x, d), d)

InactiveCb(x, d) == ReleaseReferences(ReleaseDependents(x, d), d)

\* start_cb
DStartCb(x, t) ==
    [ReleaseAll(FromFirst(x, t), t, {"after"}) EXCEPT !.sub = @ \ {t}]

\* event_jobtap_call: subscribers first, then the callback of the new state
\* (priority_cb drops the references)
JobtapCall(x, d, ev, old) ==
    LET y == IF ev.n = "start" /\ d \in x.sub THEN DStartCb(x, d) ELSE x
    IN CASE y.st[d] = old -> y
         [] y.st[d] = "sched" -> [y EXCEPT !.refs[d] = <<>>]
         [] y.st[d] = "inactive" -> InactiveCb(y, d)
         [] OTHER -> y

\* event_job_action; on INACTIVE the job's aux items (both lists and the
\* begin-time timer) are destroyed
DJobAction(x, d) ==
    CASE x.st[d] = "depend" /\ x.deps[d] = {} /\ d \notin x.posted ->
            EventPost([x EXCEPT !.posted = @ \cup {d}], d, Event("depend"))
      [] x.st[d] = "run" -> [x EXCEPT !.pending = @ \cup {d}]
      [] x.st[d] = "cleanup" /\ d \notin x.pending -> EventPost(x, d, Event("clean"))
      [] x.st[d] = "inactive" ->
            [x EXCEPT !.after[d] = <<>>, !.refs[d] = <<>>, !.cur[d] = 0,
                      !.timer = @ \ {d}, !.sub = @ \ {d}]
      [] OTHER -> x

ProcessEntry(x, d, ev) ==
    DJobAction(JobtapCall(DJobUpdate(x, d, ev), d, ev, x.st[d]), d)

(***************************************************************************)
(* The handlers of job.dependency.*, called while the job is in NEW (or    *)
(* DEPEND, at restart), so their events are processed at once.  addr is    *)
(* where after_info_create finds memory.  A rejection is st "rejected".    *)
(***************************************************************************)
Reject(x, d) == [x EXCEPT !.st[d] = "rejected", !.deps[d] = {}, !.refs[d] = <<>>,
                          !.timer = @ \ {d}]

\* dependency_handle_inactive: can the dependency never be satisfied?
NeverSatisfied(x, dep) ==
    \/ dep.type = "after" /\ dep.on \notin x.started
    \/ dep.type = "afterok" /\ x.end[dep.on] # "completed"
    \/ dep.type = "afternotok" /\ x.end[dep.on] = "completed"

AddDependency(x, d, dep, known) ==
    IF dep \in known THEN x ELSE [x EXCEPT !.deps[d] = @ \cup {dep}]

\* dependency_after_cb; known are the dependencies the job has ever had (the
\* set of them bears a grudge: what was added once is not added again)
DependencyAfterCb(x, d, dep, addr, known) ==
    LET t == dep.on
        y == AddDependency(x, d, dep, known)
    IN CASE x.st[t] \in {"none", "rejected"} -> Reject(x, d)
         [] x.st[t] = "inactive" ->
               IF NeverSatisfied(y, dep) \/ RemoveFails(y, d, dep) THEN Reject(y, d)
               ELSE JobtapRemove(y, d, dep)
         [] DActive(x, t) /\ dep.type = "after" /\ t \in x.started ->
               IF RemoveFails(y, d, dep) THEN y ELSE JobtapRemove(y, d, dep)
         [] OTHER ->
               [y EXCEPT !.after[t] = Append(@, [dep |-> d, type |-> dep.type, addr |-> addr]),
                         !.refs[d] = Append(@, [id |-> t, addr |-> addr]),
                         !.sub = IF dep.type = "after" THEN @ \cup {t} ELSE @]

\* begin-time.c depend_cb, add_begin_time
BeginTimeDependCb(x, d, dep, known) ==
    [AddDependency(x, d, dep, known) EXCEPT !.timer = @ \cup {d}]

DependCb(x, d, dep, addr, known) ==
    IF dep.type = "begin-time" THEN BeginTimeDependCb(x, d, dep, known)
    ELSE DependencyAfterCb(x, d, dep, addr, known)

\* jobtap_check_dependencies over the jobspec's list: the first rejection
\* ends it.  reuse is a freed address the i-th entry gets, other entries get
\* addresses never used before.
CheckDependencies(x, d, want, i, reuse) ==
    LET step(y, k) ==
            IF y.st[d] = "rejected" THEN y
            ELSE LET known == {want[m] : m \in 1..(k - 1)}
                     addr == IF k = i /\ reuse # 0 THEN reuse ELSE y.next
                 IN [DependCb(y, d, want[k], addr, known) EXCEPT !.next = @ + 1]
    IN FoldLeft(step, x, [k \in DOMAIN want |-> k])

\* addresses a reference still holds though the entry is gone
Dangling(x) ==
    {r.addr : r \in UNION {ToSet(x.refs[d]) : d \in DJobs}}
        \ {e.addr : e \in UNION {ToSet(x.after[t]) : t \in DJobs}}

(***************************************************************************)
(* Actions                                                                 *)
(***************************************************************************)
\* submit_cb, submit_job: jobs arrive in the order of their ids.  An accepted
\* job's events are held until the batch with its submit event is committed.
DSubmit(d) ==
    /\ dj.st[d] = "none"
    /\ \A e \in DJobs : e < d => dj.st[e] # "none"
    /\ \E i \in DOMAIN dleft.want[d] \cup {0}, reuse \in Dangling(dj) \cup {0} :
          /\ i = 0 <=> reuse = 0
          /\ LET x == CheckDependencies([dj EXCEPT !.st[d] = "new"], d, dleft.want[d], i, reuse)
             IN dj' = IF x.st[d] = "rejected" THEN x
                      ELSE EventPost([x EXCEPT !.held = @ \cup {d}], d, Event("validate"))
    /\ UNCHANGED dleft

\* event_batch_commit_continuation: batches complete in order (a batch here
\* holds one job)
DCommitted(d) ==
    /\ d \in dj.held
    /\ \A e \in dj.held : d <= e
    /\ dj' = PostDeferred([dj EXCEPT !.held = @ \ {d}], d)
    /\ UNCHANGED dleft

\* begin_time_cb
DBeginTime(d) ==
    /\ d \in dj.timer
    /\ LET x == [dj EXCEPT !.timer = @ \ {d}, !.fired = @ \cup {d}]
           dep == [on |-> 0, type |-> "begin-time"]
       IN dj' = IF RemoveFails(x, d, dep) THEN x ELSE JobtapRemove(x, d, dep)
    /\ UNCHANGED dleft

\* the scheduler and the execution system, as the job manager sees them
DAlloc(d) ==
    dj.st[d] = "sched" /\ dj' = EventPost(dj, d, Event("alloc")) /\ UNCHANGED dleft
DExecStart(d) ==
    /\ d \in dj.pending /\ dj.st[d] = "run" /\ d \notin dj.started
    /\ dj' = EventPost(dj, d, Event("start")) /\ UNCHANGED dleft
DExecFinish(d) ==
    /\ d \in dj.pending /\ dj.st[d] = "run" /\ d \in dj.started
    /\ \E res \in {"completed", "failed"} : dj' = EventPost(dj, d, Event(res))
    /\ UNCHANGED dleft
DExecRelease(d) ==
    /\ d \in dj.pending /\ dj.st[d] = "cleanup"
    /\ dj' = EventPost([dj EXCEPT !.pending = @ \ {d}], d, Event("release"))
    /\ UNCHANGED dleft

\* job-manager.raise
DCancel(d) ==
    /\ dleft.cancels > 0 /\ DActive(dj, d) /\ dj.st[d] # "cleanup"
    /\ dj' = EventPost(dj, d, Event("exception"))
    /\ dleft' = [dleft EXCEPT !.cancels = @ - 1]

\* restart_from_kvs: the event logs are replayed, the plugin's lists and
\* timers are gone, and jobs in DEPEND present their dependencies again.  A
\* rejection is now only a warning on the job.
Recheck(x, d) ==
    LET want == dleft.want[d]
        step(y, k) ==
            LET z == DependCb(y, d, want[k], y.next, ToSet(want))
            IN IF z.st[d] # "rejected" THEN [z EXCEPT !.next = @ + 1]
               ELSE [y EXCEPT !.next = @ + 1,
                              !.warned = IF NeverSatisfied(y, want[k]) THEN @ \cup {d} ELSE @]
    IN IF x.st[d] # "depend" THEN x
       ELSE FoldLeft(step, x, [k \in DOMAIN want |-> k])

DRestart ==
    /\ dleft.restarts > 0 /\ dj.held = {}
    /\ \E d \in DJobs : DActive(dj, d)
    /\ dleft' = [dleft EXCEPT !.restarts = @ - 1]
    /\ LET none == [d \in DJobs |-> <<>>]
           ids == [d \in DJobs |-> d]
           replayed == [dj EXCEPT !.after = none, !.refs = none, !.cur = [d \in DJobs |-> 0],
                                  !.sub = {}, !.timer = {}, !.posted = {}, !.pending = {}]
           loaded == FoldLeft(DJobAction, replayed, SelectSeq(ids, LAMBDA d : DActive(dj, d)))
       IN dj' = FoldLeft(Recheck, loaded, ids)

DependNext ==
    \/ \E d \in DJobs : \/ DSubmit(d) \/ DCommitted(d) \/ DBeginTime(d)
                        \/ DAlloc(d) \/ DExecStart(d) \/ DExecFinish(d)
                        \/ DExecRelease(d) \/ DCancel(d)
    \/ DRestart

(***************************************************************************)
(* Properties                                                              *)
(***************************************************************************)
\* has what dependency dep of job d waits for happened?
Satisfied(d, dep) ==
    CASE dep.type = "begin-time" -> d \in dj.fired
      [] dep.type = "after" -> dep.on \in dj.started
      [] dep.type = "afterany" -> dj.st[dep.on] = "inactive"
      [] dep.type = "afterok" -> dj.st[dep.on] = "inactive" /\ dj.end[dep.on] = "completed"
      [] dep.type = "afternotok" -> dj.st[dep.on] = "inactive" /\ dj.end[dep.on] # "completed"

IsListed(d, dep) ==
    IF dep.type = "begin-time" THEN d \in dj.timer
    ELSE \E i \in DOMAIN dj.after[dep.on] :
            dj.after[dep.on][i].dep = d /\ dj.after[dep.on][i].type = dep.type

\* a jobspec that lists one dependency twice
Twice(d) == Cardinality(ToSet(dleft.want[d])) < Len(dleft.want[d])

\* A job leaves DEPEND for the scheduler only when every dependency of its
\* jobspec has been satisfied (event_job_action posts depend when none is
\* outstanding).
NoEarlyDepend == \A d \in dj.passed : \A dep \in ToSet(dleft.want[d]) : Satisfied(d, dep)

\* A job waiting in DEPEND waits for something that will come: each dependency
\* it still has is registered with a requisite that is active, or with a
\* timer.  So nothing the nested callbacks delete is an entry still needed.
WaitRegistered ==
    \A d \in DJobs : dj.st[d] = "depend" =>
        /\ dj.deps[d] # {}
        /\ \A dep \in dj.deps[d] : IsListed(d, dep)

\* A dependency exception is raised only on a job one of whose dependencies
\* can no longer be satisfied (raise_exceptions: "can never be satisfied").
RaisedRightly ==
    \A d \in dj.raised : \E dep \in ToSet(dleft.want[d]) :
        dj.st[dep.on] = "inactive" /\ ~Satisfied(d, dep)

\* The same for jobs that list no dependency twice, whose entry was not removed
\* through a dangling reference, and that were not warned at restart that they
\* may be stuck.
DependenciesKept ==
    /\ NoEarlyDepend
    /\ \A d \in DJobs : dj.st[d] = "depend" /\ ~Twice(d) /\ d \notin dj.unhooked \cup dj.warned =>
          dj.deps[d] # {} /\ \A dep \in dj.deps[d] : IsListed(d, dep)
    /\ \A d \in dj.raised : ~Twice(d) => \E dep \in ToSet(dleft.want[d]) :
          dj.st[dep.on] = "inactive" /\ ~Satisfied(d, dep)

\* What the manual says of dependencies, with no exception.
DependenciesStrict == NoEarlyDepend /\ WaitRegistered /\ RaisedRightly
=============================================================================
