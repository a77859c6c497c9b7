------------------------------- MODULE Queues -------------------------------
(***************************************************************************)
(* The job manager's queues: enabling and starting them, the alloc         *)
(* requests of the jobs in them, moving a job to another queue, drain and  *)
(* idle requests, reconfiguration, and what a restart restores             *)
(* (src/src/modules/job-manager/queue.c, alloc.c, drain.c, update.c,       *)
(* restart.c).                                                             *)
(*                                                                         *)
(* "queued" is membership of alloc->queue, "sent" membership of            *)
(* alloc->sent (the alloc_queued and alloc_pending flags), "cancel" a      *)
(* sched.cancel request the scheduler has not answered.  A job passes NEW, *)
(* DEPEND and PRIORITY at once; its dependencies and its priority are the  *)
(* matter of other modules.                                                *)
(***************************************************************************)
EXTENDS Naturals, FiniteSets, Sequences, SequencesExt

CONSTANTS QJobs,    \* job ids, 1..n
          QNames    \* names a queue may be given

VARIABLES qm,       \* the job manager's state
          qleft     \* budgets of the commands users and administrators give

qvars == <<qm, qleft>>

Anon == "anon"

\* jobq_create: a named queue starts out stopped, the anonymous one started
JobqCreate(name) ==
    [enable |-> TRUE, start |-> name = Anon, checkpoint_start |-> name = Anon]

QueuesOf(conf) == IF conf = {} THEN {Anon} ELSE conf
HaveNamed(m) == Anon \notin DOMAIN m.qs

QJobInit == [st |-> "none", queue |-> Anon, queued |-> FALSE, sent |-> FALSE, cancel |-> FALSE]

\* scn: conf, the configured queues; budgets admin, reconf, restart, update,
\* drain, idle
QueuesInit(scn) ==
    /\ qm = [qs |-> [q \in QueuesOf(scn.conf) |-> JobqCreate(q)],
             job |-> [j \in QJobs |-> QJobInit], online |-> TRUE,
             drain |-> 0, idle |-> 0, upd |-> {}, saved |-> <<>>,
             told |-> [q \in QueuesOf(scn.conf) |-> JobqCreate(q)], fresh |-> FALSE,
             skew |-> {}, raced |-> {}]
    /\ qleft = scn

QDone(m) == qm' = m
QSpend(f) == qleft[f] > 0 /\ qleft' = [qleft EXCEPT ![f] = @ - 1]

\* queue_lookup; a job with no queue name asks for the anonymous queue
QueueLookup(m, name) == name \in DOMAIN m.qs

\* queue_started
QueueStarted(m, j) ==
    IF HaveNamed(m) THEN m.job[j].queue \in DOMAIN m.qs /\ m.qs[m.job[j].queue].start
    ELSE m.qs[Anon].start

QActive(m) == {j \in QJobs : m.job[j].st \in {"sched", "run"}}

(***************************************************************************)
(* drain.c: both lists are looked at when either may be answered.          *)
(***************************************************************************)
DrainCheck(m) ==
    [m EXCEPT !.drain = IF QActive(m) = {} THEN 0 ELSE @,
              !.idle = IF \E j \in QJobs : m.job[j].sent \/ m.job[j].st = "run" THEN @ ELSE 0]

(***************************************************************************)
(* alloc.c                                                                 *)
(***************************************************************************)
\* alloc_enqueue_alloc_request
QEnqueue(m, j) ==
    IF m.job[j].st = "sched" /\ ~m.job[j].queued /\ ~m.job[j].sent /\ QueueStarted(m, j)
    THEN [m EXCEPT !.job[j].queued = TRUE] ELSE m

\* alloc_dequeue_alloc_request, alloc_cancel_alloc_request (finalize false)
QDequeue(m, j) == [m EXCEPT !.job[j].queued = FALSE]
QCancel(m, j) == IF m.job[j].sent THEN [m EXCEPT !.job[j].cancel = TRUE] ELSE m

\* the job goes to CLEANUP and INACTIVE; alloc requests are finalized at once
QInactive(m, j) ==
    DrainCheck([m EXCEPT !.job[j].st = "inactive", !.job[j].queued = FALSE,
                         !.job[j].sent = FALSE, !.job[j].cancel = FALSE])

\* requeue_pending
QRequeue(m, j) ==
    [m EXCEPT !.job[j].sent = FALSE, !.job[j].cancel = FALSE,
              !.job[j].queued = QueueStarted(m, j)]

\* check_cb
QAllocRequest(j) ==
    /\ qm.online /\ qm.job[j].queued
    /\ QDone([qm EXCEPT !.job[j].queued = FALSE, !.job[j].sent = TRUE])
    /\ UNCHANGED qleft

\* alloc_response_cb, FLUX_SCHED_ALLOC_SUCCESS
QAllocSuccess(j) ==
    /\ qm.job[j].sent
    /\ QDone([qm EXCEPT !.job[j].sent = FALSE, !.job[j].cancel = FALSE, !.job[j].st = "run"])
    /\ UNCHANGED qleft

\* alloc_response_cb, FLUX_SCHED_ALLOC_CANCEL
QAllocCanceled(j) ==
    /\ qm.job[j].sent /\ qm.job[j].cancel
    /\ QDone(DrainCheck(QRequeue(qm, j)))
    /\ UNCHANGED qleft

\* interface_teardown when the scheduler goes away, and sched-ready
QSchedGone ==
    /\ qm.online /\ QSpend("gone")
    /\ LET step(m, j) == IF m.job[j].sent THEN QRequeue(m, j) ELSE m
       IN QDone(DrainCheck([FoldLeft(step, qm, [j \in QJobs |-> j]) EXCEPT !.online = FALSE]))
QSchedReady == ~qm.online /\ QDone([qm EXCEPT !.online = TRUE]) /\ UNCHANGED qleft

(***************************************************************************)
(* Jobs                                                                    *)
(***************************************************************************)
\* submit_job: queue_submit_check, then the job reaches SCHED
QSubmit(j) ==
    /\ qm.job[j].st = "none"
    /\ \A i \in QJobs : i < j => qm.job[i].st # "none"
    /\ \E q \in QNames \cup {Anon} :
          /\ QueueLookup(qm, q) /\ qm.qs[q].enable
          /\ QDone(QEnqueue([qm EXCEPT !.job[j].st = "sched", !.job[j].queue = q], j))
    /\ UNCHANGED qleft

QFinish(j) == qm.job[j].st = "run" /\ QDone(QInactive(qm, j)) /\ UNCHANGED qleft
QJobCancel(j) ==
    qm.job[j].st = "sched" /\ QSpend("cancels") /\ QDone(QInactive(qm, j))

(***************************************************************************)
(* queue.c: queue-enable and queue-start requests name one queue, or all.  *)
(***************************************************************************)
QTargets == {[all |-> FALSE, qs |-> {q}] : q \in DOMAIN qm.qs \cap QNames}
               \cup {[all |-> TRUE, qs |-> DOMAIN qm.qs]}
InTarget(m, j, ts) == ts.all \/ m.job[j].queue \in ts.qs

QueueEnable ==
    /\ QSpend("admin")
    /\ \E ts \in QTargets, enable \in BOOLEAN :
          QDone([qm EXCEPT
              !.qs = [q \in DOMAIN @ |-> IF q \in ts.qs THEN [@[q] EXCEPT !.enable = enable] ELSE @[q]],
              !.told = [q \in DOMAIN @ |-> IF q \in ts.qs THEN [@[q] EXCEPT !.enable = enable] ELSE @[q]],
              !.fresh = FALSE])

\* jobq_start
JobqStart(r, start, nocheckpoint) ==
    [r EXCEPT !.start = start, !.checkpoint_start = IF nocheckpoint THEN @ ELSE start]

\* queue_start and queue_stop over the active jobs
StartJobs(m, ts) ==
    LET step(x, j) == IF InTarget(x, j, ts) THEN QEnqueue(x, j) ELSE x
    IN FoldLeft(step, m, [j \in QJobs |-> j])
StopJobs(m, ts) ==
    LET step(x, j) == IF ~InTarget(x, j, ts) THEN x
                      ELSE IF x.job[j].queued THEN QDequeue(x, j) ELSE QCancel(x, j)
    IN FoldLeft(step, m, [j \in QJobs |-> j])

QueueStartCb ==
    /\ QSpend("admin")
    /\ \E ts \in QTargets, start \in BOOLEAN, nocheckpoint \in BOOLEAN :
          LET m == [qm EXCEPT
                  !.qs = [q \in DOMAIN @ |-> IF q \in ts.qs THEN JobqStart(@[q], start, nocheckpoint)
                                             ELSE @[q]],
                  !.told = [q \in DOMAIN @ |-> IF q \in ts.qs /\ ~nocheckpoint
                                               THEN [@[q] EXCEPT !.start = start] ELSE @[q]],
                  !.fresh = FALSE]
              x == IF start THEN StartJobs(m, ts) ELSE StopJobs(m, ts)
          IN QDone([x EXCEPT !.skew = {j \in @ : ~InTarget(x, j, ts) \/ (start /\ ~QueueStarted(x, j))}])

(***************************************************************************)
(* drain_cb and idle_cb                                                    *)
(***************************************************************************)
QDrain == QSpend("drain") /\ QDone(DrainCheck([qm EXCEPT !.drain = @ + 1]))
QIdle == QSpend("idle") /\ QDone(DrainCheck([qm EXCEPT !.idle = @ + 1]))

(***************************************************************************)
(* update.c with queue_update_cb: the checks are made when the request     *)
(* arrives, the update is posted when the feasibility check has answered.  *)
(***************************************************************************)
QUpdate(j) ==
    /\ QSpend("update")
    /\ qm.job[j].st = "sched"
    /\ QueueLookup(qm, qm.job[j].queue)
    /\ \E q \in QNames : /\ q # qm.job[j].queue /\ QueueLookup(qm, q) /\ qm.qs[q].enable
                         /\ QDone([qm EXCEPT !.upd = @ \cup {[job |-> j, queue |-> q]}])

\* post_job_updates: in SCHED the job goes back to PRIORITY, which takes its
\* alloc request back, and then to SCHED again
QPostUpdate(m, u) ==
    LET j == u.job
        x == [m EXCEPT !.job[j].queue = u.queue]
    IN CASE m.job[j].st = "inactive" -> m
         [] m.job[j].st = "run" -> [x EXCEPT !.raced = @ \cup {j}]
         [] OTHER -> [QEnqueue(QDequeue(QCancel(x, j), j), j) EXCEPT !.skew = @ \ {j}]

QFeasible ==
    /\ \E u \in qm.upd : QDone([QPostUpdate(qm, u) EXCEPT !.upd = @ \ {u}])
    /\ UNCHANGED qleft
QInfeasible ==
    /\ \E u \in qm.upd : QDone([qm EXCEPT !.upd = @ \ {u}])
    /\ UNCHANGED qleft

(***************************************************************************)
(* queue_configure, on config-reload: queues no longer configured go, new  *)
(* ones are created.  The jobs are not touched; skew notes those for which *)
(* queue_started changes.                                                  *)
(***************************************************************************)
Skewed(old, new) == {j \in QActive(new) : QueueStarted(old, j) # QueueStarted(new, j)}

QReconfigure ==
    /\ QSpend("reconf")
    /\ \E conf \in SUBSET QNames :
          LET keep(f) == [q \in QueuesOf(conf) |-> IF q \in DOMAIN f THEN f[q] ELSE JobqCreate(q)]
              m == [qm EXCEPT !.qs = keep(@), !.told = keep(@), !.fresh = FALSE]
          IN QDone([m EXCEPT !.skew = @ \cup Skewed(qm, m)])

(***************************************************************************)
(* restart.c: queue_save_state when the module is unloaded; at load, the   *)
(* jobs are replayed and act in their states, and then the queues' saved   *)
(* state is put back (queue_restore_state), which touches no job.          *)
(***************************************************************************)
\* queue_save_jobq_append saving the current state, --nocheckpoint ignored
QSaveCurrent(r) == [enable |-> r.enable, start |-> r.start]
QSave(r) == [enable |-> r.enable, start |-> r.checkpoint_start]

\* restore_state_v1
QRestore(m, saved) ==
    [m EXCEPT !.qs = [q \in DOMAIN @ |->
        IF q \in DOMAIN saved
        THEN JobqStart([@[q] EXCEPT !.enable = saved[q].enable], saved[q].start, FALSE)
        ELSE @[q]]]

QRestart ==
    /\ QSpend("restart")
    /\ LET saved == [q \in DOMAIN qm.qs |-> QSave(qm.qs[q])]
           blank == [qm EXCEPT
               !.qs = [q \in DOMAIN @ |-> JobqCreate(q)], !.online = FALSE, !.upd = {},
               !.drain = 0, !.idle = 0, !.saved = saved, !.fresh = TRUE,
               !.job = [j \in QJobs |-> [@[j] EXCEPT !.queued = FALSE, !.sent = FALSE,
                                                     !.cancel = FALSE]]]
           replayed == FoldLeft(QEnqueue, blank, [j \in QJobs |-> j])
           restored == QRestore(replayed, saved)
       IN QDone([restored EXCEPT !.skew = Skewed(replayed, restored)])

QueuesNext ==
    \/ \E j \in QJobs : \/ QSubmit(j) \/ QAllocRequest(j) \/ QAllocSuccess(j)
                        \/ QAllocCanceled(j) \/ QFinish(j) \/ QJobCancel(j) \/ QUpdate(j)
    \/ QSchedGone \/ QSchedReady \/ QueueEnable \/ QueueStartCb
    \/ QDrain \/ QIdle \/ QFeasible \/ QInfeasible \/ QReconfigure \/ QRestart

(***************************************************************************)
(* Properties                                                              *)
(***************************************************************************)
\* No job of a stopped queue waits to be sent to the scheduler, and no job of a
\* started one is left out (queue_start and queue_stop against the alloc
\* requests in flight), apart from jobs whose queue changed under them by
\* reconfiguration or restart.
StoppedOrServed ==
    \A j \in QJobs \ qm.skew :
        /\ qm.job[j].queued => QueueStarted(qm, j)
        /\ qm.job[j].st = "sched" /\ QueueStarted(qm, j) => qm.job[j].queued \/ qm.job[j].sent
        /\ ~(qm.job[j].queued /\ qm.job[j].sent)

\* A drain request waits only while some job is active, an idle request only
\* while an alloc request or a running job is left (drain_check is called
\* wherever one of them may have been the last).
DrainAnswered ==
    /\ qm.drain > 0 => QActive(qm) # {}
    /\ qm.idle > 0 => \E j \in QJobs : qm.job[j].sent \/ qm.job[j].st = "run"

\* After a restart a queue is enabled and started as the administrator last
\* said, --nocheckpoint commands apart.
RestartKeeps ==
    qm.fresh => \A q \in DOMAIN qm.qs : /\ qm.qs[q].enable = qm.told[q].enable
                                        /\ qm.qs[q].start = qm.told[q].start

QueuesKept == StoppedOrServed /\ DrainAnswered /\ RestartKeeps

\* The same with no exception for a restart: a stopped queue's jobs are not
\* offered to the scheduler.
StoppedStaysStopped == \A j \in QJobs : qm.job[j].queued => QueueStarted(qm, j)
=============================================================================
