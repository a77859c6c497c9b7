------------------------------ MODULE Perilog ------------------------------
(***************************************************************************)
(* The prolog and epilog of a job (plugins/perilog.c), with the part of    *)
(* the job manager they act on (event.c, jobtap.c) and of the bulk_exec    *)
(* that runs their processes.  One job, from the moment it gets its        *)
(* resources until it gives them back.                                     *)
(*                                                                         *)
(* A scenario fixes what the processes do on each rank: "ok", "fail",      *)
(* "hang" (ends on SIGTERM), "trap" (exits 0 on SIGTERM), "stubborn"       *)
(* (ignores it), "nostart" (cannot be executed), "lost" (its broker goes   *)
(* away while it runs).                                                    *)
(***************************************************************************)
EXTENDS Naturals, Sequences, FiniteSets

CONSTANT PRanks   \* the ranks of the job's allocation

VARIABLES
    pjob,   \* the job: its state and the flags that hold it there
    pconf,  \* perilog_config
    pproc,  \* the job's entry in perilog_config.processes, NoPProc if none
    pdrain, \* resource.drain requests in flight, the drained ranks
    pleft,  \* what the environment may still do
    phist   \* what has happened
perilog_vars == <<pjob, pconf, pproc, pdrain, pleft, phist>>

NoPProc == [on |-> FALSE]
Bad == {"exited1", "signaled", "failed", "lost"}   \* subprocess_failed
Live == {"init", "running"}

(* scn: the two configurations, with the behaviour of the processes, and    *)
(* what the environment does.                                               *)
PerilogInit(scn) ==
    /\ pjob = [state |-> "alloc", perilog |-> 0, start |-> "no", sub |-> FALSE]
    /\ pconf = [prolog |-> scn.prolog, epilog |-> scn.epilog, down |-> FALSE]
    /\ pproc = NoPProc
    /\ pdrain = [q |-> <<>>, drained |-> {}, running |-> {}]
    /\ pleft = scn.left
    /\ phist = [prolog |-> "none", epilogs |-> 0, finish |-> FALSE, soft |-> FALSE,
                uncounted |-> FALSE, mute |-> FALSE, untimed |-> FALSE, undrained |-> {}]

(* The handlers thread the plugin and the job through their calls. *)
PNow == [j |-> pjob, p |-> pproc, d |-> pdrain, h |-> phist]
PDone(new) ==
    \E x \in {new} : pjob' = x.j /\ pproc' = x.p /\ pdrain' = x.d /\ phist' = x.h

-----------------------------------------------------------------------------
(* The job manager *)

(* event_job_action *)
PJobAction(x) ==
    IF x.j.perilog > 0 THEN x
    ELSE CASE x.j.state = "run" /\ x.j.start = "no" -> [x EXCEPT !.j.start = "sent"]
           [] x.j.state = "cleanup" /\ x.j.start \in {"no", "released"} -> [x EXCEPT !.j.state = "inactive"]
           [] OTHER -> x

(* event_job_update of prolog-* and epilog-*: not counted, the first once a *)
(* start request is pending, the second outside of CLEANUP.                 *)
PerilogEvent(x, prolog, n) ==
    LET counts == IF prolog THEN x.j.start \notin {"sent", "running", "finished"} ELSE x.j.state = "cleanup"
    IN PJobAction(IF ~counts THEN x
                  ELSE IF n = 1 THEN [x EXCEPT !.j.perilog = @ + 1]
                  ELSE [x EXCEPT !.j.perilog = IF @ > 0 THEN @ - 1 ELSE 0])

(* flux_jobtap_prolog_finish, flux_jobtap_epilog_finish: for active jobs,   *)
(* and not in the wrong state.                                              *)
FinishEvent(x, prolog) ==
    IF x.j.state = "inactive" \/ (IF prolog THEN x.j.start \in {"sent", "running", "finished"} ELSE x.j.state # "cleanup")
    THEN x ELSE PerilogEvent(x, prolog, 0)

-----------------------------------------------------------------------------
(* bulk_exec *)

Desc(prolog) == IF prolog THEN pconf.prolog ELSE pconf.epilog
Active(p) == {r \in p.ranks : p.procs[r] \in Live}
PFailed(p) == p.canceled \/ p.timedout \/ p.rc > 0

(* procdesc_run, perilog_proc_create: the processes are started later, one  *)
(* in each turn of the reactor.                                             *)
ProcdescRun(x, prolog) ==
    LET pd == Desc(prolog)
        ranks == IF pd.per_rank THEN PRanks ELSE {CHOOSE r \in PRanks : \A s \in PRanks : r <= s}
    IN [x EXCEPT
          !.p = [on |-> TRUE, prolog |-> prolog, per_rank |-> pd.per_rank,
                 cancel_on_exception |-> pd.cancel, canceled |-> FALSE, timedout |-> FALSE,
                 timer |-> IF pd.timeout THEN "idle" ELSE "none", kill_timer |-> "none",
                 ranks |-> ranks, does |-> pd.does, procs |-> [r \in ranks |-> "queued"],
                 term |-> {}, started |-> 0, complete |-> 0, rc |-> 0],
          !.h.prolog = IF prolog THEN "run" ELSE @,
          !.h.epilogs = IF prolog THEN @ ELSE @ + 1]

(* bulk_exec_kill: SIGTERM to the processes that have been started; fails   *)
(* when there is none.  A signal for one that is not running yet waits.     *)
PKill(p) == [p EXCEPT !.term = @ \cup Active(p)]

(* perilog_proc_delete: bulk_exec is destroyed whatever its processes do,   *)
(* and the future of the last drain request with it.                        *)
ProcDelete(x) ==
    LET n == Len(x.d.q)
    IN [x EXCEPT !.d.running = @ \cup Active(x.p), !.p = NoPProc,
                 !.d.q = IF n = 0 THEN @ ELSE [@ EXCEPT ![n].live = FALSE]]

-----------------------------------------------------------------------------
(* exception_cb, proc_kill, proc_kill_timer_start *)
PExceptionCb(x) ==
    LET p == x.p
        q == [p EXCEPT !.canceled = TRUE]
    IN IF ~(x.j.sub /\ p.on /\ p.cancel_on_exception /\ ~p.canceled /\ p.complete < Cardinality(p.ranks)) THEN x
       ELSE IF p.kill_timer # "none" THEN [x EXCEPT !.p = q]
       ELSE IF Active(p) = {} THEN [x EXCEPT !.p = q, !.h.mute = TRUE]
       ELSE [x EXCEPT !.p = [PKill(q) EXCEPT !.kill_timer = "armed"]]

(* A fatal exception: the state first, then the plugin, then the action. *)
PException(x) ==
    IF x.j.state = "inactive" THEN x
    ELSE PJobAction(PExceptionCb([x EXCEPT !.j.state = "cleanup"]))

(* emit_finish_event with the exception after prolog-finish *)
EmitFinishEventLate(x) ==
    IF x.p.prolog
    THEN LET y == FinishEvent([x EXCEPT !.h.prolog = IF PFailed(x.p) THEN "bad" ELSE "ok",
                                        !.h.soft = x.p.timedout /\ x.p.rc = 0 /\ ~x.p.canceled], TRUE)
         IN IF x.p.rc # 0 /\ ~x.p.canceled THEN PException(y) ELSE y
    ELSE FinishEvent([x EXCEPT !.j.sub = FALSE], FALSE)

(* emit_finish_event *)
EmitFinishEvent(x) ==
    IF x.p.prolog
    THEN LET y == IF x.p.rc # 0 /\ ~x.p.canceled THEN PException(x) ELSE x
         IN FinishEvent([y EXCEPT !.h.prolog = IF PFailed(x.p) THEN "bad" ELSE "ok",
                                  !.h.soft = x.p.timedout /\ x.p.rc = 0 /\ ~x.p.canceled], TRUE)
    ELSE FinishEvent([x EXCEPT !.j.sub = FALSE], FALSE)

(* perilog_proc_finish: a failed prolog is followed by the epilog. *)
PerilogProcFinish(x) ==
    LET epilog == x.p.prolog /\ PFailed(x.p) /\ pconf.epilog.on
        announced == [PerilogEvent(x, FALSE, 1) EXCEPT !.h.uncounted = @ \/ x.j.state # "cleanup"]
        finished == ProcDelete(EmitFinishEvent(IF epilog THEN announced ELSE x))
    IN IF epilog THEN ProcdescRun(finished, FALSE) ELSE finished

(* proc_drain_and_finish, proc_drain_ranks *)
ProcDrainAndFinish(x, failed, active) ==
    LET p == x.p
        targets == {r \in p.ranks :
                      \/ failed /\ p.procs[r] \in Bad
                      \/ active /\ p.procs[r] \in Live}
    IN IF failed \/ active
       THEN [x EXCEPT !.d.q = Append(@, [targets |-> targets, live |-> TRUE, prolog |-> p.prolog])]
       ELSE PerilogProcFinish(x)

(* completion_cb, after the last process *)
PCompletion(x) ==
    IF x.p.complete # Cardinality(x.p.ranks) THEN x
    ELSE ProcDrainAndFinish(x, x.p.per_rank /\ ~x.p.canceled /\ x.p.rc # 0, FALSE)

-----------------------------------------------------------------------------
(* Actions *)

(* The job gets its resources: run_cb, before the action of RUN. *)
PJobRun ==
    /\ pjob.state = "alloc"
    /\ LET x == [PNow EXCEPT !.j.state = "run", !.j.sub = pconf.epilog.on \/ pconf.prolog.on]
       IN PDone(PJobAction(IF pconf.prolog.on THEN [ProcdescRun(x, TRUE) EXCEPT !.j.perilog = @ + 1] ELSE x))
    /\ UNCHANGED <<pconf, pleft>>

(* prep_cb, check_cb, exec_start_cmd *)
PSpawn ==
    /\ pproc.on
    /\ \E r \in pproc.ranks :
         /\ pproc.procs[r] = "queued"
         /\ \A s \in pproc.ranks : pproc.procs[s] = "queued" => r <= s
         /\ pproc' = [pproc EXCEPT !.procs[r] = "init"]
    /\ UNCHANGED <<pjob, pconf, pdrain, pleft, phist>>

(* exec_state_cb: when all are running, start_cb starts the timer. *)
PProcStart(r) ==
    LET p == [pproc EXCEPT !.procs[r] = "running", !.started = @ + 1]
        f == [pproc EXCEPT !.procs[r] = "failed", !.complete = @ + 1, !.rc = 1]
    IN /\ pproc.on /\ r \in pproc.ranks /\ pproc.procs[r] = "init"
       /\ PDone(IF pproc.does[r] = "nostart"
                THEN PCompletion([PNow EXCEPT !.p = f, !.h.untimed = TRUE])
                ELSE [PNow EXCEPT !.p = [p EXCEPT !.timer = IF p.started = Cardinality(p.ranks) /\ @ = "idle"
                                                            THEN "armed" ELSE @]])
       /\ UNCHANGED <<pconf, pleft>>

(* How a process may end, SIGTERM or not. *)
EndOf(does, term) ==
    CASE does = "lost" -> "lost"
      [] does \in {"ok", "fail", "hang"} /\ term -> "signaled"
      [] does = "trap" /\ term -> "exited0"
      [] does = "ok" -> "exited0"
      [] does = "fail" -> "exited1"
      [] OTHER -> "running"

(* exec_complete_cb; a lost broker leaves the exit status alone. *)
PProcEnd(r) ==
    /\ pproc.on /\ r \in pproc.ranks /\ pproc.procs[r] = "running"
    /\ LET e == EndOf(pproc.does[r], r \in pproc.term)
       IN /\ e # "running"
          /\ PDone(PCompletion([PNow EXCEPT !.p.procs[r] = e, !.p.complete = @ + 1,
                                            !.p.rc = IF e \in {"exited1", "signaled"} THEN 1 ELSE @]))
    /\ UNCHANGED <<pconf, pleft>>

(* timeout_cb *)
PTimeout ==
    /\ pproc.on /\ pproc.timer = "armed"
    /\ pproc' = LET p == [pproc EXCEPT !.timer = "none", !.timedout = TRUE]
                IN IF p.kill_timer = "none" THEN [PKill(p) EXCEPT !.kill_timer = "armed"] ELSE p
    /\ UNCHANGED <<pjob, pconf, pdrain, pleft, phist>>

(* proc_kill_timeout_cb.  The timer outlasts the turns of the reactor that  *)
(* start the processes.                                                     *)
PKillTimeout ==
    /\ pproc.on /\ pproc.kill_timer = "armed" /\ \A r \in pproc.ranks : pproc.procs[r] # "queued"
    /\ PDone(ProcDrainAndFinish([PNow EXCEPT !.p.kill_timer = "fired"], FALSE, TRUE))
    /\ UNCHANGED <<pconf, pleft>>

(* drain_failed_cb, when the resource module has answered, perhaps with an  *)
(* error.                                                                   *)
PDrainAnswer(ok) ==
    /\ pdrain.q # <<>> /\ (ok \/ pleft.drainfails)
    /\ LET d == Head(pdrain.q)
           x == [PNow EXCEPT !.d.q = Tail(@), !.d.drained = IF ok THEN @ \cup d.targets ELSE @,
                             !.h.undrained = IF ok THEN @ ELSE @ \cup d.targets]
       IN PDone(IF d.live THEN PerilogProcFinish(x) ELSE x)
    /\ UNCHANGED <<pconf, pleft>>

(* A user cancels the job. *)
PCancel ==
    /\ pleft.cancels > 0 /\ pjob.state \in {"run", "cleanup"}
    /\ pleft' = [pleft EXCEPT !.cancels = @ - 1]
    /\ PDone(PException(PNow))
    /\ UNCHANGED pconf

(* job-exec: the shells start, or the job is abandoned before that. *)
PExecStart ==
    /\ pjob.start = "sent"
    /\ pjob' = [pjob EXCEPT !.start = "running"]
    /\ UNCHANGED <<pconf, pproc, pdrain, pleft, phist>>

PExecAbort ==
    /\ pjob.start = "sent" /\ pjob.state = "cleanup"
    /\ PDone(PJobAction([PNow EXCEPT !.j.start = "released"]))
    /\ UNCHANGED <<pconf, pleft>>

(* The finish event and job_finish_cb: run_command fails while the job has  *)
(* a process already.                                                       *)
PExecFinish ==
    /\ pjob.start = "running"
    /\ LET x == [PNow EXCEPT !.j.start = "finished", !.j.state = "cleanup", !.h.finish = TRUE]
       IN PDone(IF ~pjob.sub \/ ~pconf.epilog.on \/ pconf.down THEN x
                ELSE IF pproc.on THEN PException(x)
                ELSE [ProcdescRun(x, FALSE) EXCEPT !.j.perilog = @ + 1])
    /\ UNCHANGED <<pconf, pleft>>

PExecRelease ==
    /\ pjob.start = "finished"
    /\ PDone(PJobAction([PNow EXCEPT !.j.start = "released"]))
    /\ UNCHANGED <<pconf, pleft>>

(* monitor_continuation: the broker is in CLEANUP; conf_update_cb *)
PShutdown ==
    /\ pleft.shutdown /\ ~pconf.down
    /\ pconf' = [pconf EXCEPT !.down = TRUE]
    /\ UNCHANGED <<pjob, pproc, pdrain, pleft, phist>>

PConfUpdate ==
    /\ pleft.reconf
    /\ pleft' = [pleft EXCEPT !.reconf = FALSE, !.reconfed = TRUE]
    /\ pconf' = [pconf EXCEPT !.epilog.on = ~@]
    /\ UNCHANGED <<pjob, pproc, pdrain, phist>>

PerilogNext ==
    \/ PJobRun \/ PSpawn \/ PTimeout \/ PKillTimeout \/ PCancel \/ PShutdown \/ PConfUpdate
    \/ PExecStart \/ PExecAbort \/ PExecFinish \/ PExecRelease
    \/ \E r \in PRanks : PProcStart(r) \/ PProcEnd(r)
    \/ \E ok \in BOOLEAN : PDrainAnswer(ok)

-----------------------------------------------------------------------------
(* Properties *)

(* A prolog or epilog only runs while its job waits for it: when the job    *)
(* has started or has given its resources back, none is left.               *)
PHeld == pjob.start \in {"sent", "running"} \/ pjob.state = "inactive" => ~pproc.on

(* PHeld but for the epilog of a prolog that failed, whose epilog-start     *)
(* event is posted before the job is in CLEANUP and so not counted.         *)
HeldIfCounted == phist.uncounted \/ PHeld

(* A rank where a process is still running when its prolog or epilog is     *)
(* given up is drained before the job gives it back (proc_drain_and_finish).*)
GivenUpDrained == pjob.state = "inactive" => pdrain.running \subseteq pdrain.drained \cup phist.undrained

(* drain_failed_cb never runs for a process that has been deleted. *)
DrainOwned == \A i \in DOMAIN pdrain.q : pdrain.q[i].live => pproc.on /\ pproc.prolog = pdrain.q[i].prolog

(* A job starts only if its prolog, if any, succeeded: a failure raises its *)
(* exception before prolog-finish.  (A prolog that timed out with status 0  *)
(* raises none.)                                                            *)
PrologGates == pjob.start # "no" => phist.prolog \in {"none", "ok"} \/ phist.soft

(* A failed prolog, and the finish of a job, are followed by one epilog.    *)
EpilogOnce ==
    /\ phist.epilogs <= 1
    /\ pjob.state = "inactive" /\ pconf.epilog.on /\ ~pleft.reconfed /\ ~pconf.down
          => (phist.prolog = "bad" \/ phist.finish => phist.epilogs = 1)

PerilogSafe == HeldIfCounted /\ GivenUpDrained /\ DrainOwned /\ PrologGates /\ EpilogOnce

PQuiet ==
    /\ pjob.state # "alloc" /\ pjob.start \in {"no", "released"} /\ pdrain.q = <<>>
    /\ pproc.on => /\ \A r \in pproc.ranks : pproc.procs[r] \notin {"queued", "init"}
                   /\ \A r \in pproc.ranks : pproc.procs[r] = "running" =>
                        EndOf(pproc.does[r], r \in pproc.term) = "running"
                   /\ pproc.timer # "armed" /\ pproc.kill_timer # "armed"

(* Every job comes to its end whatever its prolog and epilog do, unless     *)
(* they hang without a timeout and no one cancels the job.  (Excepted: a    *)
(* rank that cannot be started keeps the timeout from being armed, and a    *)
(* cancel that comes before the first process is started kills none.)       *)
PerilogEnds ==
    PQuiet => \/ pjob.state = "inactive"
              \/ /\ pproc.on /\ pproc.kill_timer = "none"
                 /\ ~Desc(pproc.prolog).timeout \/ phist.untimed
                 /\ pproc.canceled => phist.mute

PerilogKept == PerilogSafe /\ PerilogEnds
=============================================================================
