----------------------------- MODULE JobIngest -----------------------------
(***************************************************************************)
(* job-ingest (src/modules/job-ingest): a submit request goes through a    *)
(* pipeline of worker processes (pipeline.c, workcrew.c, worker.c), first  *)
(* the frobnicator, which rewrites the jobspec, then the validator; jobs   *)
(* that pass are gathered in a batch, which is committed to the KVS,       *)
(* announced to the job manager and answered (job-ingest.c).  A worker     *)
(* writes requests to its process and takes lines of output as answers to  *)
(* the requests, in order; processes are started on demand, stopped when   *)
(* idle and on a change of configuration, and may crash.                   *)
(***************************************************************************)
EXTENDS Integers, Sequences, FiniteSets, SequencesExt

CONSTANTS Submits,         \* the jobs that may be submitted
          CrewSize,        \* WORKCREW_SIZE
          MaxBacklog,      \* workcrew_max_backlog
          IngestScenarios  \* sets of [jobs, bad, novalidate, frob, bypass, count, reloads,
                           \* crashes, execfails, idles, kvsfails, refused, jmfails, shutdowns]

VARIABLES ing,     \* struct job_ingest_ctx, with its batch, pipeline and workers
          iproc,   \* the worker processes, in the order of their start
          iflight, \* batches that were flushed: a set of [jobs, step, errors]
          iworld,  \* [kvs, jm, unlink]: job directories in the KVS, jobs of the job manager,
                   \* directories that a cleanup transaction will unlink
          ianswer, \* [jobs -> sequence of answers to the submit request]
          ighist,  \* history: [stray, mixed, recount]
          igleft   \* what may still happen

ingest_vars == <<ing, iproc, iflight, iworld, ianswer, ighist, igleft>>

-----------------------------------------------------------------------------
Stages == {"frob", "val"}
CrewWorkers == 1..CrewSize
NoBatch == {}
NoProc == 0
Unset == -1
Jobspec(j, frobbed) == [of |-> j, frobbed |-> frobbed]

IdleWorker == [p |-> NoProc, queue |-> <<>>, timer |-> FALSE, trash |-> {}, exit_cb |-> FALSE]

IngestInit(s) ==
    /\ ing = [st |-> "run", shutdown |-> FALSE, batch |-> NoBatch, armed |-> FALSE, count |-> s.count,
              bypass |-> s.bypass, frob |-> s.frob, process_count |-> 0, stopping |-> FALSE,
              crew |-> [c \in Stages |-> [i \in CrewWorkers |-> IdleWorker]],
              ready |-> {}, spec |-> [j \in Submits |-> Jobspec(j, FALSE)]]
    /\ iproc = <<>>
    /\ iflight = {}
    /\ iworld = [kvs |-> {}, jm |-> {}, unlink |-> {}]
    /\ ianswer = [j \in Submits |-> <<>>]
    /\ ighist = [stray |-> FALSE, mixed |-> {}, recount |-> FALSE]
    /\ igleft = [jobs |-> s.jobs, bad |-> s.bad, novalidate |-> s.novalidate, reloads |-> s.reloads,
                 crashes |-> s.crashes, execfails |-> s.execfails, idles |-> s.idles,
                 kvsfails |-> s.kvsfails, refused |-> s.refused, jmfails |-> s.jmfails,
                 shutdowns |-> s.shutdowns, asked |-> {}]

(* A handler takes the module, the processes, the flushed batches, the      *)
(* answers and the history through its calls.                               *)
Ingest == [g |-> ing, p |-> iproc, f |-> iflight, a |-> ianswer, h |-> ighist]
IngestDone(new) ==
    \E x \in {new} : /\ ing' = x.g /\ iproc' = x.p /\ iflight' = x.f
                     /\ ianswer' = x.a /\ ighist' = x.h

Respond(x, j, answer) == [x EXCEPT !.a[j] = Append(@, answer)]
RespondAll(x, js, answer) == [x EXCEPT !.a = [j \in Submits |-> IF j \in js THEN Append(@[j], answer) ELSE @[j]]]

-----------------------------------------------------------------------------
(* worker.c *)

(* The process takes its input line by line; exited, eof and finished tell  *)
(* what has become of it and what of that its client has seen.              *)
NewProcess(c, i) == [c |-> c, w |-> i, stdin |-> <<>>, closed |-> FALSE, out |-> <<>>,
                     started |-> FALSE, exited |-> FALSE, eof |-> FALSE, finished |-> FALSE, gone |-> FALSE]

WorkerStart(x, c, i) ==
    IF x.g.crew[c][i].p # NoProc THEN x
    ELSE [x EXCEPT !.p = Append(@, NewProcess(c, i)), !.g.crew[c][i].p = Len(x.p) + 1]

WorkerActive(x, c, i) == WorkerStart([x EXCEPT !.g.crew[c][i].timer = FALSE], c, i)

(* flux_subprocess_write fails once the client has seen the process exit. *)
CanWrite(x, c, i) == ~x.p[x.g.crew[c][i].p].finished

(* worker_request *)
WorkerRequest(x, c, i, j) ==
    LET y == WorkerActive(x, c, i)
        p == y.g.crew[c][i].p
    IN IF CanWrite(y, c, i)
       THEN [y EXCEPT !.p[p].stdin = IF y.p[p].exited THEN @ ELSE Append(@, y.g.spec[j]),
                      !.g.crew[c][i].queue = Append(@, j),
                      !.h.stray = @ \/ y.p[p].eof]
       ELSE y

WorkerFulfill(x, c, j, ok, spec) ==
    [x EXCEPT !.g.ready = @ \cup {[c |-> c, j |-> j, ok |-> ok, spec |-> spec]},
              !.h.mixed = IF spec.of = j THEN @ ELSE @ \cup {j}]

(* Mutant: the requests of a process that died stay queued. *)
WorkerUnexpectedExitKeeps(x, c, i) == x

(* worker_unexpected_exit: all that is queued fails. *)
WorkerUnexpectedExit(x, c, i) ==
    LET queue == ToSet(x.g.crew[c][i].queue)
    IN [x EXCEPT !.g.ready = @ \cup {[c |-> c, j |-> j, ok |-> FALSE, spec |-> x.g.spec[j]] : j \in queue},
                 !.g.crew[c][i].queue = <<>>]

(* exit_cb of pipeline.c *)
ExitCb(x) ==
    LET n == x.g.process_count - 1
    IN [x EXCEPT !.g.process_count = n, !.g.st = IF n = 0 THEN "stopped" ELSE @,
                 !.g.stopping = @ /\ n # 0]

WorkerCleanupProcess(x, p) ==
    LET c == x.p[p].c
        i == x.p[p].w
        y == [x EXCEPT !.p[p] = [NewProcess(c, i) EXCEPT !.gone = TRUE, !.started = TRUE],
                       !.g.crew[c][i].trash = @ \ {p},
                       !.g.crew[c][i].p = IF @ = p THEN NoProc ELSE @]
    IN IF y.g.crew[c][i].exit_cb THEN ExitCb(y) ELSE y

(* worker_stop: the process sees the end of its input after what is there. *)
WorkerStop(x, c, i) ==
    LET w == x.g.crew[c][i]
    IN IF w.p = NoProc THEN x
       ELSE [x EXCEPT !.p[w.p].closed = TRUE,
                      !.g.crew[c][i].trash = @ \cup {w.p}, !.g.crew[c][i].p = NoProc,
                      !.h.stray = @ \/ w.queue # <<>>]

(* workcrew_stop_notify: worker_stop_notify for every worker *)
RECURSIVE StopWorkers(_, _, _, _)
StopWorkers(x, c, i, notify) ==
    IF i > CrewSize THEN x
    ELSE StopWorkers([WorkerStop(x, c, i) EXCEPT !.g.crew[c][i].exit_cb = notify], c, i + 1, notify)

WorkcrewStopNotify(x, c, notify) == StopWorkers(x, c, 1, notify)

CrewTrash(x, c) == UNION {x.g.crew[c][i].trash : i \in CrewWorkers}

-----------------------------------------------------------------------------
(* job-ingest.c: batches *)

(* batch_flush: the transaction is sent to the KVS. *)
BatchFlush(x) ==
    [x EXCEPT !.f = @ \cup {[jobs |-> x.g.batch, step |-> "commit", errors |-> {}]}, !.g.batch = NoBatch]

(* ingest_add_job: the timer starts with a new batch, unless batch-count    *)
(* says how many jobs a batch has.                                          *)
IngestAddJob(x, j) ==
    LET y == [x EXCEPT !.g.batch = @ \cup {j},
                       !.g.armed = @ \/ (x.g.batch = NoBatch /\ x.g.count = 0)]
    IN IF y.g.count # 0 /\ Cardinality(y.g.batch) = y.g.count THEN BatchFlush(y) ELSE y

-----------------------------------------------------------------------------
(* workcrew.c and pipeline.c *)

(* select_best_worker: the one with least backlog, or a new one *)
SelectBestWorker(x, c) ==
    LET depth(i) == Len(x.g.crew[c][i].queue)
        running == {i \in CrewWorkers : x.g.crew[c][i].p # NoProc}
        First(S) == CHOOSE i \in S : \A k \in S : i <= k
        idle == CrewWorkers \ running
        best == First({i \in running : \A k \in running : depth(i) <= depth(k)})
    IN IF idle # {} /\ (running = {} \/ depth(best) >= MaxBacklog) THEN First(idle) ELSE best

(* workcrew_process_job, and what its callers do when it fails *)
WorkcrewProcessJob(x, c, j) ==
    LET i == SelectBestWorker(x, c)
        y == WorkerRequest(x, c, i, j)
    IN IF y.g.crew[c][i].queue = x.g.crew[c][i].queue THEN Respond(y, j, "err") ELSE y

ValidatorBypass(x, j) == x.g.bypass \/ j \in igleft.novalidate

(* validate_job, or what follows it *)
ValidateJob(x, j) ==
    IF ValidatorBypass(x, j) THEN IngestAddJob(x, j) ELSE WorkcrewProcessJob(x, "val", j)

(* pipeline_process_job *)
PipelineProcessJob(x, j) ==
    IF x.g.frob THEN WorkcrewProcessJob(x, "frob", j) ELSE ValidateJob(x, j)

-----------------------------------------------------------------------------
(* Handlers *)

(* submit_cb *)
SubmitCb(j) ==
    /\ ing.st = "run" /\ j \in igleft.jobs
    /\ igleft' = [igleft EXCEPT !.jobs = @ \ {j}, !.asked = @ \cup {j}]
    /\ IngestDone(IF ing.shutdown THEN Respond(Ingest, j, "err") ELSE PipelineProcessJob(Ingest, j))
    /\ UNCHANGED iworld

(* frobnicate_continuation and pipeline_continuation *)
PipelineContinuation(r) ==
    /\ ing.st = "run"
    /\ LET x == [Ingest EXCEPT !.g.ready = @ \ {r}]
       IN IngestDone(IF ~r.ok THEN Respond(x, r.j, "err")
                     ELSE IF r.c = "frob" THEN ValidateJob([x EXCEPT !.g.spec[r.j] = r.spec], r.j)
                     ELSE IngestAddJob(x, r.j))
    /\ UNCHANGED <<iworld, igleft>>

(* batch_timer_cb: without a batch, batch_flush follows a null pointer. *)
BatchTimer ==
    /\ ing.st = "run" /\ ing.armed
    /\ IngestDone(LET x == [Ingest EXCEPT !.g.armed = FALSE]
                  IN IF ing.batch = NoBatch THEN [x EXCEPT !.g.st = "crashed"] ELSE BatchFlush(x))
    /\ UNCHANGED <<iworld, igleft>>

(* batch_flush_continuation and batch_announce *)
FlushContinuation(f) ==
    /\ ing.st = "run" /\ f.step \in {"committed", "failed"}
    /\ LET x == [Ingest EXCEPT !.f = @ \ {f}]
       IN IngestDone(IF f.step = "failed" THEN RespondAll(x, f.jobs, "err")
                     ELSE [x EXCEPT !.f = @ \cup {[f EXCEPT !.step = "announce"]}])
    /\ UNCHANGED <<iworld, igleft>>

(* batch_announce_continuation, batch_respond and batch_cleanup *)
AnnounceContinuation(f) ==
    /\ ing.st = "run" /\ f.step = "answered"
    /\ IngestDone(RespondAll(RespondAll([Ingest EXCEPT !.f = @ \ {f}], f.errors, "err"), f.jobs \ f.errors, "ok"))
    /\ iworld' = [iworld EXCEPT !.unlink = @ \cup f.errors]
    /\ UNCHANGED igleft

(* worker_output_cb: the line answers the request at the head of the queue. *)
WorkerOutput(p) ==
    /\ ing.st = "run" /\ iproc[p].out # <<>>
    /\ LET c == iproc[p].c
           i == iproc[p].w
           line == Head(iproc[p].out)
           x == [Ingest EXCEPT !.p[p].out = Tail(@)]
           queue == ing.crew[c][i].queue
       IN IngestDone(IF queue = <<>> THEN x
                     ELSE WorkerFulfill([x EXCEPT !.g.crew[c][i].queue = Tail(@),
                                                  !.g.crew[c][i].timer = @ \/ Len(queue) = 1],
                                        c, Head(queue), line.ok, line.spec))
    /\ UNCHANGED <<iworld, igleft>>

(* worker_output_cb at the end of the output *)
WorkerEof(p) ==
    /\ ing.st = "run" /\ iproc[p].exited /\ iproc[p].out = <<>> /\ ~iproc[p].eof
    /\ LET c == iproc[p].c
           i == iproc[p].w
           x == [Ingest EXCEPT !.p[p].eof = TRUE]
       IN IngestDone(IF ing.crew[c][i].p = p THEN WorkerUnexpectedExit(x, c, i) ELSE x)
    /\ UNCHANGED <<iworld, igleft>>

(* The process's exit status arrives; worker_completion_cb follows it and   *)
(* the end of the output.                                                   *)
WorkerFinished(p) ==
    /\ ing.st = "run" /\ iproc[p].exited /\ ~iproc[p].finished
    /\ IngestDone([Ingest EXCEPT !.p[p].finished = TRUE])
    /\ UNCHANGED <<iworld, igleft>>

WorkerCompletion(p) ==
    /\ ing.st = "run" /\ iproc[p].eof /\ iproc[p].finished
    /\ IngestDone(WorkerCleanupProcess(Ingest, p))
    /\ UNCHANGED <<iworld, igleft>>

(* worker_state_cb: the process could not be started. *)
WorkerFailed(p) ==
    /\ ing.st = "run" /\ igleft.execfails > 0 /\ iproc[p].started = FALSE
    /\ igleft' = [igleft EXCEPT !.execfails = @ - 1]
    /\ IngestDone(WorkerCleanupProcess(WorkerUnexpectedExit(Ingest, iproc[p].c, iproc[p].w), p))
    /\ UNCHANGED iworld

WorkerTimeout(c, i) ==
    /\ ing.st = "run" /\ ing.crew[c][i].timer /\ igleft.idles > 0
    /\ igleft' = [igleft EXCEPT !.idles = @ - 1]
    /\ IngestDone(WorkerStop([Ingest EXCEPT !.g.crew[c][i].timer = FALSE], c, i))
    /\ UNCHANGED iworld

(* reload_cb, job_ingest_configure and pipeline_configure: batch-count      *)
(* stays when it is gone from the configuration; the workers' processes     *)
(* are stopped.                                                             *)
ReloadCb ==
    /\ ing.st = "run" /\ igleft.reloads # <<>>
    /\ igleft' = [igleft EXCEPT !.reloads = Tail(@)]
    /\ LET conf == Head(igleft.reloads)
           count == IF conf.count = Unset THEN ing.count ELSE conf.count
           x == [Ingest EXCEPT !.g.count = count, !.g.bypass = conf.bypass, !.g.frob = conf.frob,
                               !.h.recount = @ \/ (ing.batch # NoBatch /\ count # ing.count)]
       IN IngestDone(WorkcrewStopNotify(WorkcrewStopNotify(x, "frob", FALSE), "val", FALSE))
    /\ UNCHANGED iworld

(* shutdown_cb and pipeline_shutdown *)
ShutdownCb ==
    /\ ing.st = "run" /\ igleft.shutdowns > 0
    /\ igleft' = [igleft EXCEPT !.shutdowns = @ - 1]
    /\ LET x == WorkcrewStopNotify(WorkcrewStopNotify([Ingest EXCEPT !.g.shutdown = TRUE], "val", TRUE), "frob", TRUE)
           n == Cardinality(CrewTrash(x, "val")) + Cardinality(CrewTrash(x, "frob"))
       IN IngestDone([x EXCEPT !.g.process_count = n, !.g.stopping = n # 0,
                               !.g.st = IF n = 0 THEN "stopped" ELSE @])
    /\ UNCHANGED iworld

ShutdownTimeout ==
    /\ ing.st = "run" /\ ing.stopping
    /\ IngestDone([Ingest EXCEPT !.g.st = "stopped", !.g.stopping = FALSE])
    /\ UNCHANGED <<iworld, igleft>>

-----------------------------------------------------------------------------
(* What the module works with: the processes, the KVS, the job manager *)

ProcessAnswers(p) ==
    /\ ing.st = "run" /\ ~iproc[p].exited /\ iproc[p].stdin # <<>>
    /\ LET spec == Head(iproc[p].stdin)
           line == [ok |-> <<iproc[p].c, spec.of>> \notin igleft.bad,
                    spec |-> [spec EXCEPT !.frobbed = @ \/ iproc[p].c = "frob"]]
       IN iproc' = [iproc EXCEPT ![p].stdin = Tail(@), ![p].out = Append(@, line), ![p].started = TRUE]
    /\ UNCHANGED <<ing, iflight, iworld, ianswer, ighist, igleft>>

ProcessExits(p) ==
    /\ ing.st = "run" /\ ~iproc[p].exited /\ ~iproc[p].gone
    /\ \/ iproc[p].closed /\ iproc[p].stdin = <<>> /\ UNCHANGED igleft
       \/ igleft.crashes > 0 /\ igleft' = [igleft EXCEPT !.crashes = @ - 1]
    /\ iproc' = [iproc EXCEPT ![p].exited = TRUE, ![p].stdin = <<>>, ![p].started = TRUE]
    /\ UNCHANGED <<ing, iflight, iworld, ianswer, ighist>>

KvsCommits(f) ==
    /\ f.step = "commit"
    /\ \/ /\ iflight' = (iflight \ {f}) \cup {[f EXCEPT !.step = "committed"]}
          /\ iworld' = [iworld EXCEPT !.kvs = @ \cup f.jobs]
          /\ UNCHANGED igleft
       \/ /\ igleft.kvsfails > 0 /\ igleft' = [igleft EXCEPT !.kvsfails = @ - 1]
          /\ iflight' = (iflight \ {f}) \cup {[f EXCEPT !.step = "failed"]}
          /\ UNCHANGED iworld
    /\ UNCHANGED <<ing, iproc, ianswer, ighist>>

KvsUnlinks ==
    /\ iworld.unlink # {}
    /\ iworld' = [iworld EXCEPT !.kvs = @ \ iworld.unlink, !.unlink = {}]
    /\ UNCHANGED <<ing, iproc, iflight, ianswer, ighist, igleft>>

ManagerSubmits(f) ==
    /\ f.step = "announce"
    /\ \E fails \in BOOLEAN :
          LET errors == IF fails THEN f.jobs ELSE f.jobs \cap igleft.refused
          IN /\ fails => igleft.jmfails > 0
             /\ igleft' = [igleft EXCEPT !.jmfails = IF fails THEN @ - 1 ELSE @]
             /\ iflight' = (iflight \ {f}) \cup {[f EXCEPT !.step = "answered", !.errors = errors]}
             /\ iworld' = [iworld EXCEPT !.jm = @ \cup (f.jobs \ errors)]
    /\ UNCHANGED <<ing, iproc, ianswer, ighist>>

IngestNext ==
    \/ BatchTimer \/ ReloadCb \/ ShutdownCb \/ ShutdownTimeout \/ KvsUnlinks
    \/ \E j \in Submits : SubmitCb(j)
    \/ \E r \in ing.ready : PipelineContinuation(r)
    \/ \E f \in iflight :
          FlushContinuation(f) \/ AnnounceContinuation(f) \/ KvsCommits(f) \/ ManagerSubmits(f)
    \/ \E c \in Stages, i \in CrewWorkers : WorkerTimeout(c, i)
    \/ \E p \in DOMAIN iproc :
          \/ WorkerOutput(p) \/ WorkerEof(p) \/ WorkerFinished(p) \/ WorkerCompletion(p)
          \/ WorkerFailed(p) \/ ProcessAnswers(p) \/ ProcessExits(p)

-----------------------------------------------------------------------------
(* Properties *)

IngestQuiet ==
    /\ ing.st = "run" => /\ ing.ready = {} /\ ~ing.armed /\ ~ing.stopping
                         /\ \A p \in DOMAIN iproc :
                               /\ iproc[p].stdin = <<>> /\ iproc[p].out = <<>>
                               /\ ~iproc[p].exited /\ ~iproc[p].closed
                         /\ iflight = {}
    /\ iworld.unlink = {}

(* A submit is answered once, and the answer is the truth: "ok" when the    *)
(* job is in the KVS and the job manager has it, an error when the job      *)
(* manager does not have it and its directory is removed; a job whose       *)
(* jobspec the validator refuses does not get in; a result of a worker is   *)
(* about the job it was asked for; and when all is done every submit is     *)
(* answered, or waits for its batch to fill, or the module has shut down.   *)
(* This holds through crashes of workers, failures of the KVS and of the    *)
(* job manager, except after a worker was stopped with requests in its      *)
(* queue or was given one after its output had ended (stray), and after     *)
(* batch-count was changed with a batch pending (recount).                  *)
SubmitsAnswered ==
    /\ \A j \in Submits :
          /\ Len(ianswer[j]) <= 1
          /\ ianswer[j] = <<"ok">> => j \in iworld.kvs \ iworld.unlink /\ j \in iworld.jm
          /\ ianswer[j] = <<"err">> => j \notin iworld.jm /\ (IngestQuiet => j \notin iworld.kvs)
          /\ j \in iworld.jm \ ighist.mixed => <<"val", j>> \notin igleft.bad \/ j \in igleft.novalidate
    /\ ~ighist.stray => ighist.mixed = {}
    /\ ~ighist.recount => ing.st # "crashed"
    /\ IngestQuiet /\ ing.st = "run" /\ ~ighist.stray /\ ~ighist.recount =>
          \A j \in igleft.asked : ianswer[j] # <<>> \/ (ing.count # 0 /\ j \in ing.batch)
    /\ IngestQuiet /\ ing.shutdown => ing.st = "stopped"

(* A line of a worker's output is the answer to the request at the head of  *)
(* its queue.                                                               *)
ResultsMatch == ighist.mixed = {}

(* When all is done every submit is answered, or waits for its batch to fill. *)
NoSubmitWaits ==
    IngestQuiet /\ ing.st = "run" =>
        \A j \in igleft.asked : ianswer[j] # <<>> \/ (ing.count # 0 /\ j \in ing.batch)

(* The module does not crash. *)
NoCrash == ing.st # "crashed"
=============================================================================
