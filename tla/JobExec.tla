------------------------------ MODULE JobExec ------------------------------
(***************************************************************************)
(* The execution service (src/modules/job-exec) and the parallel launcher  *)
(* it runs job shells with (src/common/libsubprocess/bulk-exec.c), for one *)
(* job: the guest KVS namespace is created, one shell is launched per      *)
(* rank, the shells meet in barriers that the service arbitrates over      *)
(* their standard input and output, exceptions and lost nodes terminate    *)
(* the job, unkillable shells are given up, and at the end the namespace   *)
(* is moved into the primary one and the resources are released.           *)
(*                                                                         *)
(* The state `ex' is one record, passed through the calls a handler makes: *)
(*   job   struct jobinfo, with its event logger (cur: a batch is being    *)
(*         collected; pend: batches being committed)                       *)
(*   bx    struct bulk_exec with struct exec_ctx; st is the state of each  *)
(*         subprocess handle, rep what has been reported of it to bulk_exec*)
(*   sh    the shells themselves (external): in is TRUE in a barrier, rx   *)
(*         is the standard input not read yet, tx the responses of the     *)
(*         remote execution service on their way to the handle             *)
(*   ks    the KVS (external): the guest namespace, the "guest" key of the *)
(*         primary namespace, the checkpoint, and the queue of requests    *)
(*   out   the responses sent to the job manager's start request           *)
(*   evs   job-exception events on their way from the job manager          *)
(*   drained, crit   the ranks drained, and the critical ranks             *)
(* Ranks are 0..n-1 and rank r runs shell r.                               *)
(***************************************************************************)
EXTENDS Naturals, Sequences, FiniteSets

CONSTANT ExecScenarios

VARIABLES ex, xleft

exec_vars == <<ex, xleft>>

NoJob ==
    [ref |-> 0, gone |-> TRUE, init |-> FALSE, started |-> FALSE, running |-> FALSE,
     finalizing |-> FALSE, exc |-> FALSE, ns |-> FALSE, impl |-> FALSE,
     status |-> 0, killTimer |-> "none", shellTimer |-> FALSE, expTimer |-> FALSE,
     kills |-> 0, futures |-> 0, cur |-> FALSE, pend |-> 0]

JobinfoNew == [NoJob EXCEPT !.ref = 2, !.gone = FALSE, !.init = TRUE]

Ranks(n) == 0 .. n - 1

NewBulk(n) ==
    [cmds |-> {}, procs |-> <<>>, st |-> [r \in Ranks(n) |-> "none"],
     rep |-> [r \in Ranks(n) |-> "none"], psig |-> {}, nonzero |-> {}, signaled |-> {},
     total |-> n, started |-> 0, complete |-> 0, rc |-> 0, active |-> FALSE,
     batch |-> {}, timer |-> FALSE,
     enter |-> 0, done |-> 0, exits |-> 0, pending |-> Ranks(n), btimer |-> FALSE]

NewShell(b) ==
    [st |-> "none", in |-> FALSE, todo |-> b, entered |-> 0, passed |-> 0,
     sig |-> FALSE, rx |-> <<>>, tx |-> <<>>]

(* What the model remembers beyond the code's state: forced completion,   *)
(* a step on a NULL or freed object, an event lost to the move, and a     *)
(* barrier write that stopped at a dead shell.                            *)
NoHistory ==
    [forced |-> FALSE, late |-> FALSE, bad |-> FALSE, lost |-> FALSE, unwritten |-> FALSE]

ExecWorld(s) ==
    [s |-> s, job |-> NoJob, bx |-> NewBulk(s.n),
     sh |-> [r \in Ranks(s.n) |-> NewShell(s.barriers)],
     ks |-> [ns |-> s.ns, guest |-> "none", root |-> s.root, q |-> <<>>],
     out |-> <<>>, evs |-> 0, drained |-> {}, crit |-> Ranks(s.n), h |-> NoHistory]

ExecInit(s) == ex = ExecWorld(s) /\ xleft = s.left

(* A handler's new state; the quantifier makes TLC compute it once.       *)
ExecDone(new) == \E w \in {new} : ex' = w

JobinfoRespond(w, type) == [w EXCEPT !.out = Append(@, type)]

JobinfoIncref(w) == [w EXCEPT !.job.ref = @ + 1]

(* The last reference frees the job with its timers and its bulk_exec.    *)
JobinfoDecref(w) ==
    IF w.job.ref > 1 THEN [w EXCEPT !.job.ref = @ - 1]
    ELSE [w EXCEPT !.job = NoJob, !.bx = NewBulk(w.s.n),
                   !.sh = [r \in DOMAIN @ |-> [@[r] EXCEPT !.tx = <<>>]],
                   !.h.bad = @ \/ w.job.gone \/ w.job.init \/ w.job.futures > 0]

(***************************************************************************)
(* The event logger: the first event of a batch starts it and its timer,   *)
(* the first batch makes the logger busy, which holds the job.             *)
(***************************************************************************)
Batches(job) == job.pend + (IF job.cur THEN 1 ELSE 0)

EmitEvent(w) ==
    IF w.job.cur THEN w
    ELSE LET busy == IF Batches(w.job) = 0 THEN JobinfoIncref(w) ELSE w
         IN [busy EXCEPT !.job.cur = TRUE]

KvsRequest(w, op) == [w EXCEPT !.ks.q = Append(@, op)]

CommitBatch(w, op) ==
    KvsRequest([w EXCEPT !.job.cur = FALSE, !.job.pend = @ + 1], op)

BatchComplete(w) ==
    LET less == [w EXCEPT !.job.pend = @ - 1]
    IN IF Batches(less.job) = 0 THEN JobinfoDecref(less) ELSE less

(***************************************************************************)
(* The end of a job: "finish" when the tasks are complete, then the        *)
(* namespace is moved and "release" is sent.                               *)
(***************************************************************************)
JobinfoComplete(w) ==
    LET failed == w.job.exc /\ w.job.status = 0
    IN JobinfoRespond(
         EmitEvent([w EXCEPT !.job.running = FALSE,
                             !.job.status = IF failed THEN 1 ELSE @]), "finish")

JobinfoRelease(w) == JobinfoDecref(JobinfoRespond(w, "release"))

NamespaceMove(w) == CommitBatch(EmitEvent(w), "move")

JobinfoFinalize(w) ==
    LET final == [w EXCEPT !.job.finalizing = TRUE]
    IN IF w.job.finalizing THEN w
       ELSE IF w.job.ns THEN NamespaceMove(final)
       ELSE JobinfoRelease(final)

JobinfoTasksComplete(w, status) ==
    JobinfoFinalize(JobinfoComplete(
        [w EXCEPT !.job.status = IF status > @ THEN status ELSE @,
                  !.h.bad = @ \/ ~w.job.started]))

(***************************************************************************)
(* Signals.  A running shell is sent the signal; a subprocess that has not *)
(* reported its pid keeps one pending signal.  If there was anybody to     *)
(* signal the job is held until the answers are in, or 3s have passed.     *)
(***************************************************************************)
Active(bx) == {r \in DOMAIN bx.st : bx.st[r] \in {"init", "running"}}

BulkExecKill(w) ==
    LET to == Active(w.bx)
        now == {r \in to : w.bx.st[r] = "running"}
    IN IF to = {} THEN w
       ELSE JobinfoIncref([w EXCEPT
              !.job.futures = @ + 1,
              !.bx.psig = @ \cup (to \ now),
              !.sh = [r \in DOMAIN @ |-> [@[r] EXCEPT !.sig = @ \/ r \in now]]])

KilltimerStart(w) ==
    [w EXCEPT !.job.killTimer = IF @ = "none" THEN "on" ELSE @,
              !.job.shellTimer = TRUE]

(* One line to the standard input of every process, in the order they      *)
(* were started; the first that is not alive ends it with an error.        *)
Dead(bx) == {i \in 1 .. Len(bx.procs) : bx.procs[i] \notin Active(bx)}

Reached(bx) ==
    {bx.procs[i] : i \in {k \in 1 .. Len(bx.procs) : \A d \in Dead(bx) : k < d}}

BulkExecWrite(w, line) ==
    [w EXCEPT !.sh = [r \in DOMAIN @ |->
                  IF r \in Reached(w.bx) THEN [@[r] EXCEPT !.rx = Append(@, line)]
                  ELSE @[r]],
              !.h.unwritten = @ \/ \E r \in Active(w.bx) \ Reached(w.bx) : w.sh[r].in]

(***************************************************************************)
(* Errors.  A fatal error sends one exception, then either terminates the  *)
(* shells or, when there are none yet, finalizes at once.  Cancelling the  *)
(* shells not launched yet counts them as complete, which notifies their   *)
(* exit, which may be a fatal error again.                                 *)
(***************************************************************************)
RECURSIVE JobinfoFatalError(_)

(* A severity 0 exception: the job manager publishes it, so it comes back. *)
RespondError(w) == [JobinfoRespond(w, "exception") EXCEPT !.evs = @ + 1]

TerminateBarrier(w) ==
    IF w.bx.done = 0 \/ w.bx.enter > 0 THEN BulkExecWrite(w, 1) ELSE w

BarrierWriteFails(w) ==
    (w.bx.done = 0 \/ w.bx.enter > 0) /\ Dead(w.bx) # {}

(* The leader shell killed by a signal ends the job, another that is not   *)
(* critical is worth a non-fatal exception.                                *)
LostShells(w, ranks) ==
    LET lost == ranks \cap w.bx.signaled
        told == IF 0 \in lost THEN JobinfoFatalError(w) ELSE w
    IN [told EXCEPT !.out = @ \o [i \in 1 .. Cardinality(lost \ (w.crit \cup {0}))
                                      |-> "warning"]]

ExitCb(w, ranks) ==
    LET w1 == [w EXCEPT !.bx.exits = @ + 1]
        w2 == IF w1.bx.done = 0 THEN JobinfoFatalError(w1) ELSE w1
        w3 == IF BarrierWriteFails(w2) THEN JobinfoFatalError(TerminateBarrier(w2))
              ELSE TerminateBarrier(w2)
    IN IF w.bx.total = 1 THEN w ELSE LostShells(w3, ranks)

ExitNotify(w) ==
    LET told == ExitCb(w, w.bx.batch)
    IN IF told.bx.timer THEN [told EXCEPT !.bx.timer = FALSE, !.bx.batch = {}] ELSE told

CompleteCb(w) == JobinfoTasksComplete(w, w.bx.rc)

BulkExecCancel(w) ==
    LET all == ExitNotify([w EXCEPT !.bx.complete = @ + Cardinality(w.bx.cmds),
                                    !.bx.batch = @ \cup w.bx.cmds,
                                    !.bx.cmds = {}])
    IN IF w.bx.cmds = {} THEN w
       ELSE IF all.bx.complete = all.bx.total THEN CompleteCb(all)
       ELSE all

JobinfoCancel(w) ==
    IF w.job.killTimer # "none" THEN w
    ELSE KilltimerStart(BulkExecKill(BulkExecCancel(w)))

JobinfoFatalError(w) ==
    LET told == IF w.job.exc THEN w ELSE RespondError([w EXCEPT !.job.exc = TRUE])
    IN IF w.job.started THEN JobinfoCancel(told) ELSE JobinfoFinalize(told)

(* Mutant: complete is compared with the processes launched so far.        *)
AddCompletedLaunched(w, r) ==
    LET one == [w EXCEPT !.bx.batch = @ \cup {r}, !.bx.timer = TRUE,
                         !.bx.complete = @ + 1]
    IN IF one.bx.complete = Len(one.bx.procs) THEN CompleteCb(ExitNotify(one)) ELSE one

AddCompleted(w, r) ==
    LET one == [w EXCEPT !.bx.batch = @ \cup {r}, !.bx.timer = TRUE,
                         !.bx.complete = @ + 1]
    IN IF one.bx.complete = one.bx.total THEN CompleteCb(ExitNotify(one)) ELSE one

(***************************************************************************)
(* Starting a job.                                                         *)
(***************************************************************************)
NsCreateAndLink(w) == KvsRequest([w EXCEPT !.job.ns = TRUE], "create")

JobStart ==
    /\ xleft.start > 0
    /\ xleft' = [xleft EXCEPT !.start = 0]
    /\ LET w == [ex EXCEPT !.job = JobinfoNew]
       IN ExecDone(IF ex.s.reattach THEN KvsRequest(w, "rootref") ELSE NsCreateAndLink(w))

ClearInit(w) == JobinfoDecref([w EXCEPT !.job.init = FALSE])

(* exec_init pushes one command for all ranks; exec_start lets the         *)
(* reactor launch them.                                                    *)
StartExecution(w) ==
    [EmitEvent([w EXCEPT !.job.impl = TRUE, !.bx.cmds = Ranks(w.bx.total)])
        EXCEPT !.job.started = TRUE, !.bx.active = TRUE]

StartContinue(w, ok) ==
    ClearInit(IF ~ok THEN JobinfoFatalError(w)
              ELSE IF w.job.exc THEN w
              ELSE IF w.s.initfails THEN JobinfoFatalError(w)
              ELSE StartExecution(w))

(***************************************************************************)
(* The KVS serves requests in order; the continuation of the response is   *)
(* taken in the same step.  A commit into a namespace that does not exist  *)
(* fails, and then the batch is never removed from the event logger.       *)
(***************************************************************************)
Popped(w) == [w EXCEPT !.ks.q = Tail(@)]

RootrefServed ==
    ExecDone(LET w == Popped(ex)
             IN IF ex.ks.root = "none" THEN StartContinue(w, FALSE)
                ELSE NsCreateAndLink(w))

CreateServed ==
    ExecDone(LET w == Popped(ex)
             IN IF ex.ks.ns = "there" THEN StartContinue(w, FALSE)
                ELSE KvsRequest([w EXCEPT !.ks.ns = "there"], "link"))

LinkServed ==
    ExecDone(LET w == [Popped(ex) EXCEPT !.ks.guest = "link"]
             IN StartContinue(w, ex.ks.ns = "there"))

BatchServed ==
    ExecDone(LET w == [Popped(ex) EXCEPT !.h.lost = @ \/ ex.ks.ns # "there"
                                                      \/ ex.ks.guest = "copy"]
             IN IF ex.ks.ns = "there" THEN BatchComplete(w) ELSE w)

MoveServed ==
    ExecDone(LET w == KvsRequest(Popped(ex), "copy")
             IN IF ex.ks.ns = "there" THEN BatchComplete(w) ELSE w)

CopyServed ==
    ExecDone(LET w == KvsRequest(Popped(ex), "remove")
             IN IF ex.ks.ns = "there" THEN [w EXCEPT !.ks.guest = "copy"] ELSE w)

RemoveServed ==
    ExecDone(JobinfoRelease([Popped(ex) EXCEPT !.ks.ns = "none"]))

KvsServed ==
    /\ ex.ks.q # <<>>
    /\ UNCHANGED xleft
    /\ \/ Head(ex.ks.q) = "rootref" /\ RootrefServed
       \/ Head(ex.ks.q) = "create" /\ CreateServed
       \/ Head(ex.ks.q) = "link" /\ LinkServed
       \/ Head(ex.ks.q) = "batch" /\ BatchServed
       \/ Head(ex.ks.q) = "move" /\ MoveServed
       \/ Head(ex.ks.q) = "copy" /\ CopyServed
       \/ Head(ex.ks.q) = "remove" /\ RemoveServed

BatchTimer ==
    /\ ~ex.job.gone /\ ex.job.cur
    /\ UNCHANGED xleft
    /\ ExecDone(CommitBatch(ex, "batch"))

(***************************************************************************)
(* Launching: one process per turn of the reactor.                         *)
(***************************************************************************)
Least(S) == CHOOSE r \in S : \A q \in S : r <= q

ExecStartCmd ==
    /\ ~ex.job.gone /\ ex.bx.active /\ ex.bx.cmds # {}
    /\ UNCHANGED xleft
    /\ LET r == Least(ex.bx.cmds)
       IN ExecDone([ex EXCEPT !.bx.cmds = @ \ {r}, !.bx.procs = Append(@, r),
                              !.bx.st[r] = "init", !.bx.rep[r] = "init",
                              !.sh[r].st = "pending"])

(* flux_rexec_ex fails: the launcher stops and the job is cancelled.       *)
ExecStartFails ==
    /\ ~ex.job.gone /\ ex.bx.active /\ ex.bx.cmds # {}
    /\ xleft.nolaunch > 0
    /\ xleft' = [xleft EXCEPT !.nolaunch = @ - 1]
    /\ ExecDone(JobinfoFatalError([ex EXCEPT !.bx.active = FALSE]))

(***************************************************************************)
(* The shells and the remote execution service (external).  A hung shell   *)
(* does nothing until it is killed; an unkillable one ignores signals,     *)
(* unless it goes late.                                                    *)
(***************************************************************************)
Shell(r, upd, msg) ==
    ex' = [ex EXCEPT !.sh[r] = [upd EXCEPT !.tx = @ \o msg]]

ShellStarts(r) ==
    /\ ex.sh[r].st = "pending"
    /\ \/ Shell(r, [ex.sh[r] EXCEPT !.st = "up"], <<"started">>) /\ UNCHANGED xleft
       \/ /\ xleft.noexec > 0
          /\ xleft' = [xleft EXCEPT !.noexec = @ - 1]
          /\ Shell(r, [ex.sh[r] EXCEPT !.st = "dead"], <<"fail">>)

ShellEnters(r) ==
    /\ ex.sh[r].st = "up" /\ ~ex.sh[r].in /\ ex.sh[r].todo > 0 /\ r \notin ex.s.hung
    /\ UNCHANGED xleft
    /\ Shell(r, [ex.sh[r] EXCEPT !.in = TRUE, !.todo = @ - 1, !.entered = @ + 1],
             <<"enter">>)

ShellReads(r) ==
    /\ ex.sh[r].st = "up" /\ ex.sh[r].in /\ ex.sh[r].rx # <<>>
    /\ UNCHANGED xleft
    /\ \/ /\ Head(ex.sh[r].rx) = 0
          /\ Shell(r, [ex.sh[r] EXCEPT !.in = FALSE, !.rx = Tail(@), !.passed = @ + 1], <<>>)
       \/ /\ Head(ex.sh[r].rx) = 1
          /\ Shell(r, [ex.sh[r] EXCEPT !.in = FALSE, !.rx = Tail(@), !.st = "dead"],
                   <<"exit1">>)

ShellExits(r) ==
    /\ ex.sh[r].st = "up"
    /\ \/ /\ ~ex.sh[r].in /\ ex.sh[r].todo = 0 /\ r \notin ex.s.hung
          /\ Shell(r, [ex.sh[r] EXCEPT !.st = "dead"], <<"exit0">>)
          /\ UNCHANGED xleft
       \/ /\ ex.sh[r].sig /\ r \notin ex.s.unkillable
          /\ Shell(r, [ex.sh[r] EXCEPT !.st = "dead"], <<"signaled">>)
          /\ UNCHANGED xleft
       \/ /\ ex.sh[r].sig /\ r \in ex.s.unkillable /\ xleft.late > 0
          /\ xleft' = [xleft EXCEPT !.late = @ - 1]
          /\ Shell(r, [ex.sh[r] EXCEPT !.st = "dead"], <<"signaled">>)
       \/ /\ xleft.crash > 0
          /\ xleft' = [xleft EXCEPT !.crash = @ - 1]
          /\ \E how \in {"exit1", "signaled"} :
                 Shell(r, [ex.sh[r] EXCEPT !.st = "dead"], <<how>>)

NodeLost(r) ==
    /\ xleft.lost > 0 /\ ex.sh[r].st \in {"pending", "up"}
    /\ xleft' = [xleft EXCEPT !.lost = @ - 1]
    /\ Shell(r, [ex.sh[r] EXCEPT !.st = "lost"], <<"lost">>)

(***************************************************************************)
(* Responses reach the subprocess handle: output is passed on at once, a   *)
(* change of state only at the end of the reactor's turn (Report).         *)
(***************************************************************************)
LastIn(bx) == bx.enter = bx.total

(* Mutant: the count of shells in the barrier survives its release.        *)
BarrierReleaseKeeps(w) ==
    [BulkExecWrite(w, 0) EXCEPT !.bx.done = @ + 1, !.bx.btimer = FALSE]

BarrierRelease(w) ==
    [BulkExecWrite(w, 0) EXCEPT !.bx.enter = 0, !.bx.done = @ + 1, !.bx.btimer = FALSE]

BarrierTimerStart(w) ==
    IF w.bx.enter = 1 /\ w.bx.done = 0 /\ w.s.timeout
    THEN [w EXCEPT !.bx.btimer = TRUE] ELSE w

(* The last shell in releases the barrier; the first in after a shell has  *)
(* exited aborts it; the first in starts the timer of the first barrier.   *)
BarrierEnter(w, r) ==
    LET in == [w EXCEPT !.bx.enter = @ + 1, !.bx.pending = @ \ {r}]
        abort == in.bx.enter = 1 /\ in.bx.exits > 0
        broken == Dead(in.bx) # {}
    IN IF LastIn(in.bx)
       THEN IF broken THEN JobinfoFatalError(BulkExecWrite(in, 0))
            ELSE BarrierTimerStart(BarrierRelease(in))
       ELSE IF abort
       THEN IF broken THEN JobinfoFatalError(BulkExecWrite(in, 1))
            ELSE BarrierTimerStart(BulkExecWrite(in, 1))
       ELSE BarrierTimerStart(in)

Exited(w, r, msg) ==
    [w EXCEPT !.bx.st[r] = "exited", !.bx.psig = @ \ {r},
              !.bx.nonzero = IF msg = "exit0" THEN @ ELSE @ \cup {r},
              !.bx.signaled = IF msg = "signaled" THEN @ \cup {r} ELSE @]

RexecContinuation(r) ==
    /\ ~ex.job.gone /\ ex.sh[r].tx # <<>>
    /\ UNCHANGED xleft
    /\ LET msg == Head(ex.sh[r].tx)
           w == [ex EXCEPT !.sh[r].tx = Tail(@)]
       IN ExecDone(
            CASE msg = "started" ->
                   [w EXCEPT !.bx.st[r] = "running", !.bx.psig = @ \ {r},
                             !.sh[r].sig = @ \/ r \in w.bx.psig]
              [] msg = "enter" -> BarrierEnter(w, r)
              [] msg = "fail" -> [w EXCEPT !.bx.st[r] = "failed", !.bx.psig = @ \ {r}]
              [] msg = "lost" -> [w EXCEPT !.bx.st[r] = "unreachable", !.bx.psig = @ \ {r}]
              [] OTHER -> Exited(w, r, msg))

JobinfoStarted(w) ==
    JobinfoRespond([w EXCEPT !.job.running = TRUE, !.job.expTimer = w.s.expires], "start")

StateRunning(w, r) ==
    LET up == [w EXCEPT !.bx.rep[r] = "running", !.bx.started = @ + 1]
    IN IF up.bx.started = up.bx.total THEN JobinfoStarted(up) ELSE up

RaiseRc(w, code) == [w EXCEPT !.bx.rc = IF code > @ THEN code ELSE @]

ExecCompleteCb(w, r) ==
    AddCompleted(RaiseRc([w EXCEPT !.bx.rep[r] = "done"],
                         IF r \in w.bx.nonzero THEN 1 ELSE 0), r)

(* error_cb: a lost node is fatal only if its shell is critical.           *)
ErrorCb(w, r) ==
    IF w.bx.st[r] = "unreachable" /\ r \notin w.crit THEN JobinfoRespond(w, "warning")
    ELSE JobinfoFatalError(w)

StateFailed(w, r) ==
    LET seen == RaiseRc([w EXCEPT !.bx.rep[r] = "done"],
                        IF w.bx.st[r] = "unreachable" THEN 0 ELSE 1)
    IN AddCompleted(ErrorCb(seen, r), r)

Report(r) ==
    /\ ~ex.job.gone
    /\ UNCHANGED xleft
    /\ \/ /\ ex.bx.rep[r] = "init" /\ ex.bx.st[r] \in {"running", "exited"}
          /\ ExecDone(StateRunning(ex, r))
       \/ /\ ex.bx.rep[r] = "running" /\ ex.bx.st[r] = "exited"
          /\ ExecDone(ExecCompleteCb(ex, r))
       \/ /\ ex.bx.rep[r] \in {"init", "running"}
          /\ ex.bx.st[r] \in {"failed", "unreachable"}
          /\ ExecDone(StateFailed(ex, r))

ExitBatchTimer ==
    /\ ~ex.job.gone /\ ex.bx.timer
    /\ UNCHANGED xleft
    /\ ExecDone(ExitNotify(ex))

(***************************************************************************)
(* Timers.                                                                 *)
(***************************************************************************)
(* The start barrier takes too long: the missing nodes are drained.        *)
BarrierTimer ==
    /\ ~ex.job.gone /\ ex.bx.btimer
    /\ UNCHANGED xleft
    /\ ExecDone(JobinfoFatalError(
           [ex EXCEPT !.bx.btimer = FALSE, !.drained = @ \cup ex.bx.pending]))

(* flux_subprocess_active: neither failed nor completed.                   *)
ActiveRanks(bx) == Active(bx) \cup {r \in DOMAIN bx.st : bx.st[r] = "exited" /\ bx.rep[r] # "done"}

(* The shells did not go: kill them again, and after the last attempt      *)
(* drain their nodes and declare them complete.                            *)
KillShellTimer ==
    /\ ~ex.job.gone /\ ex.job.shellTimer
    /\ \/ ex.job.kills < ex.s.maxkill /\ UNCHANGED xleft
       \/ /\ ex.job.kills = ex.s.maxkill /\ xleft.again > 0
          /\ xleft' = [xleft EXCEPT !.again = @ - 1]
    /\ LET count == ex.job.kills + 1
           w == [BulkExecKill(ex) EXCEPT !.job.kills = IF count > ex.s.maxkill THEN @ ELSE count,
                                         !.job.killTimer = "off"]
       IN ExecDone(IF count < ex.s.maxkill THEN w
                   ELSE JobinfoTasksComplete(
                          [w EXCEPT !.drained = @ \cup ActiveRanks(w.bx),
                                    !.h.forced = TRUE], 1))

(* exec_kill_cb: the kill was answered, or 3s have passed.                 *)
KillAnswered ==
    /\ ~ex.job.gone /\ ex.job.futures > 0
    /\ UNCHANGED xleft
    /\ ExecDone(JobinfoDecref([ex EXCEPT !.job.futures = @ - 1]))

(* The time limit: an exception whatever else is in progress, then kill.   *)
Timelimit ==
    /\ ~ex.job.gone /\ ex.job.expTimer
    /\ xleft.limit > 0
    /\ xleft' = [xleft EXCEPT !.limit = @ - 1]
    /\ ExecDone(KilltimerStart(
           [BulkExecKill(RespondError([ex EXCEPT !.h.bad = @ \/ ~ex.job.impl,
                                                 !.h.late = @ \/ ex.job.finalizing]))
               EXCEPT !.job.expTimer = FALSE, !.job.exc = TRUE]))

(***************************************************************************)
(* Requests and events.                                                    *)
(***************************************************************************)
ExceptionCb(w) ==
    IF w.job.gone \/ w.job.finalizing THEN w
    ELSE IF w.job.exc
    THEN BulkExecKill([w EXCEPT !.h.bad = @ \/ ~w.job.impl])
    ELSE JobinfoFatalError([w EXCEPT !.job.exc = TRUE])

ExceptionEvent ==
    \/ /\ ex.evs > 0
       /\ UNCHANGED xleft
       /\ ExecDone(ExceptionCb([ex EXCEPT !.evs = @ - 1]))
    \/ /\ xleft.cancel > 0 /\ xleft.start = 0
       /\ xleft' = [xleft EXCEPT !.cancel = @ - 1]
       /\ ExecDone(ExceptionCb(ex))

(* job-exec.critical-ranks, sent by the leader shell.                      *)
CriticalRanksCb ==
    /\ xleft.crit > 0 /\ ~ex.job.gone /\ ex.sh[0].st = "up"
    /\ xleft' = [xleft EXCEPT !.crit = @ - 1]
    /\ ExecDone([ex EXCEPT !.crit = {0}])

(* job-exec.expiration: the timer is set anew, whatever the job's state.   *)
ExpirationCb ==
    /\ xleft.expire > 0 /\ ~ex.job.gone
    /\ ex.job.running \/ ex.s.early
    /\ xleft' = [xleft EXCEPT !.expire = @ - 1]
    /\ ExecDone([ex EXCEPT !.job.expTimer = TRUE])

(* The job writes to its standard error, which is logged.                  *)
ShellLogs(r) ==
    /\ xleft.log > 0 /\ ~ex.job.gone /\ ex.sh[r].st = "up" /\ ex.bx.st[r] = "running"
    /\ xleft' = [xleft EXCEPT !.log = @ - 1]
    /\ ExecDone(EmitEvent(ex))

(* The instance is restarted.  Unloading the module saves the root of a    *)
(* running job's namespace; shells are killed and guest namespaces are     *)
(* gone, and the job manager starts the job again to be reattached.        *)
ExecRestart ==
    /\ xleft.restart > 0 /\ ~ex.job.gone /\ ex.ks.q = <<>>
    /\ xleft' = [xleft EXCEPT !.restart = 0, !.start = 1]
    /\ ExecDone([ExecWorld([ex.s EXCEPT !.reattach = TRUE]) EXCEPT
                     !.ks.guest = ex.ks.guest,
                     !.ks.root = IF ex.job.running THEN "saved" ELSE ex.ks.root])

ShellStep ==
    \E r \in DOMAIN ex.sh :
        ShellStarts(r) \/ ShellEnters(r) \/ ShellReads(r) \/ ShellExits(r)
        \/ NodeLost(r) \/ ShellLogs(r) \/ RexecContinuation(r) \/ Report(r)

ExecNext ==
    \/ JobStart
    \/ KvsServed
    \/ BatchTimer
    \/ ExecStartCmd
    \/ ExecStartFails
    \/ ShellStep
    \/ ExitBatchTimer
    \/ BarrierTimer
    \/ KillShellTimer
    \/ KillAnswered
    \/ Timelimit
    \/ ExceptionEvent
    \/ CriticalRanksCb
    \/ ExpirationCb
    \/ ExecRestart

(***************************************************************************)
(* Properties.                                                             *)
(***************************************************************************)
Sent(type) == Cardinality({i \in 1 .. Len(ex.out) : ex.out[i] = type})

ShellIdle(r) ==
    \/ ex.sh[r].st \in {"none", "dead", "lost"}
    \/ /\ ex.sh[r].st = "up"
       /\ ex.sh[r].sig => r \in ex.s.unkillable
       /\ r \in ex.s.hung \/ (ex.sh[r].in /\ ex.sh[r].rx = <<>>)

(* Nothing is left to happen that the environment does not choose.         *)
ExecQuiet ==
    /\ xleft.start = 0 /\ ex.ks.q = <<>> /\ ex.evs = 0
    /\ \A r \in DOMAIN ex.sh : ShellIdle(r)
    /\ ex.job.gone \/
         /\ ~ex.job.cur /\ ex.job.futures = 0
         /\ ~ex.bx.timer /\ ~ex.bx.btimer /\ ~(ex.bx.active /\ ex.bx.cmds # {})
         /\ ~(ex.job.shellTimer /\ ex.job.kills < ex.s.maxkill)
         /\ \A r \in DOMAIN ex.sh : ex.sh[r].tx = <<>>
         /\ \A r \in DOMAIN ex.sh :
               <<ex.bx.st[r], ex.bx.rep[r]>> \in {<<"none", "none">>, <<"init", "init">>,
                   <<"running", "running">>, <<"exited", "done">>,
                   <<"failed", "done">>, <<"unreachable", "done">>}

(* Every job that was started ends: whatever shells fail to start, die,    *)
(* hang in front of the first barrier or ignore signals, the release of    *)
(* its resources is sent, once, and the job is freed, unless an event was  *)
(* logged so late that its namespace was already gone.  No step on the way *)
(* uses a freed job, or a shell leaves a barrier that another has not      *)
(* entered.                                                                *)
JobEnds ==
    /\ ExecQuiet => Sent("release") = 1
    /\ ExecQuiet /\ ~ex.h.lost => ex.job.gone
    /\ ~ex.h.bad
    /\ \A r, q \in DOMAIN ex.sh : ex.sh[r].passed <= ex.sh[q].entered

(* While no shell was given up, the response stream of a job is in order:  *)
(* one start before one finish, and nothing after the final release.       *)
StreamOrder ==
    ~ex.h.forced /\ ~ex.h.late =>
        /\ Sent("finish") <= 1 /\ Sent("start") <= 1
        /\ \A i, k \in 1 .. Len(ex.out) :
              i < k => /\ ex.out[i] # "release"
                       /\ ~(ex.out[i] = "finish" /\ ex.out[k] = "start")

(* After the release no guest namespace is left behind, and the "guest"    *)
(* key is the copied directory, never a link to a namespace that is gone.  *)
(* Except for a job that could not be reattached: see ReattachCreates.     *)
NamespaceMoved ==
    ExecQuiet /\ (ex.s.reattach => ex.ks.root # "none") =>
        ex.ks.ns = "none" /\ ex.ks.guest # "link"

(* Resources are released with a shell still alive on a node only if that  *)
(* node has been drained.                                                  *)
AbandonedDrained ==
    Sent("release") > 0 =>
        \A r \in DOMAIN ex.sh : ex.sh[r].st \in {"pending", "up"} => r \in ex.drained

\* The account a job leaves behind: its stream of responses, its namespace and
\* the ranks it could not clean up.
JobAccounted == StreamOrder /\ NamespaceMoved /\ AbandonedDrained

(* "final release is end-of-stream" (job-manager/start.c).                 *)
EndOfStream ==
    \A i, k \in 1 .. Len(ex.out) : i < k => ex.out[i] # "release"

(* "if rootref not found, still create namespace": a job that meets no     *)
(* error of its own is started again after a restart of the instance.      *)
ReattachCreates == ex.s.reattach /\ Sent("release") > 0 => Sent("start") > 0

(* The eventlog is quiesced before the namespace is moved.                 *)
EventlogQuiesced == ~ex.h.lost

(* An exit in a barrier lets the shells waiting there exit "rather than    *)
(* being killed": the abort is written to each of them.                    *)
BarrierAborted == ~ex.h.unwritten

=============================================================================
