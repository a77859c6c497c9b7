---------------------------- MODULE Housekeeping ----------------------------
(***************************************************************************)
(* Housekeeping (src/modules/job-manager/housekeeping.c): when a job is    *)
(* done its resources go to an allocation, which runs a script on each of  *)
(* its ranks with a bulk_exec and frees them to the scheduler: all         *)
(* together, each as it is done, or, release-after a time, those that are  *)
(* done.  The scheduler may be unloaded at any time; a new one is told in  *)
(* the hello protocol what is allocated, and hears of frees once it is     *)
(* ready (alloc.c).                                                        *)
(***************************************************************************)
EXTENDS Integers, Sequences, FiniteSets, SequencesExt

CONSTANTS KeptJobs,      \* [jobs -> SUBSET ranks]: the resources each job gets
          KeepScenarios  \* sets of [command, release, configs, jobs, unloads]: the command is
                         \* configured; release is "never", "zero" or "after"; configs is a
                         \* sequence of [command, release], "unset" for no release-after;
                         \* the jobs that run; how often the scheduler is unloaded

VARIABLES hk,     \* struct housekeeping: [command, release, allocations]
          hproc,  \* [jobs -> [ranks -> state of the script]]
          hsched, \* [up, alloc, in]: the scheduler, what it holds, messages to it
          khist,  \* history: [dropped, lost, twice, shared]
          kleft   \* what may still happen

keep_vars == <<hk, hproc, hsched, khist, kleft>>

-----------------------------------------------------------------------------
Kept == DOMAIN KeptJobs
NoAllocation == [on |-> FALSE, rl |-> {}, pending |-> {}, armed |-> FALSE, expired |-> FALSE,
                 free_count |-> 0, exits |-> {}]

KeepInit(s) ==
    /\ hk = [command |-> s.command, release |-> s.release, allocations |-> [j \in Kept |-> NoAllocation]]
    /\ hproc = [j \in Kept |-> [r \in KeptJobs[j] |-> "none"]]
    /\ hsched = [up |-> "ready", alloc |-> {}, in |-> <<>>]
    /\ khist = [dropped |-> {}, lost |-> {}, twice |-> FALSE, shared |-> FALSE]
    /\ kleft = [configs |-> s.configs, jobs |-> s.jobs, running |-> {}, unloads |-> s.unloads]

(* A handler takes the module, the messages to the scheduler and the        *)
(* history through its calls.                                               *)
Keep == [h |-> hk, in |-> hsched.in, k |-> khist]
KeepDone(new) ==
    \E x \in {new} : hk' = x.h /\ hsched' = [hsched EXCEPT !.in = x.in] /\ khist' = x.k

(* alloc_send_free_request: not before the scheduler is ready.  A free that *)
(* a scheduler misses after it was told of the allocation is lost.          *)
SendFree(x, j, ranks, final) ==
    IF hsched.up = "ready"
    THEN [x EXCEPT !.in = Append(@, [t |-> "free", j |-> j, ranks |-> ranks, final |-> final])]
    ELSE [x EXCEPT !.k.lost = IF hsched.up = "hello" THEN @ \cup ({j} \X ranks) ELSE @]

(* get_housekept_ranks, allocation_release *)
AllocationRelease(x, j) ==
    LET a == x.h.allocations[j]
        ranks == a.rl \ a.pending
        y == SendFree(x, j, ranks, a.pending = {})
    IN IF ranks = {} THEN x
       ELSE [y EXCEPT !.h.allocations[j].rl = @ \ ranks, !.h.allocations[j].free_count = @ + 1]

AllocationRemove(x, j) == [x EXCEPT !.h.allocations[j] = NoAllocation]

HousekeepingFinishOne(x, j, r) ==
    LET y == [x EXCEPT !.h.allocations[j].pending = @ \ {r}]
        a == y.h.allocations[j]
        z == IF a.pending = {} \/ y.h.release = "zero" \/ a.expired THEN AllocationRelease(y, j) ELSE y
    IN IF r \notin x.h.allocations[j].pending THEN x
       ELSE [z EXCEPT !.h.allocations[j].armed = @ \/ x.h.release = "after"]

(* bulk_exit, with the ranks that bulk_exec has gathered, in their order *)
RECURSIVE FinishAll(_, _, _)
FinishAll(x, j, ranks) ==
    IF ranks = {} THEN x
    ELSE LET r == CHOOSE r \in ranks : \A s \in ranks : r <= s
         IN FinishAll(HousekeepingFinishOne(x, j, r), j, ranks \ {r})

ExitNotify(x, j) ==
    [FinishAll(x, j, x.h.allocations[j].exits) EXCEPT !.h.allocations[j].exits = {}]

(* exec_add_completed: bulk_complete follows the last exits. *)
AddCompleted(x, j, r, others) ==
    LET y == [x EXCEPT !.h.allocations[j].exits = @ \cup {r}]
    IN IF others = {} THEN AllocationRemove(ExitNotify(y, j), j) ELSE y

Others(j, r) == {s \in KeptJobs[j] \ {r} : hproc[j][s] # "done"}

-----------------------------------------------------------------------------
(* A script ends, or cannot be started (bulk_error): "let go" allocations   *)
(* have no bulk_exec any more.                                              *)
ScriptEnds(j, r) ==
    /\ hproc[j][r] = "running"
    /\ hproc' = [hproc EXCEPT ![j][r] = "done"]
    /\ KeepDone(IF hk.allocations[j].on THEN AddCompleted(Keep, j, r, Others(j, r)) ELSE Keep)
    /\ UNCHANGED kleft

ScriptFails(j, r) ==
    /\ hproc[j][r] = "running" /\ hk.allocations[j].on
    /\ hproc' = [hproc EXCEPT ![j][r] = "done"]
    /\ KeepDone(AddCompleted(HousekeepingFinishOne(Keep, j, r), j, r, Others(j, r)))
    /\ UNCHANGED kleft

(* exit_batch_cb *)
ExitBatch(j) ==
    /\ hk.allocations[j].exits # {}
    /\ KeepDone(ExitNotify(Keep, j))
    /\ UNCHANGED <<hproc, kleft>>

AllocationTimeout(j) ==
    /\ hk.allocations[j].armed /\ ~hk.allocations[j].expired
    /\ KeepDone(AllocationRelease([Keep EXCEPT !.h.allocations[j].expired = TRUE], j))
    /\ UNCHANGED <<hproc, kleft>>

(* housekeeping_start, when the job's free event is posted *)
JobFrees(j) ==
    /\ j \in kleft.running
    /\ kleft' = [kleft EXCEPT !.running = @ \ {j}]
    /\ IF ~hk.command
       THEN KeepDone(SendFree(Keep, j, KeptJobs[j], TRUE)) /\ UNCHANGED hproc
       ELSE /\ KeepDone([Keep EXCEPT !.h.allocations[j] =
                            [NoAllocation EXCEPT !.on = TRUE, !.rl = KeptJobs[j], !.pending = KeptJobs[j]]])
            /\ hproc' = [hproc EXCEPT ![j] = [r \in KeptJobs[j] |-> "running"]]

(* housekeeping_parse_config: "allow dynamic changes"; a release-after that *)
(* is gone from the configuration stays.                                    *)
KeepConfig ==
    /\ kleft.configs # <<>>
    /\ kleft' = [kleft EXCEPT !.configs = Tail(@)]
    /\ LET c == Head(kleft.configs)
       IN hk' = [hk EXCEPT !.command = c.command,
                           !.release = IF ~c.command \/ c.release = "unset" THEN @ ELSE c.release]
    /\ UNCHANGED <<hproc, hsched, khist>>

-----------------------------------------------------------------------------
(* Mutant: an allocation that freed some ranks is reported as a whole. *)
PartlyFreedNever(a) == FALSE

(* "partial release is not supported by RFC 27 hello" *)
PartlyFreed(a) == a.free_count > 0

(* hello_cb and housekeeping_hello_respond: the active jobs and the         *)
(* allocations that freed nothing; others are let go with their scripts     *)
(* running.                                                                 *)
KeepHello ==
    /\ hsched.up = "gone"
    /\ LET on == {j \in Kept : hk.allocations[j].on}
           dropped == {j \in on : PartlyFreed(hk.allocations[j])}
       IN /\ hk' = [hk EXCEPT !.allocations = [j \in Kept |-> IF j \in dropped THEN NoAllocation ELSE @[j]]]
          /\ khist' = [khist EXCEPT !.dropped = @ \cup dropped]
          /\ hsched' = [up |-> "hello", in |-> <<>>,
                        alloc |-> UNION {{j} \X KeptJobs[j] : j \in kleft.running \cup (on \ dropped)}]
    /\ UNCHANGED <<hproc, kleft>>

KeepReady ==
    /\ hsched.up = "hello"
    /\ hsched' = [hsched EXCEPT !.up = "ready"]
    /\ UNCHANGED <<hk, hproc, khist, kleft>>

SchedUnload ==
    /\ hsched.up # "gone" /\ kleft.unloads > 0
    /\ hsched' = [up |-> "gone", alloc |-> {}, in |-> <<>>]
    /\ kleft' = [kleft EXCEPT !.unloads = @ - 1]
    /\ khist' = [khist EXCEPT !.lost = {}]
    /\ UNCHANGED <<hk, hproc>>

(* The scheduler allocates what it thinks is free, and takes frees back. *)
SchedAllocates(j) ==
    /\ hsched.up = "ready" /\ j \in kleft.jobs
    /\ ~\E held \in hsched.alloc : held[2] \in KeptJobs[j]
    /\ hsched' = [hsched EXCEPT !.alloc = @ \cup ({j} \X KeptJobs[j])]
    /\ kleft' = [kleft EXCEPT !.jobs = @ \ {j}, !.running = @ \cup {j}]
    /\ khist' = [khist EXCEPT !.shared = @ \/ \E i \in Kept \ (khist.dropped \cup {j}) : \E r \in KeptJobs[j] :
                                                r \in KeptJobs[i] /\ hproc[i][r] = "running"]
    /\ UNCHANGED <<hk, hproc>>

SchedFrees ==
    /\ hsched.in # <<>>
    /\ LET m == Head(hsched.in)
           held == {m.j} \X m.ranks
       IN /\ hsched' = [hsched EXCEPT !.in = Tail(@), !.alloc = @ \ held]
          /\ khist' = [khist EXCEPT !.twice = @ \/ ~(held \subseteq hsched.alloc)
                           \/ m.final # ({k \in hsched.alloc \ khist.lost : k[1] = m.j} \subseteq held)]
    /\ UNCHANGED <<hk, hproc, kleft>>

KeepNext ==
    \/ KeepConfig \/ KeepHello \/ KeepReady \/ SchedUnload \/ SchedFrees
    \/ \E j \in Kept :
          \/ SchedAllocates(j) \/ JobFrees(j) \/ AllocationTimeout(j) \/ ExitBatch(j)
          \/ \E r \in KeptJobs[j] : ScriptEnds(j, r) \/ ScriptFails(j, r)

-----------------------------------------------------------------------------
(* Properties *)

KeepQuiet ==
    /\ hsched.up = "ready" /\ hsched.in = <<>>
    /\ \A j \in Kept : \A r \in KeptJobs[j] : hproc[j][r] # "running"

(* "Housekeeping runs an epilog-like script, then releases resources to the *)
(* scheduler": whatever release-after is, becomes, and whenever the         *)
(* scheduler is reloaded, a rank's resources are taken back by the          *)
(* scheduler once, after the script has run there (unless the allocation    *)
(* was let go in hello), final comes with the last of a job and not before, *)
(* no two allocations hold a rank, and in the end the scheduler holds what  *)
(* running jobs have.  Frees that fall between hello and ready are left     *)
(* out: nobody sends them again.                                            *)
RanksFreedOnce ==
    /\ ~khist.twice /\ ~khist.shared
    /\ \A i, j \in Kept : i # j => hk.allocations[i].rl \cap hk.allocations[j].rl = {}
    /\ KeepQuiet => /\ \A j \in Kept : ~hk.allocations[j].on
                    /\ hsched.alloc \ khist.lost = UNION {{j} \X KeptJobs[j] : j \in kleft.running}

(* In the end the scheduler holds what running jobs have. *)
FreesArrive == KeepQuiet => hsched.alloc = UNION {{j} \X KeptJobs[j] : j \in kleft.running}
=============================================================================
