----------------------------- MODULE MCManager -----------------------------
(***************************************************************************)
(* The parts of the job manager beside the life of a job, for TLC: prologs *)
(* and epilogs, dependencies, queues, and waiting for jobs; and what runs  *)
(* their processes.  A behaviour exercises one of them.                    *)
(***************************************************************************)
EXTENDS Perilog, DependencyAfter, Queues, Waiters, MCExec

VARIABLE managing
process_vars == <<sub_vars, sd_vars>>
vars == <<managing, perilog_vars, dvars, qvars, wvars, process_vars>>

-----------------------------------------------------------------------------
(* Prologs and epilogs on two ranks: every behaviour of a process on the    *)
(* first, three on the second.                                              *)
MCPRanks == {0, 1}
Both(a, b) == [r \in MCPRanks |-> IF r = 0 THEN a ELSE b]
Command(per_rank, cancel, timeout, does) ==
    [on |-> TRUE, per_rank |-> per_rank, cancel |-> cancel, timeout |-> timeout, does |-> does]
NoCommand == [Command(FALSE, FALSE, FALSE, Both("ok", "ok")) EXCEPT !.on = FALSE]
Behaviours == {"ok", "fail", "hang", "trap", "stubborn", "nostart", "lost"}

Prologs == {NoCommand}
    \cup {Command(TRUE, a # "ok", TRUE, Both(a, b)) : a \in Behaviours, b \in {"ok", "stubborn"}}
    \cup {Command(FALSE, TRUE, t, Both(a, "ok")) : t \in BOOLEAN, a \in {"fail", "stubborn", "lost"}}
Epilogs == {NoCommand, Command(TRUE, FALSE, TRUE, Both("ok", "stubborn"))}
Around(cancels, changes) ==
    [cancels |-> cancels, reconf |-> changes, reconfed |-> FALSE, shutdown |-> changes, drainfails |-> changes]
PerilogScenarios ==
    {[prolog |-> p, epilog |-> e, left |-> l] : p \in Prologs, e \in Epilogs,
                                                l \in {Around(1, FALSE), Around(0, TRUE)}}
NoPerilog == [prolog |-> NoCommand, epilog |-> NoCommand, left |-> Around(0, FALSE)]

-----------------------------------------------------------------------------
(* Four jobs that depend on one another. *)
MCDJobs == 1..4
On(j, t) == [on |-> j, type |-> t]
Begin == [on |-> 0, type |-> "begin-time"]
Wants ==
    {<< <<>>, <<On(1, t)>>, <<On(1, "afterok")>>, <<On(1, u), On(2, v)>> >> :
        t \in {"afterok", "after"}, u \in {"after", "afterany", "afterok", "afternotok"},
        v \in {"afterok", "afternotok"}}
    \cup {<< <<>>, <<Begin>>, <<On(1, t), On(2, "afterok")>>, <<On(1, "afterany")>> >> :
             t \in {"after", "afternotok"}}
    \cup {<< <<>>, <<On(1, "afterok"), On(1, "afterok")>>, <<Begin, On(1, "afterany")>>, <<On(2, "after")>> >>}
DependScenarios ==
    {[want |-> w, cancels |-> c, restarts |-> 1 - c] : w \in Wants, c \in 0..1}
NoDepend == [want |-> << <<>>, <<>>, <<>>, <<>> >>, cancels |-> 0, restarts |-> 0]

-----------------------------------------------------------------------------
(* Two jobs, in the anonymous queue or in two named ones. *)
MCQJobs == 1..2
MCQNames == {"batch", "debug"}
QueueScenarios ==
    {[conf |-> c, admin |-> a, reconf |-> rc, restart |-> re, update |-> u, drain |-> d, idle |-> i,
      cancels |-> 1, gone |-> g] :
        c \in {{}, MCQNames}, a \in 1..2, re \in 0..1, rc \in 0..1, u \in 0..1, i \in 0..1, d \in 0..1, g \in 0..1}
FewQueueEvents(s) ==
    /\ s.restart + s.reconf + s.gone + s.update + s.drain + s.idle \in 1..2
    /\ s.admin + s.restart + s.reconf + s.gone <= 2
NoQueues ==
    [conf |-> {}, admin |-> 0, reconf |-> 0, restart |-> 0, update |-> 0, drain |-> 0, idle |-> 0,
     cancels |-> 0, gone |-> 0]

-----------------------------------------------------------------------------
(* Three jobs, waitable or not, and three clients that wait. *)
MCWJobs == 1..3
MCWClients == {"c1", "c2", "c3"}
WaitScenarios ==
    {[flags |-> f, reqs |-> 3, leaves |-> l, restarts |-> 1 - l] : f \in {1..3, 1..2}, l \in 0..1}
NoWaits == [flags |-> {}, reqs |-> 0, leaves |-> 0, restarts |-> 0]

-----------------------------------------------------------------------------
(* One part has a scenario of its own, the others do nothing. *)
Scenes(part, scenarios, none) == IF managing = part THEN scenarios ELSE {none}

Init ==
    /\ managing \in {"perilog", "dependencies", "queues", "waiters", "subprocess", "sdexec"}
    /\ \E s \in Scenes("perilog", PerilogScenarios, NoPerilog) : PerilogInit(s)
    /\ \E s \in Scenes("dependencies", DependScenarios, NoDepend) : DependInit(s)
    /\ \E s \in Scenes("queues", {q \in QueueScenarios : FewQueueEvents(q)}, NoQueues) : QueuesInit(s)
    /\ \E s \in Scenes("waiters", WaitScenarios, NoWaits) : WaitersInit(s)
    /\ \E s \in Scenes("subprocess", SubScenarios, NoSubs) : SubInit(s)
    /\ \E s \in Scenes("sdexec", SdScenarios, NoSdexec) : SdInit(s)

Next ==
    \/ managing = "perilog" /\ PerilogNext /\ UNCHANGED <<managing, dvars, qvars, wvars, process_vars>>
    \/ managing = "dependencies" /\ DependNext /\ UNCHANGED <<managing, perilog_vars, qvars, wvars, process_vars>>
    \/ managing = "queues" /\ QueuesNext /\ UNCHANGED <<managing, perilog_vars, dvars, wvars, process_vars>>
    \/ managing = "waiters" /\ WaitersNext /\ UNCHANGED <<managing, perilog_vars, dvars, qvars, process_vars>>
    \/ managing = "subprocess" /\ SubNext /\ UNCHANGED <<managing, perilog_vars, dvars, qvars, wvars, sd_vars>>
    \/ managing = "sdexec" /\ SdNext /\ UNCHANGED <<managing, perilog_vars, dvars, qvars, wvars, sub_vars>>

Spec == Init /\ [][Next]_vars
=============================================================================
