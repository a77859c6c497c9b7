------------------------------ MODULE Waiters ------------------------------
(***************************************************************************)
(* flux_job_wait: waiting for one job, or for any, in the job manager      *)
(* (src/src/modules/job-manager/wait.c, called from submit.c, event.c and  *)
(* restart.c).                                                             *)
(*                                                                         *)
(* A request for an active job is kept in the job, a request for any job   *)
(* in a list; the result of a waitable job nobody waits for stays in the   *)
(* zombies hash.  The counters waiters and waitables are kept beside these *)
(* and decide when a request can never be answered.                        *)
(***************************************************************************)
EXTENDS Naturals, Sequences, FiniteSets, SequencesExt

CONSTANTS WJobs,      \* job ids, positive; WClients send at most one request at a time
          WClients

VARIABLES wj,         \* job -> [st, waitable, waiter]
          wq,         \* the wait context
          wleft       \* budgets and history: got, the answers each client has
                      \* had; revived, how often a result that had been given
                      \* became a zombie again; over, see NoSurplus

wvars == <<wj, wq, wleft>>

NoClient == "nobody"
ECHILD == 0          \* the answer when no job can be waited for

\* scn: flags, the waitable jobs; budgets reqs, leaves, restarts
WaitersInit(scn) ==
    /\ wj = [j \in WJobs |-> [st |-> "none", waiter |-> NoClient]]
    /\ wq = [requests |-> <<>>, waiters |-> 0, waitables |-> 0, zombies |-> {}, busy |-> {}]
    /\ wleft = [flags |-> scn.flags, reqs |-> scn.reqs, leaves |-> scn.leaves,
                restarts |-> scn.restarts, got |-> [c \in WClients |-> <<>>], over |-> FALSE,
                revived |-> [j \in WJobs |-> 0]]

Answer(got, c, what) == [got EXCEPT ![c] = Append(@, what)]

WActive(j) == wj[j].st = "active"

\* submit_job, wait_notify_active
WSubmit(j) ==
    /\ wj[j].st = "none"
    /\ wj' = [wj EXCEPT ![j].st = "active"]
    /\ wq' = IF j \in wleft.flags THEN [wq EXCEPT !.waitables = @ + 1] ELSE wq
    /\ UNCHANGED wleft

\* wait_notify_inactive: the job's own waiter, the oldest request for any job,
\* or nobody yet
WInactive(j) ==
    /\ WActive(j)
    /\ wj' = [wj EXCEPT ![j] = [st |-> "inactive", waiter |-> NoClient]]
    /\ LET c == wj[j].waiter IN
       IF j \notin wleft.flags THEN UNCHANGED <<wq, wleft>>
       ELSE IF c # NoClient
       THEN /\ wq' = [wq EXCEPT !.waiters = @ - 1, !.waitables = @ - 1, !.busy = @ \ {c}]
            /\ wleft' = [wleft EXCEPT !.got = Answer(@, c, j)]
       ELSE IF wq.requests # <<>>
       THEN /\ wq' = [wq EXCEPT !.requests = Tail(@), !.waitables = @ - 1,
                                !.busy = @ \ {Head(wq.requests)}]
            /\ wleft' = [wleft EXCEPT !.got = Answer(@, Head(wq.requests), j)]
       ELSE /\ wq' = [wq EXCEPT !.zombies = @ \cup {j}, !.waitables = @ - 1]
            /\ UNCHANGED wleft

\* the last step of wait_rpc: fail the newest request for any job when there
\* are more waiters than waitable jobs
FailSurplus(q, left) ==
    IF Len(q.requests) + q.waiters > q.waitables /\ q.requests # <<>>
    THEN LET c == Last(q.requests)
         IN <<[q EXCEPT !.requests = Front(@), !.busy = @ \ {c}],
              [left EXCEPT !.got = Answer(@, c, ECHILD)]>>
    ELSE <<q, left>>

WTake(p) == wq' = p[1] /\ wleft' = p[2]

\* a request the client knows the job of, or one for any job
WaitRpc(c) ==
    /\ wleft.reqs > 0 /\ c \notin wq.busy
    /\ \E any \in BOOLEAN, j \in WJobs :
        LET left == [wleft EXCEPT !.reqs = @ - 1]
            zombie(k) == FailSurplus([wq EXCEPT !.zombies = @ \ {k}],
                                     [left EXCEPT !.got = Answer(@, c, k)])
            echild == <<wq, [left EXCEPT !.got = Answer(@, c, ECHILD)]>>
        IN \/ /\ any /\ wq.zombies # {} /\ j \in wq.zombies
              /\ WTake(zombie(j)) /\ UNCHANGED wj
           \/ /\ any /\ wq.zombies = {}
              /\ WTake(FailSurplus([wq EXCEPT !.requests = Append(@, c),
                                               !.busy = @ \cup {c}], left))
              /\ UNCHANGED wj
           \/ /\ ~any /\ j \in wq.zombies
              /\ WTake(zombie(j)) /\ UNCHANGED wj
           \/ /\ ~any /\ j \notin wq.zombies /\ WActive(j)
              /\ wj[j].waiter = NoClient /\ j \in wleft.flags
              /\ wj' = [wj EXCEPT ![j].waiter = c]
              /\ wq' = [wq EXCEPT !.waiters = @ + 1, !.busy = @ \cup {c}]
              /\ wleft' = [left EXCEPT !.over = @ \/ Len(wq.requests) + wq.waiters + 1 > wq.waitables]
           \/ /\ ~any /\ j \notin wq.zombies
              /\ ~(WActive(j) /\ wj[j].waiter = NoClient /\ j \in wleft.flags)
              /\ WTake(echild) /\ UNCHANGED wj

\* wait_disconnect_rpc that forgets to count the waiter out
DisconnectUncounted(c) ==
    /\ wleft.leaves > 0 /\ c \in wq.busy
    /\ wj' = [j \in WJobs |-> IF wj[j].waiter = c THEN [wj[j] EXCEPT !.waiter = NoClient] ELSE wj[j]]
    /\ wq' = [wq EXCEPT !.requests = SelectSeq(@, LAMBDA x : x # c), !.busy = @ \ {c}]
    /\ wleft' = [wleft EXCEPT !.leaves = @ - 1]

\* wait_disconnect_rpc: the client's requests go, of both kinds
WaitDisconnect(c) ==
    /\ wleft.leaves > 0 /\ c \in wq.busy
    /\ LET mine == {j \in WJobs : wj[j].waiter = c}
       IN /\ wj' = [j \in WJobs |-> IF j \in mine THEN [wj[j] EXCEPT !.waiter = NoClient] ELSE wj[j]]
          /\ wq' = [wq EXCEPT !.requests = SelectSeq(@, LAMBDA x : x # c), !.busy = @ \ {c},
                              !.waiters = @ - Cardinality(mine)]
    /\ wleft' = [wleft EXCEPT !.leaves = @ - 1]

\* wait_ctx_destroy answers everyone ENOSYS; at the next load restart_map_cb
\* counts every waitable job in the KVS, and those inactive become zombies,
\* whether or not their result was given before
WaitRestart ==
    /\ wleft.restarts > 0
    /\ wj' = [j \in WJobs |-> [wj[j] EXCEPT !.waiter = NoClient]]
    /\ LET known == {j \in wleft.flags : wj[j].st # "none"}
           out == {j \in known : wj[j].st = "inactive"}
       IN /\ wq' = [requests |-> <<>>, waiters |-> 0, busy |-> {}, zombies |-> out,
                    waitables |-> Cardinality(known \ out)]
          /\ wleft' = [wleft EXCEPT
                !.restarts = @ - 1, !.over = FALSE,
                !.revived = [j \in WJobs |-> IF j \in out \ wq.zombies THEN @[j] + 1 ELSE @[j]]]

WaitersNext ==
    \/ \E j \in WJobs : WSubmit(j) \/ WInactive(j)
    \/ \E c \in WClients : WaitRpc(c) \/ WaitDisconnect(c)
    \/ WaitRestart

(***************************************************************************)
(* Properties                                                              *)
(***************************************************************************)
WaitedOn == {j \in WJobs : wj[j].waiter # NoClient}

\* The counters are what they count, a request is held in one place, and a
\* zombie is a waitable job that ended with nobody waiting.
WaitCounts ==
    /\ wq.waiters = Cardinality(WaitedOn)
    /\ wq.waitables = Cardinality({j \in wleft.flags : WActive(j)})
    /\ \A j \in wq.zombies : j \in wleft.flags /\ wj[j].st = "inactive"
    /\ wq.zombies # {} => wq.requests = <<>>

\* How often clients were given j's result.
Given(j) == Cardinality({<<c, i>> \in WClients \X (1..6) : i \in DOMAIN wleft.got[c] /\ wleft.got[c][i] = j})

\* The result of a waitable job that ended is given to one client or is kept as
\* a zombie, neither lost nor given twice, between two restarts; a restart makes
\* each result that was given available once more.  No other job has a result.
ResultOnce ==
    \A j \in WJobs :
        Given(j) + (IF j \in wq.zombies THEN 1 ELSE 0)
            = IF j \in wleft.flags /\ wj[j].st = "inactive" THEN 1 + wleft.revived[j] ELSE 0

\* wait.c: "Wait is destructive; that is, job completion info is consumed by the
\* first waiter."  A restart of the job manager refutes it.
WaitDestructive == \A j \in WJobs : Given(j) <= 1

\* There are never more waiters than waitable jobs, so that every waiter will
\* be answered, unless a wait for a particular job took the last one while a
\* request for any job was waiting.
NoSurplus == wleft.over \/ Len(wq.requests) + wq.waiters <= wq.waitables

WaitAnswered == WaitCounts /\ ResultOnce /\ NoSurplus

\* A request for any job waits only while there is a waitable job that could
\* answer it (wait.c: "ECHILD error if no waitable jobs are available, or there
\* are more waiters than jobs").
EnoughJobs == Len(wq.requests) + wq.waiters <= wq.waitables
=============================================================================
