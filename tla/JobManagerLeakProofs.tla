------------------------ MODULE JobManagerLeakProofs ------------------------
EXTENDS JobManagerSchedProofs

(***************************************************************************)
(* No resources are lost while the scheduler stays loaded: for every set   *)
(* of jobs, plugins and limits, with or without housekeeping.              *)
(*                                                                         *)
(* LeakInv follows an allocation from the scheduler to the job and back.   *)
(* Accounted, the property's word, is not inductive: a job that has its    *)
(* resources and has posted the free event must have handed them on, which *)
(* is what Kept adds.  A scheduler that is not ready has never been, so    *)
(* that there are no resources yet, and no hello callback can fail.        *)
(***************************************************************************)

Restart == "exception.scheduler-restart"

\* The success response for job k, and the free requests for it.
Success(k) == {[type |-> "success", id |-> k]}
FreesFor(k) == RequestsFor("free", k)

\* The job has resources, or the alloc event, and has not let them go.
Owns(r, q) == ~ r.free_posted /\ (r.has_resources \/ "alloc" \in Names(q))

\* Where the resources of job k can be.
Elsewhere(k, ts, fs, sc, hk) ==
  \/ k \in sc \/ Holds(fs, Success(k)) \/ k \in hk \/ Holds(ts, FreesFor(k))

Kept(k) == \/ Elsewhere(k, to_sched, from_sched, sched_commit, housekept)
           \/ Owns(job[k], event_queue[k])

\* The same of the next state.
KeptNext(k) == \/ Elsewhere(k, to_sched', from_sched', sched_commit', housekept')
               \/ Owns(job'[k], event_queue'[k])

LeakInv ==
  /\ sched_fail = {}
  /\ sched # "ready" => sched_alloc = {} /\ housekept = {}
  /\ \A k \in Job :
       /\ Restart \notin Names(event_queue[k])
       /\ sched # "ready" => ~ job[k].has_resources /\ "alloc" \notin Names(event_queue[k])
  /\ online => \A k \in sched_alloc : Kept(k)

\* A step posts no exception for a scheduler that was restarted, and gives a job
\* no resources that it did not have.
Carries(k) ==
  /\ Restart \notin Names(event_queue[k]) => Restart \notin Names(event_queue'[k])
  /\ ~ job[k].has_resources /\ "alloc" \notin Names(event_queue[k])
       => ~ job'[k].has_resources /\ "alloc" \notin Names(event_queue'[k])

\* What LeakInv says of the next state.
LEMMA LeakNext ==
  ASSUME LeakInv, sched_fail' = {},
         sched' # "ready" => sched # "ready" /\ sched_alloc' = {} /\ housekept' = {},
         \A k \in Job : Restart \notin Names(event_queue'[k]),
         sched' # "ready" => \A k \in Job : Carries(k),
         online' => \A k \in sched_alloc' : KeptNext(k)
  PROVE  LeakInv'
<1>1. \A k \in Job :
        sched' # "ready" => ~ job'[k].has_resources /\ "alloc" \notin Names(event_queue'[k])
  BY DEF LeakInv, Carries
<1>2. online' => \A k \in sched_alloc' : Kept(k)'
  BY DEF KeptNext, Kept, Elsewhere, Owns, Holds, Names, Success, FreesFor, RequestsFor, SchedRequest
<1>3. \A k \in Job :
        /\ Restart \notin Names(event_queue[k])'
        /\ sched' # "ready" => ~ job[k].has_resources' /\ "alloc" \notin Names(event_queue[k])'
  BY <1>1 DEF Names
<1> QED
  BY <1>2, <1>3, SMTT(20), ZenonT(60), SMTT(30) DEF LeakInv

\* What a step leaves of job k: what it has, and what it has let go.
Settled(k) ==
  /\ job'[k].has_resources = job[k].has_resources
  /\ job'[k].free_posted = job[k].free_posted
  /\ "alloc" \in Names(event_queue'[k]) <=> "alloc" \in Names(event_queue[k])
  /\ Restart \notin Names(event_queue[k]) => Restart \notin Names(event_queue'[k])

\* A step that settles every job, and drops no resources that are elsewhere.
LEMMA SettledLeak ==
  ASSUME LeakInv, \A k \in Job : Settled(k),
         sched' = sched, sched_fail' = {}, sched_alloc' \subseteq sched_alloc,
         housekept' \subseteq housekept, online' => online, sched_alloc \subseteq Job,
         online' => \A k \in sched_alloc' :
           Elsewhere(k, to_sched, from_sched, sched_commit, housekept)
             => Elsewhere(k, to_sched', from_sched', sched_commit', housekept')
  PROVE  LeakInv'
<1>1. sched' # "ready" => sched # "ready" /\ sched_alloc' = {} /\ housekept' = {}
  BY DEF LeakInv
<1>2. \A k \in Job : Restart \notin Names(event_queue'[k]) /\ Carries(k)
  BY DEF LeakInv, Settled, Carries
<1>3. online' => \A k \in sched_alloc' : KeptNext(k)
  BY DEF LeakInv, Kept, KeptNext, Settled, Owns
<1> QED
  BY <1>1, <1>2, <1>3, LeakNext, ZenonT(60), SMTT(30)

-----------------------------------------------------------------------------
(* Channels and queues *)

\* What is in a channel stays in it when it is extended.
LEMMA ExtendsKeeps ==
  ASSUME NEW ts \in Seq(SchedRequest), NEW us, NEW T, Extends(ts, us, T),
         NEW M, Holds(ts, M)
  PROVE  Holds(us, M)
<1>1. PICK i \in 1..Len(ts) : ts[i] \in M
  BY DEF Holds
<1>2. i \in 1..Len(us) /\ us[i] = ts[i]
  BY <1>1 DEF Extends
<1> QED
  BY <1>1, <1>2, SMTT(20), ZenonT(60), SMTT(30) DEF Holds

\* A free request that is sent is in the channel.
LEMMA FreeHolds ==
  ASSUME NEW ts \in Seq(SchedRequest), NEW j \in Job
  PROVE  Holds(Send(ts, "free", {j}), FreesFor(j))
<1> DEFINE m == [type |-> "free", ids |-> {j}]
<1>1. m \in SchedRequest /\ m \in FreesFor(j) /\ Send(ts, "free", {j}) = Append(ts, m)
  BY DEF SchedRequest, FreesFor, RequestsFor, Send
<1> HIDE DEF m
<1>2. Holds(Append(ts, m), FreesFor(j)) <=> Holds(ts, FreesFor(j)) \/ m \in FreesFor(j)
  BY <1>1, AppendHolds, SMTT(20), ZenonT(60), SMTT(30)
<1> QED
  BY <1>1, <1>2, Zenon

\* The names that are left when an entry has been dequeued.
LEMMA RestNames ==
  ASSUME NEW q \in Seq(Event), NEW done \in {0, 1}, done <= Len(q)
  PROVE  Names(Rest(q, done)) \subseteq Names(q)
<1>1. CASE done = 0
  BY <1>1, RestIs, SMTT(20), ZenonT(60), SMTT(30)
<1>2. CASE done = 1
  <2>1. q # << >>
    BY <1>2, SMTT(20), ZenonT(60), SMTT(30)
  <2>2. Rest(q, 1) = Tail(q) /\ Names(q) = {Head(q).name} \cup Names(Tail(q))
    BY <2>1, RestIs, NamesTail, ZenonT(60), SMTT(30)
  <2> QED
    BY <1>2, <2>2, Zenon
<1> QED
  BY <1>1, <1>2, SMTT(20), ZenonT(60), SMTT(30)

\* What event_job_post_entry does to the queues.
LEMMA PostNames ==
  ASSUME TypeOK, NEW j \in Job, NEW e \in Event, Post(j, e), NEW k \in Job
  PROVE  \/ Names(event_queue'[k]) = Names(event_queue[k])
         \/ Names(event_queue'[k]) = Names(event_queue[k]) \cup {e.name}
<1>1. /\ event_queue[k] \in Seq(Event)
      /\ event_queue'[k] \in {event_queue[k], Append(event_queue[k], e)}
  BY SMTT(20), ZenonT(60), SMTT(30) DEF TypeOK, Post
<1> QED
  BY <1>1, NamesAppend, ZenonT(60), SMTT(30)

-----------------------------------------------------------------------------
(* Processing events *)

\* What event_job_action does to its job: it keeps has_resources, sets
\* free_posted exactly when it hands the resources on, and posts no alloc event.
LEMMA ActionKeeps ==
  ASSUME TypeOK, NEW j \in Job, NEW x \in StructJob, NEW y \in Seq(Event), NEW ts,
         NEW done \in {0, 1}, done <= Len(y), event_job_action(j, x, y, ts, done)
  PROVE  LET F == x.state = "CLEANUP" /\ Frees(x, y) IN
         /\ job'[j].has_resources = x.has_resources
         /\ job'[j].free_posted => x.free_posted \/ F
         /\ Names(event_queue'[j]) \subseteq Names(y) \cup {"depend", "free", "clean"}
         /\ housekept' = IF F /\ Housekeeping THEN housekept \cup {j} ELSE housekept
<1> DEFINE F == x.state = "CLEANUP" /\ Frees(x, y)
           N == Names(y) \cup {"depend", "free", "clean"}
<1>1. ASSUME NEW name \in {"depend", "free", "clean"},
             event_queue'[j] = Rest(y, done) \/ event_queue'[j] = Append(Rest(y, done), Ev(name))
      PROVE  Names(event_queue'[j]) \subseteq N
  <2>1. Names(Rest(y, done)) \subseteq Names(y)
    BY RestNames, SMTT(20), ZenonT(60), SMTT(30)
  <2>2. Ev(name) \in Event /\ Ev(name).name = name
    BY EvType, SMTT(20), ZenonT(60), SMTT(30) DEF EventName, Ev
  <2>3. Rest(y, done) \in Seq(Event)
    BY <2>2, RestAppend, SMTT(20), ZenonT(60), SMTT(30)
  <2>4. Names(Append(Rest(y, done), Ev(name))) = Names(Rest(y, done)) \cup {name}
    BY <2>2, <2>3, NamesAppend, ZenonT(60), SMTT(30)
  <2> QED
    BY <1>1, <2>1, <2>4, ZenonT(60), SMTT(30)
<1>2. CASE x.state \notin Ended
  <2>1. /\ Stable(x, job'[j]) /\ UNCHANGED housekept
        /\ \/ event_queue'[j] = Rest(y, done)
           \/ event_queue'[j] = Append(Rest(y, done), Ev("depend"))
    BY <1>2, ActionLive, SMTT(20), SMTT(30), SMTT(60)
  <2>2. ~ F
    BY <1>2, SMTT(20), ZenonT(60), SMTT(30) DEF Ended
  <2>3. Names(event_queue'[j]) \subseteq N
    BY <1>1, <2>1, SMTT(20), ZenonT(60), SMTT(30)
  <2> QED
    BY <2>1, <2>2, <2>3, ZenonT(60), SMTT(30) DEF Stable
<1>3. CASE x.state = "CLEANUP"
  <2>1. /\ job'[j].has_resources = x.has_resources
        /\ job'[j].free_posted <=> x.free_posted \/ Frees(x, y)
        /\ \/ event_queue'[j] = Rest(y, done)
           \/ event_queue'[j] = Append(Rest(y, done), Ev("free"))
           \/ event_queue'[j] = Append(Rest(y, done), Ev("clean"))
        /\ housekept' = IF Frees(x, y) /\ Housekeeping THEN housekept \cup {j} ELSE housekept
    BY <1>3, ActionCleanupIs, SMTT(20), SMTT(30), SMTT(60)
  <2>2. Names(event_queue'[j]) \subseteq N
    BY <1>1, <2>1, SMTT(20), ZenonT(60), SMTT(30)
  <2> QED
    BY <1>3, <2>1, <2>2, Zenon
<1>4. CASE x.state = "INACTIVE"
  <2>1. /\ job'[j] = [x EXCEPT !.eventlog_readonly = TRUE]
        /\ event_queue'[j] = Rest(y, done) /\ UNCHANGED housekept
    BY <1>4, ActionInactiveIs, SMTT(20), SMTT(30), SMTT(60)
  <2>2. Names(event_queue'[j]) \subseteq N
    BY <1>1, <2>1, SMTT(20), ZenonT(60), SMTT(30)
  <2>3. job'[j].has_resources = x.has_resources /\ job'[j].free_posted = x.free_posted
    BY <2>1, SMTT(20), ZenonT(60), SMTT(30) DEF StructJob
  <2> QED
    BY <1>4, <2>1, <2>2, <2>3, ZenonT(60), SMTT(30)
<1> QED
  BY <1>2, <1>3, <1>4, SMTT(20), ZenonT(60), SMTT(30) DEF Ended

\* An event that is processed: a job lets its resources go by handing them on.
LEMMA WorksLeak ==
  ASSUME Inv, LifeInv, LeakInv, NEW j \in Job, NEW x \in StructJob, NEW y \in Seq(Event),
         NEW ts, NEW done \in {0, 1}, Works(j, x, y, ts, done),
         UNCHANGED <<from_sched, scheduler, online>>
  PROVE  LeakInv'
<1> DEFINE F == x.state = "CLEANUP" /\ Frees(x, y)
           q == event_queue[j]
           r == job[j]
<1>1. /\ TypeOK /\ to_sched \in Seq(SchedRequest) /\ sched_alloc \subseteq Job
      /\ done <= Len(y) /\ event_job_action(j, x, y, ts, done)
      /\ UNCHANGED <<sched, sched_alloc, sched_commit, sched_fail>>
  BY SMTT(20), ZenonT(60), SMTT(30) DEF Inv, TypeOK, Works, scheduler
<1>2. /\ job'[j].has_resources = x.has_resources
      /\ job'[j].free_posted => x.free_posted \/ F
      /\ Names(event_queue'[j]) \subseteq Names(y) \cup {"depend", "free", "clean"}
      /\ housekept' = IF F /\ Housekeeping THEN housekept \cup {j} ELSE housekept
  BY <1>1, ActionKeeps, SMTT(20), SMTT(30), SMTT(60)
<1>3. /\ x.free_posted = r.free_posted
      /\ x.has_resources => r.has_resources \/ "alloc" \in Names(q)
      /\ r.has_resources \/ "alloc" \in Names(q) =>
           x.has_resources \/ "free" \in Names(q) \/ Restart \in Names(q)
      /\ Names(y) \subseteq Names(q) \cup {"dependency-add", "priority", "prolog-start", "epilog-start"}
  BY DEF Works, Follows, Untouched, Restart
<1>4. F => x.has_resources
  BY ZenonT(60), SMTT(30) DEF Frees
<1>5. Restart \notin Names(q) /\ ("free" \in Names(q) => r.free_posted)
  BY DEF LeakInv, LifeInv, FreedQuiet
<1>6. /\ Restart \notin Names(event_queue'[j])
      /\ "alloc" \in Names(event_queue'[j]) => "alloc" \in Names(q)
  BY <1>2, <1>3, <1>5, ZenonT(60), SMTT(30) DEF Restart
<1>7. ASSUME NEW k \in Job, k # j
      PROVE  job'[k] = job[k] /\ event_queue'[k] = event_queue[k]
  BY <1>1, <1>7, ActionOthers, ZenonT(60), SMTT(30) DEF Skips
<1>8. /\ \A M : Holds(to_sched, M) => Holds(to_sched', M)
      /\ FreeSent(x, y) => Holds(to_sched', FreesFor(j))
  <2>1. PICK us : /\ Cancelled(us)
                  /\ to_sched' = IF FreeSent(x, y) THEN Send(us, "free", {j}) ELSE us
    BY WorksSends, ZenonT(60), SMTT(30)
  <2>2. Extends(to_sched, us, {"cancel", "free"}) /\ us \in Seq(SchedRequest)
    BY <2>1, ExtendsMore, ZenonT(60), SMTT(30) DEF Cancelled, Extends
  <2>3. Extends(to_sched, Send(us, "free", {j}), {"cancel", "free"})
    BY <1>1, <2>2, ExtendsSend, ZenonT(60), SMTT(30)
  <2>4. Extends(to_sched, to_sched', {"cancel", "free"})
    BY <2>1, <2>2, <2>3, ZenonT(60), SMTT(30)
  <2>5. FreeSent(x, y) => Holds(to_sched', FreesFor(j))
    BY <2>1, <2>2, FreeHolds, ZenonT(60), SMTT(30)
  <2> QED
    BY <1>1, <2>4, <2>5, ExtendsKeeps, ZenonT(60), SMTT(30)
<1> HIDE DEF F, q, r
<1>9. /\ sched' # "ready" => sched # "ready" /\ sched_alloc' = {} /\ housekept' = {}
      /\ sched' # "ready" => \A k \in Job : Carries(k)
  <2> SUFFICES ASSUME sched # "ready"
               PROVE  housekept' = {} /\ \A k \in Job : Carries(k)
    BY <1>1, SMTT(20), ZenonT(60), SMTT(30) DEF LeakInv
  <2>1. ~ r.has_resources /\ "alloc" \notin Names(q) /\ housekept = {}
    BY DEF LeakInv, r, q
  <2>2. ~ x.has_resources
    BY <1>3, <2>1, ZenonT(60), SMTT(30)
  <2>3. Carries(j)
    BY <1>2, <1>6, <2>1, <2>2, ZenonT(60), SMTT(30) DEF Carries
  <2>4. \A k \in Job : k # j => Carries(k)
    BY <1>7, SMTT(20), ZenonT(60), SMTT(30) DEF Carries
  <2> QED
    BY <1>2, <1>4, <2>1, <2>2, <2>3, <2>4, ZenonT(60), SMTT(30)
<1>10. \A k \in Job : Restart \notin Names(event_queue'[k])
  BY <1>6, <1>7, ZenonT(60), SMTT(30) DEF LeakInv
<1>11. ASSUME online', NEW k \in sched_alloc' PROVE KeptNext(k)
  <2>1. k \in Job /\ Kept(k) /\ online
    BY <1>1, <1>11, ZenonT(60), SMTT(30) DEF LeakInv
  <2>2. Elsewhere(k, to_sched, from_sched, sched_commit, housekept)
          => Elsewhere(k, to_sched', from_sched', sched_commit', housekept')
    BY <1>1, <1>2, <1>8, ZenonT(60), SMTT(30) DEF Elsewhere
  <2>3. CASE k # j
    BY <1>7, <2>1, <2>2, <2>3, ZenonT(60), SMTT(30) DEF Kept, KeptNext
  <2>4. CASE k = j /\ Owns(r, q)
    <3>1. x.has_resources /\ ~ x.free_posted
      BY <1>3, <1>5, <2>4, ZenonT(60), SMTT(30) DEF Owns
    <3>2. CASE ~ F
      BY <1>2, <2>4, <3>1, <3>2, ZenonT(60), SMTT(20) DEF KeptNext, Owns
    <3>3. CASE F /\ Housekeeping
      BY <1>2, <2>4, <3>3, ZenonT(60), SMTT(30) DEF KeptNext, Elsewhere
    <3>4. CASE F /\ ~ Housekeeping
      <4>1. FreeSent(x, y)
        BY <2>1, <3>4, ZenonT(60), SMTT(30) DEF FreeSent, F
      <4> QED
        BY <1>8, <2>4, <4>1, ZenonT(60), SMTT(30) DEF KeptNext, Elsewhere
    <3> QED
      BY <3>2, <3>3, <3>4, ZenonT(60), SMTT(30)
  <2> QED
    BY <2>1, <2>2, <2>3, <2>4, ZenonT(60), SMTT(30) DEF Kept, KeptNext, r, q
<1>12. sched_fail' = {}
  BY <1>1, ZenonT(60), SMTT(30) DEF LeakInv
<1> QED
  BY <1>9, <1>10, <1>11, <1>12, LeakNext, ZenonT(60), SMTT(30)

\* An entry that event_job_process_entry refuses is no alloc event.
LEMMA RefusedLeak ==
  ASSUME Inv, LifeInv, LeakInv, NEW j \in Job, Process(j),
         EntryRefused(job[j], Head(event_queue[j]))
  PROVE  LeakInv'
<1>1. /\ event_queue' = [event_queue EXCEPT ![j] = << >>]
      /\ UNCHANGED <<job, housekept, to_sched, from_sched, scheduler, online>>
  BY ZenonT(60), SMTT(30) DEF Process
<1>2. /\ event_queue \in [Job -> Seq(Event)] /\ event_queue[j] # << >>
      /\ sched_alloc \subseteq Job
  BY DEF Process, Busy, Inv, TypeOK
<1>3. "alloc" \notin Names(event_queue[j])
  <2> DEFINE q == event_queue[j]
  <2>1. Head(q).name # "alloc"
    BY DEF EntryRefused, PerilogOverflow, FatalException
  <2>2. Names(q) = {Head(q).name} \cup Names(Tail(q))
    BY <1>2, NamesTail, ZenonT(60), SMTT(30)
  <2>3. "alloc" \in Names(q) => Names(Tail(q)) = {}
    BY <1>2, NamesSingle, ZenonT(60), SMTT(30) DEF LifeInv, EventsFit
  <2> QED
    BY <2>1, <2>2, <2>3, ZenonT(60), SMTT(30)
<1>4. Names(<< >>) = {}
  BY NamesNone, ZenonT(60), SMTT(30)
<1>5. \A k \in Job : Settled(k)
  BY <1>1, <1>2, <1>3, <1>4, ZenonT(60), SMTT(30) DEF Settled
<1> QED
  BY <1>1, <1>2, <1>5, SettledLeak, ZenonT(60), SMTT(30) DEF scheduler, LeakInv

\* The event machinery keeps LeakInv.
LEMMA MachineLeak ==
  ASSUME Inv, LifeInv, LeakInv, NEW j \in Job, Process(j) \/ Act(j)
  PROVE  LeakInv'
<1>1. UNCHANGED <<from_sched, scheduler, online>>
  BY DEF Process, Act
<1>2. CASE Act(j)
  BY <1>1, <1>2, ActWorks, WorksLeak, ZenonT(60), SMTT(30) DEF Inv, TypeOK
<1>3. CASE Process(j) /\ ~ EntryRefused(job[j], Head(event_queue[j]))
  BY <1>1, <1>3, ProcessWorks, WorksLeak, ZenonT(60), SMTT(30)
<1>4. CASE Process(j) /\ EntryRefused(job[j], Head(event_queue[j]))
  BY <1>4, RefusedLeak, ZenonT(60), SMTT(30)
<1> QED
  BY <1>2, <1>3, <1>4, ZenonT(60), SMTT(30)

-----------------------------------------------------------------------------
(* The other handlers *)

\* A step that changes no flag of job k that says what it has.
SameHold(k) == /\ job'[k].has_resources = job[k].has_resources
               /\ job'[k].free_posted = job[k].free_posted

\* A handler that posts an event to job j which is neither alloc nor Restart.
LEMMA PostSettled ==
  ASSUME TypeOK, NEW j \in Job, NEW e \in Event, e.name \notin {"alloc", Restart},
         Post(j, e) \/ UNCHANGED event_queue, \A k \in Job : SameHold(k)
  PROVE  \A k \in Job : Settled(k)
<1>1. ASSUME NEW k \in Job
      PROVE  \/ Names(event_queue'[k]) = Names(event_queue[k])
             \/ Names(event_queue'[k]) = Names(event_queue[k]) \cup {e.name}
  BY PostNames, ZenonT(60), SMTT(30)
<1> QED
  BY <1>1, ZenonT(60), SMTT(30) DEF Settled, SameHold

\* A handler that posts none.
LEMMA StillSettled ==
  ASSUME UNCHANGED event_queue, \A k \in Job : SameHold(k)
  PROVE  \A k \in Job : Settled(k)
  BY DEF Settled, SameHold

\* Users' requests and plugins.
LEMMA RequestSettled ==
  ASSUME Inv, LifeInv, NEW j \in Job,
         \/ Submit(j) \/ RaiseRequest(j) \/ UrgencyRequest(j) \/ UpdateRequest(j)
         \/ DependencyRemove(j) \/ PrologFinish(j) \/ EpilogFinish(j) \/ Reprioritize(j)
  PROVE  \A k \in Job : Settled(k)
<1>1. TypeOK /\ job \in [Job -> StructJob] /\ event_queue \in [Job -> Seq(Event)]
  BY ZenonT(60), SMTT(30) DEF Inv, TypeOK
<1>2. CASE Submit(j)
  <2>1. PICK u \in UserUrgency, n \in DependCount :
          job' = [job EXCEPT ![j] = [@ EXCEPT !.urgency = u,
                                              !.dependencies = n,
                                              !.hold_events = TRUE]]
    BY <1>2, ZenonT(60) DEF Submit
  <2>2. ASSUME NEW k \in Job PROVE SameHold(k)
    BY <1>1, <2>1, ZenonT(60), SMTT(30) DEF SameHold, StructJob
  <2>3. event_queue' = [event_queue EXCEPT ![j] = <<Ev("validate")>>] /\ event_queue[j] = << >>
    BY <1>2, ZenonT(60), SMTT(20) DEF Submit, LifeInv, Known
  <2>4. Names(<<Ev("validate")>>) = {"validate"} /\ Names(<< >>) = {}
    BY DEF Names, Ev
  <2> QED
    BY <1>1, <2>2, <2>3, <2>4, ZenonT(60), SMTT(30) DEF Settled, SameHold, Restart
<1>3. CASE UrgencyRequest(j)
  <2>1. PICK u \in UserUrgency : Post(j, [name |-> "urgency", arg |-> u])
    BY <1>3, SMTT(20), ZenonT(60), SMTT(30) DEF UrgencyRequest, PostOnly
  <2>2. [name |-> "urgency", arg |-> u] \in Event
    BY PluginAssumption, ZenonT(60), SMTT(30) DEF Event
  <2>3. \A k \in Job : SameHold(k)
    BY <1>3, SMTT(20), ZenonT(60), SMTT(30) DEF UrgencyRequest, PostOnly, SameHold
  <2> QED
    BY <1>1, <2>1, <2>2, <2>3, PostSettled, ZenonT(60), SMTT(30) DEF Restart
<1>4. CASE RaiseRequest(j) \/ UpdateRequest(j) \/ DependencyRemove(j) \/ PrologFinish(j) \/ EpilogFinish(j)
  <2>1. PICK name \in {"exception", "memo", "jobspec-update", "dependency-remove",
                       "prolog-finish", "epilog-finish"} : Post(j, Ev(name))
    BY <1>4, ZenonT(60), SMTT(30) DEF RaiseRequest, UpdateRequest, DependencyRemove, PrologFinish,
       EpilogFinish, PostOnly
  <2>2. Ev(name) \in Event /\ Ev(name).name \notin {"alloc", Restart}
    BY EvType DEF EventName, FatalException, Ev, Restart
  <2>3. \A k \in Job : SameHold(k)
    BY <1>4, ZenonT(60) DEF RaiseRequest, UpdateRequest, DependencyRemove, PrologFinish, EpilogFinish,
       PostOnly, SameHold
  <2> QED
    BY <1>1, <2>1, <2>2, <2>3, PostSettled, ZenonT(60), SMTT(30)
<1>5. CASE Reprioritize(j)
  <2>1. PICK p \in PluginPriority :
          LET r == [job[j] EXCEPT !.priority = Prioritized(job[j], p)]
          IN Post(j, PriorityEvent(r)) /\ job' = [job EXCEPT ![j] = r]
    BY <1>5, ZenonT(60), SMTT(30) DEF Reprioritize
  <2> DEFINE r == [job[j] EXCEPT !.priority = Prioritized(job[j], p)]
  <2>2. /\ PriorityEvent(r) \in Event /\ PriorityEvent(r).name \notin {"alloc", Restart}
        /\ r.has_resources = job[j].has_resources /\ r.free_posted = job[j].free_posted
    <3>1. PriorityEvent(r) \in Event
      BY <1>1, PrioritizedType, SMTT(20), ZenonT(60), SMTT(30)
    <3> QED
      BY <1>1, <3>1, SMTT(20), ZenonT(60), SMTT(30) DEF PriorityEvent, Restart, StructJob
  <2>3. Post(j, PriorityEvent(r)) /\ job' = [job EXCEPT ![j] = r]
    BY <2>1, SMTT(20), ZenonT(60), SMTT(30)
  <2> HIDE DEF r
  <2>4. \A k \in Job : SameHold(k)
    BY <1>1, <2>2, <2>3, SMTT(20), ZenonT(60), SMTT(30) DEF SameHold
  <2> QED
    BY <1>1, <2>2, <2>3, <2>4, PostSettled, ZenonT(60), SMTT(30)
<1> QED
  BY <1>2, <1>3, <1>4, <1>5, ZenonT(60), SMTT(30)

\* The exec service.
LEMMA ExecSettled ==
  ASSUME Inv, NEW j \in Job,
         \/ ExecStart(j) \/ ExecException(j) \/ ExecAbort(j) \/ ExecFinish(j)
         \/ ExecRelease(j) \/ ExecError(j)
  PROVE  \A k \in Job : Settled(k)
<1>1. TypeOK /\ job \in [Job -> StructJob]
  BY DEF Inv, TypeOK
<1>2. CASE ExecStart(j) \/ ExecException(j) \/ ExecFinish(j) \/ ExecRelease(j)
  <2>1. PICK name \in {"start", "exception", "finish", "release"} :
          \E p : StartResponse(j, p, Ev(name))
    BY <1>2, ZenonT(60) DEF ExecStart, ExecException, ExecFinish, ExecRelease
  <2>2. Ev(name) \in Event /\ Ev(name).name \notin {"alloc", Restart}
    BY EvType, SMTT(20), ZenonT(60), SMTT(30) DEF EventName, FatalException, Ev, Restart
  <2>3. /\ Post(j, Ev(name)) \/ UNCHANGED event_queue
        /\ job' = job \/ job' = [job EXCEPT ![j].start_pending = FALSE]
    BY <2>1, ZenonT(60) DEF StartResponse
  <2>4. ASSUME NEW k \in Job PROVE SameHold(k)
    <3>1. CASE job' = job
      BY <3>1, ZenonT(60), SMTT(30) DEF SameHold
    <3>2. CASE job' = [job EXCEPT ![j].start_pending = FALSE]
      <4>1. job[k] \in StructJob
        BY <1>1, ZenonT(60), SMTT(30)
      <4>2. job'[k] = job[k] \/ job'[k] = [job[k] EXCEPT !.start_pending = FALSE]
        BY <1>1, <3>2, ZenonT(60), SMTT(30)
      <4> QED
        BY <4>1, <4>2, SMTT(20), SMTT(30), SMTT(60) DEF SameHold, StructJob
    <3> QED
      BY <2>3, <3>1, <3>2, ZenonT(60), SMTT(30)
  <2> QED
    BY <1>1, <2>2, <2>3, <2>4, PostSettled, ZenonT(60), SMTT(30)
<1>3. CASE ExecAbort(j)
  BY <1>3, StillSettled, SMTT(20), ZenonT(60), SMTT(30) DEF ExecAbort, manager, SameHold
<1>4. CASE ExecError(j)
  <2>1. ASSUME NEW k \in Job PROVE SameHold(k)
    BY <1>1, <1>4, ZenonT(60), SMTT(30) DEF ExecError, SameHold, StructJob
  <2> QED
    BY <1>4, <2>1, StillSettled, ZenonT(60), SMTT(30) DEF ExecError
<1> QED
  BY <1>2, <1>3, <1>4, ZenonT(60), SMTT(30)

\* The commands and timers, and the requests to the scheduler.
LEMMA CommandSettled ==
  ASSUME Inv, NEW j \in Job,
         \/ BatchTimeout \/ CommitDone \/ QueueStop \/ QueueStart \/ ExecHello \/ ExecUnload
         \/ HousekeepingDone(j) \/ AllocRequest(j) \/ UNCHANGED vars
  PROVE  \A k \in Job : Settled(k)
<1>1. UNCHANGED event_queue
  BY ZenonT(60) DEF BatchTimeout, CommitDone, QueueStop, QueueStart, ExecHello, ExecUnload, HousekeepingDone,
     AllocRequest, vars, manager
<1>2. ASSUME NEW k \in Job PROVE SameHold(k)
  <2>0. job[k] \in StructJob /\ job \in [Job -> StructJob]
    BY DEF Inv, TypeOK
  <2>1. CASE CommitDone
    BY <2>0, <2>1 DEF CommitDone, SameHold, StructJob
  <2>2. CASE QueueStop
    BY <2>0, <2>2, ZenonT(60), SMTT(30) DEF QueueStop, SameHold, StructJob
  <2>3. CASE QueueStart
    BY <2>0, <2>3, ZenonT(60), SMTT(30) DEF QueueStart, SameHold, StructJob
  <2>4. CASE AllocRequest(j)
    BY <2>0, <2>4 DEF AllocRequest, SameHold, StructJob
  <2>5. CASE BatchTimeout \/ ExecHello \/ ExecUnload \/ HousekeepingDone(j) \/ UNCHANGED vars
    BY <2>5, ZenonT(60) DEF BatchTimeout, ExecHello, ExecUnload, HousekeepingDone, manager, vars, SameHold
  <2> QED
    BY <2>1, <2>2, <2>3, <2>4, <2>5, ZenonT(60), SMTT(30)
<1> QED
  BY <1>1, <1>2, StillSettled, ZenonT(60), SMTT(30)

\* The scheduler's answers, but for AllocSuccess.
LEMMA AnswerSettled ==
  ASSUME Inv, NEW j \in Job,
         \/ AllocUnwanted(j) \/ AllocExists(j) \/ AllocDeny(j) \/ AllocCancel(j) \/ AllocError(j)
  PROVE  \A k \in Job : Settled(k)
<1>1. TypeOK
  BY DEF Inv
<1>2. ASSUME NEW k \in Job PROVE SameHold(k)
  <2>0. job[k] \in StructJob /\ job \in [Job -> StructJob]
    BY DEF Inv, TypeOK
  <2>1. ASSUME NEW J, RequeuePending(J) PROVE SameHold(k)
    BY <2>0, <2>1, ZenonT(60) DEF RequeuePending, StructJob, SameHold
  <2>2. CASE job' = [job EXCEPT ![j].alloc_pending = FALSE]
    BY <2>0, <2>2, ZenonT(60), SMTT(30) DEF StructJob, SameHold
  <2>3. CASE job' = job
    BY <2>3 DEF SameHold
  <2>4. \/ \E J : RequeuePending(J)
        \/ job' = [job EXCEPT ![j].alloc_pending = FALSE]
        \/ job' = job
    BY ZenonT(60) DEF AllocUnwanted, AllocExists, AllocDeny, AllocCancel, AllocError, AllocTeardown
  <2> QED
    BY <2>1, <2>2, <2>3, <2>4, ZenonT(60), SMTT(30)
<1>3. CASE AllocDeny(j)
  <2>1. Ev("exception") \in Event /\ Ev("exception").name \notin {"alloc", Restart}
    BY EvType DEF EventName, FatalException, Ev, Restart
  <2>2. Post(j, Ev("exception")) \/ UNCHANGED event_queue
    BY <1>3, ZenonT(60), SMTT(30) DEF AllocDeny
  <2> QED
    BY <1>1, <1>2, <2>1, <2>2, PostSettled, ZenonT(60), SMTT(30)
<1>4. CASE AllocUnwanted(j) \/ AllocExists(j) \/ AllocCancel(j) \/ AllocError(j)
  BY <1>2, <1>4, StillSettled, ZenonT(60), SMTT(30) DEF AllocUnwanted, AllocExists, AllocCancel, AllocError
<1> QED
  BY <1>3, <1>4

\* The handlers that leave the allocations where they are.
LEMMA HandlerLeak ==
  ASSUME Inv, LifeInv, SchedInv, LeakInv, NEW j \in Job,
         \/ Submit(j) \/ RaiseRequest(j) \/ UrgencyRequest(j) \/ UpdateRequest(j)
         \/ DependencyRemove(j) \/ PrologFinish(j) \/ EpilogFinish(j) \/ Reprioritize(j)
         \/ ExecStart(j) \/ ExecException(j) \/ ExecAbort(j) \/ ExecFinish(j)
         \/ ExecRelease(j) \/ ExecError(j)
         \/ BatchTimeout \/ CommitDone \/ QueueStop \/ QueueStart \/ ExecHello \/ ExecUnload
         \/ AllocRequest(j) \/ UNCHANGED vars
  PROVE  LeakInv'
<1>1. \A k \in Job : Settled(k)
  BY RequestSettled, ExecSettled, CommandSettled, ZenonT(60), SMTT(30)
<1>2. /\ TypeOK /\ to_sched \in Seq(SchedRequest) /\ sched_alloc \subseteq Job /\ sched_fail = {}
  BY DEF Inv, TypeOK, LeakInv
<1>3. UNCHANGED <<scheduler, from_sched, online, housekept>>
  <2> USE DEF scheduler, channels
  <2>1. CASE \/ Submit(j) \/ BatchTimeout \/ CommitDone \/ QueueStop \/ QueueStart \/ ExecHello
             \/ ExecUnload \/ AllocRequest(j) \/ Reprioritize(j) \/ UNCHANGED vars
    BY <2>1, ZenonT(60) DEF Submit, BatchTimeout, CommitDone, QueueStop, QueueStart, ExecHello,
       ExecUnload, AllocRequest, Reprioritize, manager, vars
  <2>2. CASE \/ RaiseRequest(j) \/ UrgencyRequest(j) \/ UpdateRequest(j) \/ DependencyRemove(j)
             \/ PrologFinish(j) \/ EpilogFinish(j)
    BY <2>2, ZenonT(60) DEF RaiseRequest, UrgencyRequest, UpdateRequest, DependencyRemove,
       PrologFinish, EpilogFinish, PostOnly
  <2>3. CASE \/ ExecStart(j) \/ ExecException(j) \/ ExecAbort(j) \/ ExecFinish(j)
             \/ ExecRelease(j) \/ ExecError(j)
    BY <2>3, ZenonT(60) DEF ExecStart, ExecException, ExecAbort, ExecFinish, ExecRelease,
       ExecError, StartResponse, manager
  <2> QED
    BY <2>1, <2>2, <2>3, ZenonT(60), SMTT(30)
<1>4. \E T : Extends(to_sched, to_sched', T)
  <2>1. CASE AllocRequest(j)
    <3>1. to_sched' = Send(to_sched, "alloc", {j})
      BY <2>1, ZenonT(60), SMTT(30) DEF AllocRequest
    <3>2. Extends(to_sched, to_sched', {"alloc"})
      BY <1>2, <3>1, ExtendsSelf, ExtendsSend, ZenonT(60), SMTT(30)
    <3> QED
      BY <3>2
  <2>2. CASE ~ AllocRequest(j)
    <3>1. Undisturbed
      BY <2>2, OtherSched, CommandSched, ZenonT(60), SMTT(30)
    <3> QED
      BY <3>1, ZenonT(60), SMTT(30) DEF Undisturbed
  <2> QED
    BY <2>1, <2>2, ZenonT(60), SMTT(30)
<1>5. \A M : Holds(to_sched, M) => Holds(to_sched', M)
  BY <1>2, <1>4, ExtendsKeeps, ZenonT(60), SMTT(30)
<1>6. ASSUME NEW k, Elsewhere(k, to_sched, from_sched, sched_commit, housekept)
      PROVE  Elsewhere(k, to_sched', from_sched', sched_commit', housekept')
  BY <1>3, <1>5, <1>6, ZenonT(60), SMTT(30) DEF Elsewhere, scheduler
<1> QED
  BY <1>1, <1>2, <1>3, <1>6, SettledLeak, ZenonT(60), SMTT(30) DEF scheduler

\* allocation_release sends the free request of a job that housekeeping had.
LEMMA HousekeepingLeak ==
  ASSUME Inv, LeakInv, NEW j \in Job, HousekeepingDone(j)
  PROVE  LeakInv'
<1>1. \A k \in Job : Settled(k)
  BY CommandSettled, ZenonT(60), SMTT(30)
<1>2. /\ to_sched \in Seq(SchedRequest) /\ sched_alloc \subseteq Job /\ sched_fail = {}
  BY DEF Inv, TypeOK, LeakInv
<1>3. /\ UNCHANGED <<scheduler, from_sched, online>> /\ housekept' = housekept \ {j}
      /\ online => to_sched' = Send(to_sched, "free", {j})
  BY DEF HousekeepingDone, alloc_send_free_request
<1>4. ASSUME online PROVE /\ Holds(to_sched', FreesFor(j))
                          /\ \A M : Holds(to_sched, M) => Holds(to_sched', M)
  <2>1. Extends(to_sched, to_sched', {"free"})
    BY <1>2, <1>3, <1>4, ExtendsSelf, ExtendsSend, ZenonT(60), SMTT(30)
  <2> QED
    BY <1>2, <1>3, <1>4, <2>1, ExtendsKeeps, FreeHolds, ZenonT(60), SMTT(30)
<1>5. ASSUME online', NEW k, Elsewhere(k, to_sched, from_sched, sched_commit, housekept)
      PROVE  Elsewhere(k, to_sched', from_sched', sched_commit', housekept')
  BY <1>3, <1>4, <1>5, ZenonT(60), SMTT(30) DEF Elsewhere, scheduler
<1> QED
  BY <1>1, <1>2, <1>3, <1>5, SettledLeak, ZenonT(60), SMTT(30) DEF scheduler

-----------------------------------------------------------------------------
(* The scheduler *)

\* What is left in the channel when a response of type t has been taken.
LEMMA TakenHolds ==
  ASSUME TypeOK, NEW j \in Job, NEW t, Response(j, t), NEW k \in Job,
         Holds(from_sched, Success(k))
  PROVE  Holds(from_sched', Success(k)) \/ (k = j /\ t = "success")
<1>1. /\ from_sched \in Seq(SchedResponse) /\ from_sched # << >>
      /\ from_sched' = Tail(from_sched) /\ Head(from_sched) = [type |-> t, id |-> j]
  BY DEF Response, TypeOK
<1>2. Head(from_sched) \in Success(k) => k = j /\ t = "success"
  BY <1>1 DEF Success
<1> QED
  BY <1>1, <1>2, TailHolds, ZenonT(60), SMTT(30)

\* An answer that gives the job no resources.
LEMMA AnswerLeak ==
  ASSUME Inv, SchedInv, LeakInv, NEW j \in Job,
         \/ AllocUnwanted(j) \/ AllocExists(j) \/ AllocDeny(j) \/ AllocCancel(j) \/ AllocError(j)
  PROVE  LeakInv'
<1>1. \A k \in Job : Settled(k)
  BY AnswerSettled, ZenonT(60), SMTT(30)
<1>2. /\ TypeOK /\ to_sched \in Seq(SchedRequest) /\ sched_alloc \subseteq Job /\ sched_fail = {}
  BY DEF Inv, TypeOK, LeakInv
<1>3. /\ UNCHANGED <<scheduler, housekept>> /\ (online' => online)
      /\ to_sched' = to_sched \/ to_sched' = Send(to_sched, "free", {j})
  <2>1. UNCHANGED <<scheduler, housekept>>
    BY ZenonT(60) DEF AllocUnwanted, AllocExists, AllocDeny, AllocCancel, AllocError, Response
  <2>2. online' => online
    BY ZenonT(60) DEF AllocUnwanted, AllocExists, AllocDeny, AllocCancel, AllocError, AllocTeardown
  <2>3. to_sched' = to_sched \/ to_sched' = Send(to_sched, "free", {j})
    BY ZenonT(60) DEF AllocUnwanted, AllocExists, AllocDeny, AllocCancel, AllocError
  <2> QED
    BY <2>1, <2>2, <2>3, ZenonT(60), SMTT(30)
<1>4. \A M : Holds(to_sched, M) => Holds(to_sched', M)
  <2>1. Extends(to_sched, to_sched', {"free"})
    BY <1>2, <1>3, ExtendsSelf, ExtendsSend, ZenonT(60), SMTT(20)
  <2> QED
    BY <1>2, <2>1, ExtendsKeeps, ZenonT(60), SMTT(30)
<1>5. ASSUME online', NEW k \in Job, Holds(from_sched, Success(k))
      PROVE  Holds(from_sched', Success(k)) \/ Holds(to_sched', FreesFor(k))
  <2>1. CASE AllocUnwanted(j)
    BY <1>2, <1>5, <2>1, TakenHolds, FreeHolds, ZenonT(60), SMTT(30) DEF AllocUnwanted
  <2>2. CASE AllocDeny(j) \/ AllocCancel(j)
    <3>1. Response(j, "deny") \/ Response(j, "cancel")
      BY <2>2 DEF AllocDeny, AllocCancel
    <3>2. "deny" # "success" /\ "cancel" # "success"
      OBVIOUS
    <3> QED
      BY <1>2, <1>5, <3>1, <3>2, TakenHolds, ZenonT(60), SMTT(30)
  <2>3. CASE AllocExists(j) \/ AllocError(j)
    <3>1. ~ online'
      BY <2>3, ZenonT(60), SMTT(30) DEF AllocExists, AllocError, AllocTeardown
    <3> QED
      BY <1>5, <3>1, ZenonT(60), SMTT(30)
  <2> QED
    BY <2>1, <2>2, <2>3, ZenonT(60), SMTT(30)
<1>6. ASSUME online', NEW k \in Job, Elsewhere(k, to_sched, from_sched, sched_commit, housekept)
      PROVE  Elsewhere(k, to_sched', from_sched', sched_commit', housekept')
  BY <1>3, <1>4, <1>5, <1>6, ZenonT(60), SMTT(30) DEF Elsewhere, scheduler
<1> QED
  BY <1>1, <1>2, <1>3, <1>6, SettledLeak, ZenonT(60), SMTT(30) DEF scheduler

\* The answer that does: the alloc event takes over from the response.
LEMMA SuccessLeak ==
  ASSUME Inv, LifeInv, SchedInv, LeakInv, NEW j \in Job, AllocSuccess(j)
  PROVE  LeakInv'
<1>1. /\ TypeOK /\ job \in [Job -> StructJob] /\ event_queue \in [Job -> Seq(Event)]
      /\ sched_alloc \subseteq Job /\ sched_fail = {}
  BY DEF Inv, TypeOK, LeakInv
<1>2. /\ UNCHANGED <<scheduler, housekept, online, to_sched>> /\ from_sched # << >>
      /\ Response(j, "success") /\ j \in active /\ job[j].alloc_pending /\ Post(j, Ev("alloc"))
      /\ job' = [job EXCEPT ![j].R = TRUE, ![j].alloc_pending = FALSE]
  BY DEF AllocSuccess, Response, AllocPending
<1>3. sched = "ready"
  BY <1>2 DEF SchedInv, Service
<1>4. /\ event_queue'[j] = Append(event_queue[j], Ev("alloc"))
      /\ \A k \in Job \ {j} : event_queue'[k] = event_queue[k]
  BY <1>1, <1>2, PostActive, ZenonT(60), SMTT(30)
<1>5. Names(event_queue'[j]) = Names(event_queue[j]) \cup {"alloc"}
  <2>1. Ev("alloc") \in Event /\ Ev("alloc").name = "alloc"
    BY EvType DEF EventName, Ev
  <2> QED
    BY <1>1, <1>4, <2>1, NamesAppend, ZenonT(60), SMTT(30)
<1>6. ASSUME NEW k \in Job PROVE Restart \notin Names(event_queue'[k])
  <2>1. Restart \notin Names(event_queue[k]) /\ Restart # "alloc"
    BY DEF LeakInv, Restart
  <2> QED
    BY <1>4, <1>5, <2>1, ZenonT(60), SMTT(20)
<1>7. ~ job'[j].free_posted
  <2>1. ~ job[j].free_posted
    BY <1>2, ZenonT(60), SMTT(30) DEF LifeInv, EventsFit, FreedQuiet, Ended
  <2> QED
    BY <1>1, <1>2, <2>1, ZenonT(60), SMTT(30) DEF StructJob
<1>8. KeptNext(j)
  BY <1>5, <1>7, ZenonT(60), SMTT(30) DEF KeptNext, Owns
<1>9. ASSUME NEW k \in sched_alloc, Kept(k), k # j PROVE KeptNext(k)
  <2>1. k \in Job /\ job'[k] = job[k] /\ event_queue'[k] = event_queue[k]
    BY <1>1, <1>2, <1>4, <1>9, ZenonT(60), SMTT(30)
  <2>2. Holds(from_sched, Success(k)) => Holds(from_sched', Success(k))
    BY <1>1, <1>2, <1>9, <2>1, TakenHolds, ZenonT(60), SMTT(30)
  <2> QED
    BY <1>2, <1>9, <2>1, <2>2, ZenonT(60), SMTT(30) DEF Kept, KeptNext, Elsewhere, scheduler
<1>10. online' => \A k \in sched_alloc' : KeptNext(k)
  BY <1>2, <1>8, <1>9, ZenonT(60), SMTT(30) DEF LeakInv, scheduler
<1> QED
  BY <1>1, <1>2, <1>3, <1>6, <1>10, LeakNext, ZenonT(60), SMTT(30) DEF scheduler

\* The scheduler's own steps hand allocations on.
LEMMA PartnerLeak ==
  ASSUME Inv, SchedInv, LeakInv, NEW j \in Job,
         \/ SchedAllocCb(j) \/ SchedAllocError(j) \/ SchedCancelCb(j) \/ SchedFreeCb(j)
         \/ SchedTryAlloc(j) \/ SchedCommitDone(j)
  PROVE  LeakInv'
<1>1. UNCHANGED <<job, event_queue, housekept, online, sched, sched_fail>>
  BY ZenonT(60) DEF SchedAllocCb, SchedAllocError, SchedCancelCb, SchedFreeCb, Receive, SchedTryAlloc,
     SchedCommitDone, manager
<1>2. \A k \in Job : Settled(k)
  BY <1>1, StillSettled, ZenonT(60), SMTT(30) DEF SameHold
<1>3. /\ TypeOK /\ from_sched \in Seq(SchedResponse) /\ sched_alloc \subseteq Job /\ sched_fail = {}
  BY DEF Inv, TypeOK, LeakInv
<1>4. ASSUME NEW type \in {"success", "deny", "cancel", "error"}, Respond(type, j)
      PROVE  /\ \A M : Holds(from_sched, M) => Holds(from_sched', M)
             /\ type = "success" => Holds(from_sched', Success(j))
  <2>1. [type |-> type, id |-> j] \in SchedResponse
    BY ZenonT(60), SMTT(30) DEF SchedResponse
  <2>2. \A M : Holds(from_sched', M) <=> Holds(from_sched, M) \/ [type |-> type, id |-> j] \in M
    <3>1. from_sched' = Append(from_sched, [type |-> type, id |-> j])
      BY <1>4, ZenonT(60), SMTT(30) DEF Respond
    <3> QED
      BY <1>3, <2>1, <3>1, AppendHolds, SMTT(20), SMTT(30), SMTT(60)
  <2> QED
    BY <2>2, ZenonT(60), SMTT(30) DEF Success
<1>5. CASE SchedAllocCb(j) \/ SchedAllocError(j) \/ SchedCancelCb(j) \/ SchedFreeCb(j)
  <2>1. PICK type \in {"alloc", "cancel", "free"} :
          /\ Receive(type, j) /\ UNCHANGED sched_commit
          /\ sched_alloc' = IF type = "free" THEN sched_alloc \ {j} ELSE sched_alloc
    BY <1>5, ZenonT(60), SMTT(30) DEF SchedAllocCb, SchedAllocError, SchedCancelCb, SchedFreeCb, Receive
  <2>2. \/ UNCHANGED from_sched
        \/ \E t \in {"success", "deny", "cancel", "error"} : Respond(t, j)
    BY <1>5 DEF SchedAllocCb, SchedAllocError, SchedCancelCb, SchedFreeCb
  <2>3. ASSUME NEW k \in sched_alloc', Holds(to_sched, FreesFor(k)) PROVE Holds(to_sched', FreesFor(k))
    <3>1. k \in Job /\ ("free" # type \/ k # j)
      BY <1>3, <2>1, <2>3, ZenonT(60), SMTT(30)
    <3> QED
      BY <1>3, <2>1, <2>3, <3>1, ReceiveHolds, ZenonT(60), SMTT(30) DEF FreesFor
  <2>4. ASSUME NEW k \in sched_alloc', Elsewhere(k, to_sched, from_sched, sched_commit, housekept)
        PROVE  Elsewhere(k, to_sched', from_sched', sched_commit', housekept')
    BY <1>1, <1>4, <2>1, <2>2, <2>3, <2>4, ZenonT(60), SMTT(30) DEF Elsewhere
  <2> QED
    BY <1>1, <1>2, <1>3, <2>1, <2>4, SettledLeak, ZenonT(60), SMTT(30)
<1>6. CASE SchedCommitDone(j)
  <2>1. /\ UNCHANGED <<to_sched, sched_alloc>> /\ sched_commit' = sched_commit \ {j}
        /\ Respond("success", j)
    BY <1>6 DEF SchedCommitDone
  <2>2. ASSUME NEW k \in sched_alloc', Elsewhere(k, to_sched, from_sched, sched_commit, housekept)
        PROVE  Elsewhere(k, to_sched', from_sched', sched_commit', housekept')
    BY <1>1, <1>4, <2>1, <2>2, ZenonT(60), SMTT(30) DEF Elsewhere
  <2> QED
    BY <1>1, <1>2, <1>3, <2>1, <2>2, SettledLeak, ZenonT(60), SMTT(20)
<1>7. CASE SchedTryAlloc(j)
  <2>1. /\ UNCHANGED to_sched /\ j \in sched_queue
        /\ \/ /\ sched_alloc' = sched_alloc \cup {j} /\ sched_commit' = sched_commit \cup {j}
              /\ UNCHANGED from_sched
           \/ UNCHANGED <<sched_alloc, sched_commit>> /\ Respond("deny", j)
    BY <1>7, ZenonT(60), SMTT(30) DEF SchedTryAlloc
  <2>2. ASSUME NEW k, Elsewhere(k, to_sched, from_sched, sched_commit, housekept)
        PROVE  Elsewhere(k, to_sched', from_sched', sched_commit', housekept')
    BY <1>1, <1>4, <2>1, <2>2, ZenonT(60), SMTT(30) DEF Elsewhere
  <2>3. sched = "ready"
    BY <2>1, ZenonT(60), SMTT(30) DEF SchedInv, Service
  <2>4. \A k \in Job : Restart \notin Names(event_queue'[k])
    BY <1>1, ZenonT(60), SMTT(30) DEF LeakInv
  <2>5. ASSUME online', NEW k \in sched_alloc' PROVE KeptNext(k)
    <3>1. CASE k \in sched_alloc
      BY <1>1, <2>2, <2>5, <3>1, ZenonT(60), SMTT(20) DEF LeakInv, Kept, KeptNext
    <3>2. CASE k \notin sched_alloc
      BY <2>1, <2>5, <3>2, ZenonT(60), SMTT(20) DEF KeptNext, Elsewhere
    <3> QED
      BY <3>1, <3>2, ZenonT(60), SMTT(30)
  <2> QED
    BY <1>1, <1>3, <2>3, <2>4, <2>5, LeakNext, ZenonT(60), SMTT(30)
<1> QED
  BY <1>5, <1>6, <1>7, ZenonT(60), SMTT(30)

\* A scheduler that greets for the first time finds no resources in use.
LEMMA ServiceLeak ==
  ASSUME Inv, LeakInv, SchedHello \/ SchedReady
  PROVE  LeakInv'
<1>1. sched # "ready" /\ UNCHANGED <<job, event_queue, housekept>>
  BY DEF SchedHello, SchedReady, manager
<1>2. sched_alloc = {} /\ housekept = {} /\ sched_fail = {}
  BY <1>1 DEF LeakInv
<1>3. sched_alloc' = {} /\ sched_fail' = {}
  <2>1. CASE SchedHello
    <3>1. Held = {}
      BY <1>1, <1>2, ZenonT(60), SMTT(30) DEF Held, LeakInv, Inv, TypeOK
    <3>2. PICK F \in SUBSET Held : sched_alloc' = Held \ F /\ sched_fail' = F
      BY <2>1, ZenonT(60), SMTT(30) DEF SchedHello
    <3> QED
      BY <3>1, <3>2, ZenonT(60), SMTT(30)
  <2>2. CASE SchedReady
    BY <1>2, <2>2, ZenonT(60), SMTT(30) DEF SchedReady
  <2> QED
    BY <2>1, <2>2, ZenonT(60), SMTT(30)
<1>4. \A k \in Job : Restart \notin Names(event_queue'[k]) /\ Carries(k)
  BY <1>1 DEF LeakInv, Carries
<1> QED
  BY <1>1, <1>2, <1>3, <1>4, LeakNext, ZenonT(60), SMTT(30)

-----------------------------------------------------------------------------

\* Every step keeps LeakInv while the scheduler stays.
LEMMA LeakStep ==
  ASSUME MaxRequest["sched"] = 0
  PROVE  Inv /\ LifeInv /\ SchedInv /\ LeakInv /\ [Next]_vars => LeakInv'
<1> SUFFICES ASSUME Inv, LifeInv, SchedInv, LeakInv, [Next]_vars PROVE LeakInv'
  OBVIOUS
<1>1. ~ SchedGone
  <2>1. requests["sched"] \in Nat
    BY ZenonT(60), SMTT(30) DEF Inv, TypeOK, RequestKind
  <2> QED
    BY <2>1, SMTT(20), SMTT(30), SMTT(60) DEF Counts, SchedGone
<1>2. ASSUME NEW j \in Job, Handler(j) PROVE LeakInv'
  BY <1>2, MachineLeak, HandlerLeak, AnswerLeak, SuccessLeak, ZenonT(60), SMTT(30) DEF Handler
<1>3. ASSUME NEW j \in Job PROVE ~ SchedRaise(j)
  BY ZenonT(60), SMTT(20) DEF SchedRaise, LeakInv
<1>4. ASSUME NEW j \in Job, Partner(j) PROVE LeakInv'
  BY <1>3, <1>4, HandlerLeak, HousekeepingLeak, PartnerLeak, ZenonT(60), SMTT(30) DEF Partner
<1>5. CASE SchedHello \/ SchedReady
  BY <1>5, ServiceLeak, ZenonT(60), SMTT(30)
<1>6. CASE Job # {} /\ (Global \/ UNCHANGED vars) /\ ~ SchedHello /\ ~ SchedReady
  <2>1. PICK j \in Job : TRUE
    BY <1>6, ZenonT(60), SMTT(30)
  <2> QED
    BY <1>1, <1>6, <2>1, HandlerLeak, ZenonT(60), SMTT(30) DEF Global
<1>7. CASE Job = {}
  <2>1. Inv'
    BY InvStep, ZenonT(60), SMTT(30)
  <2>2. sched_fail' = {} /\ sched_alloc' = {} /\ housekept' = {}
    BY <1>7, <2>1, ZenonT(60), SMTT(30) DEF Inv, TypeOK
  <2> QED
    BY <1>7, <2>2, ZenonT(60), SMTT(30) DEF LeakInv
<1> QED
  BY <1>2, <1>4, <1>5, <1>6, <1>7, ZenonT(60), SMTT(30) DEF Next

\* No resources are lost: what a scheduler in service has allocated belongs to a
\* job or to housekeeping, or is on its way from or to the scheduler.  This holds
\* for every set of jobs, plugins and limits as long as the scheduler is not
\* unloaded.  (When it is, a job that ends between the next scheduler's hello and
\* its ready does not return its resources.)
THEOREM NoLeakCorrect ==
  ASSUME MaxRequest["sched"] = 0
  PROVE  Spec => []NoLeak
<1>1. Init => LeakInv
  <2> SUFFICES ASSUME Init PROVE LeakInv
    BY ZenonT(60), SMTT(30)
  <2>1. /\ sched_fail = {} /\ sched_alloc = {} /\ housekept = {} /\ ~ online
        /\ \A k \in Job : ~ job[k].has_resources /\ event_queue[k] = << >>
    BY DEF Init, NewJob
  <2>2. Names(<< >>) = {}
    BY NamesNone, ZenonT(60), SMTT(30)
  <2> QED
    BY <2>1, <2>2 DEF LeakInv
<1>2. Init => Inv /\ LifeInv /\ SchedInv /\ LeakInv
  BY <1>1, InvInit, LifeInit, SchedInit, ZenonT(60), SMTT(30)
<1>3. Inv /\ LifeInv /\ SchedInv /\ LeakInv /\ [Next]_vars
        => (Inv /\ LifeInv /\ SchedInv /\ LeakInv)'
  BY InvStep, LifeStep, SchedStep, LeakStep, ZenonT(60), SMTT(30)
<1>4. LeakInv => NoLeak
  <2> SUFFICES ASSUME LeakInv, online, NEW k \in sched_alloc PROVE Accounted(k)
    BY ZenonT(60), SMTT(30) DEF NoLeak
  <2>1. Kept(k)
    BY ZenonT(60), SMTT(30) DEF LeakInv
  <2>2. Holds(from_sched, Success(k)) =>
          \E i \in 1..Len(from_sched) : from_sched[i] = [type |-> "success", id |-> k]
    BY ZenonT(60), SMTT(30) DEF Holds, Success
  <2>3. Holds(to_sched, FreesFor(k)) => InFlight("free", k)
    BY ZenonT(60), SMTT(30) DEF Holds, FreesFor, RequestsFor, InFlight
  <2>4. Owns(job[k], event_queue[k]) =>
          job[k].has_resources \/ IsQueued(event_queue[k], "alloc")
    BY NamesQueued DEF Owns
  <2> QED
    BY <2>1, <2>2, <2>3, <2>4, ZenonT(60), SMTT(20) DEF Kept, Elsewhere, Accounted
<1> QED
  BY <1>2, <1>3, <1>4, PTL DEF Spec

=============================================================================
