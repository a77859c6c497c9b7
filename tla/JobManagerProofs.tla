------------------------- MODULE JobManagerProofs -------------------------
EXTENDS JobManager, TLAPS

(***************************************************************************)
(* What JobManager.tla promises for every set of jobs, every set of        *)
(* plugins and every limit of the scheduler: the types (TypeCorrect), the  *)
(* agreement of the flags of struct job with the alloc queues              *)
(* (FlagsCorrect) and the order of prologs and start requests              *)
(* (StartCorrect).  The first lemmas type the operators of the model, the  *)
(* next ones take the actions one by one.                                  *)
(***************************************************************************)

\* The fields that no event changes.
SameFlags(r, s) ==
  /\ s.alloc_queued = r.alloc_queued
  /\ s.alloc_pending = r.alloc_pending

\* event_job_update: entering PRIORITY gives a job of the right type.
LEMMA ToPriorityType ==
  ASSUME NEW r \in StructJob
  PROVE  ToPriority(r) \in StructJob /\ SameFlags(r, ToPriority(r))
  BY DEF ToPriority, StructJob, State, SameFlags

\* event_job_update: the event that ends a job gives one of the right type.
LEMMA EndedByType ==
  ASSUME NEW r \in StructJob, NEW e \in {"exception", "finish"}
  PROVE  EndedBy(r, e) \in StructJob /\ SameFlags(r, EndedBy(r, e))
  BY ZenonT(60) DEF EndedBy, StructJob, State, SameFlags

\* event_handle_dependency counts dependencies in the naturals.
LEMMA DependencyType ==
  ASSUME NEW r \in StructJob, NEW name
  PROVE  /\ event_handle_dependency(r, name) \in StructJob
         /\ SameFlags(r, event_handle_dependency(r, name))
  BY DEF event_handle_dependency, StructJob, SameFlags

\* event_handle_perilog: once PerilogOverflow is ruled out, the uint8_t counter
\* stays within its bound.
LEMMA PerilogType ==
  ASSUME NEW r \in StructJob, NEW name, 
         name \in {"prolog-start", "epilog-start"} => r.perilog_active # PerilogMax
  PROVE  /\ event_handle_perilog(r, name) \in StructJob
         /\ SameFlags(r, event_handle_perilog(r, name))
  BY PluginAssumption DEF event_handle_perilog, StructJob, SameFlags

\* Every event that event_job_process_entry accepts leaves a job of the right
\* type, and its alloc flags alone.
LEMMA UpdateType ==
  ASSUME NEW r \in StructJob, NEW e \in Event, ~ PerilogOverflow(r, e)
  PROVE  /\ event_job_update(r, e) \in StructJob
         /\ SameFlags(r, event_job_update(r, e))
<1> DEFINE u == event_job_update(r, e)
<1>0. e.name \in EventName
  BY DEF Event, EventName
<1> USE DEF FatalException
<1>1. CASE e.name = "validate"
  BY <1>1 DEF event_job_update, StructJob, State, SameFlags
<1>2. CASE e.name = "jobspec-update"
  <2>1. u = ToPriority(r)
    BY <1>2 DEF event_job_update
  <2> QED BY <2>1, ToPriorityType
<1>3. CASE e.name \in {"dependency-add", "dependency-remove"}
  <2>1. u = event_handle_dependency(r, e.name)
    BY <1>3, ZenonT(60), SMTT(30) DEF event_job_update
  <2> QED BY <2>1, DependencyType
<1>4. CASE e.name = "depend"
  BY <1>4 DEF event_job_update, StructJob, State, SameFlags
<1>5. CASE e.name = "priority"
  BY <1>5, ZenonT(60) DEF event_job_update, StructJob, State, SameFlags, Event
<1>6. CASE e.name = "urgency"
  <2>1. u = ToPriority([r EXCEPT !.urgency = e.arg]) /\ e.arg \in Urgency
    BY <1>6 DEF event_job_update, Event
  <2>2. [r EXCEPT !.urgency = e.arg] \in StructJob
        /\ SameFlags(r, [r EXCEPT !.urgency = e.arg])
    BY <2>1 DEF StructJob, SameFlags
  <2> QED BY <2>1, <2>2, ToPriorityType, ZenonT(60) DEF SameFlags
<1>7. CASE e.name \in FatalException
  <2> DEFINE x == [r EXCEPT !.has_resources =
                             @ /\ e.name # "exception.scheduler-restart"]
  <2>1. x \in StructJob /\ SameFlags(r, x)
    BY ZenonT(60) DEF StructJob, SameFlags
  <2>2. u = EndedBy(x, "exception") \/ u = r
    BY <1>7, ZenonT(60) DEF event_job_update
  <2> HIDE DEF x
  <2> QED BY <2>1, <2>2, EndedByType DEF SameFlags
<1>8. CASE e.name = "alloc"
  <2>1. u = [r EXCEPT !.has_resources = TRUE,
                   !.state = IF @ = "SCHED" THEN "RUN" ELSE @]
    BY <1>8 DEF event_job_update
  <2> QED BY <2>1, ZenonT(60) DEF StructJob, State, SameFlags
<1>9. CASE e.name = "free"
  BY <1>9, ZenonT(60) DEF event_job_update, StructJob, SameFlags
<1>10. CASE e.name = "finish"
  <2>1. u = EndedBy(r, "finish") \/ u = r
    BY <1>10 DEF event_job_update
  <2> QED BY <2>1, EndedByType DEF SameFlags
<1>11. CASE e.name = "clean"
  BY <1>11 DEF event_job_update, StructJob, State, SameFlags
<1>12. CASE e.name \in {"prolog-start", "prolog-finish", "epilog-start",
                        "epilog-finish"}
  <2>1. \/ u = r
        \/ /\ u = event_handle_perilog(r, e.name)
           /\ e.name \in {"prolog-start", "epilog-start"} => r.perilog_active # PerilogMax
    BY <1>12, ZenonT(60), SMTT(30) DEF event_job_update, PerilogOverflow
  <2> QED BY <2>1, PerilogType DEF SameFlags
<1>13. CASE e.name \in {"start", "release", "memo"}
  BY <1>13, SMTT(20), ZenonT(60), SMTT(30) DEF event_job_update, SameFlags
<1> QED
  BY <1>0, <1>1, <1>2, <1>3, <1>4, <1>5, <1>6, <1>7, <1>8, <1>9, <1>10, <1>11, <1>12,
     <1>13, ZenonT(60), SMTT(30) DEF EventName

\* A request appended for the scheduler keeps the type of its queue.
LEMMA SendType ==
  ASSUME NEW ts \in Seq(SchedRequest), NEW type \in {"alloc", "cancel", "free"},
         NEW J \in SUBSET Job
  PROVE  Send(ts, type, J) \in Seq(SchedRequest)
<1>1. [type |-> type, ids |-> J] \in SchedRequest
  BY DEF SchedRequest
<1> QED
  BY <1>1 DEF Send

\* The pending jobs that a queue reorder cancels are jobs.
LEMMA OutrankedType ==
  ASSUME NEW jb, NEW q, NEW s \in SUBSET Job
  PROVE  Outranked(jb, q, s) \in SUBSET Job
  BY DEF Outranked

\* An event without an argument is an event.
LEMMA EvType ==
  ASSUME NEW name \in EventName \ {"priority", "urgency"}
  PROVE  Ev(name) \in Event
  BY DEF Ev, Event

\* Posting one event keeps the type of the queue.
LEMMA AppendType ==
  ASSUME NEW q \in Seq(Event), NEW name \in EventName \ {"priority", "urgency"}
  PROVE  Append(q, Ev(name)) \in Seq(Event)
<1>1. Ev(name) \in Event
  BY EvType
<1> QED
  BY <1>1

\* Posting n events of one name keeps the type of the queue.
LEMMA PostsType ==
  ASSUME NEW q \in Seq(Event), NEW name \in EventName \ {"priority", "urgency"},
         NEW n \in Nat
  PROVE  Posts(q, name, n) \in Seq(Event)
<1>1. [i \in 1..n |-> Ev(name)] \in Seq(Event)
  BY EvType
<1> QED
  BY <1>1 DEF Posts

\* Dropping the processed events keeps the type of the queue.
LEMMA DequeueType ==
  ASSUME TypeOK, NEW j \in Job, NEW q \in Seq(Event), NEW done \in Nat,
         Dequeue(j, q, done)
  PROVE  event_queue' \in [Job -> Seq(Event)]
<1>1. SubSeq(q, done + 1, Len(q)) \in Seq(Event)
  BY SMTT(20), SMTT(30), SMTT(60)
<1> QED
  BY <1>1 DEF Dequeue, TypeOK

\* What event_job_action assigns has its type.
ActionTyped ==
  /\ job \in [Job -> StructJob]
  /\ event_queue \in [Job -> Seq(Event)]
  /\ active \subseteq Job /\ inactive \subseteq Job
  /\ queue \subseteq Job /\ sent \subseteq Job
  /\ housekept \subseteq Job
  /\ to_sched \in Seq(SchedRequest)
  /\ exec \in [Job -> {"none", "init", "running", "killed", "final"}]

\* The priority of a job is one, whoever assigns it.
LEMMA PrioritizedType ==
  ASSUME NEW r \in StructJob, NEW p \in PluginPriority
  PROVE  LET x == [r EXCEPT !.priority = Prioritized(r, p)]
         IN /\ x \in StructJob /\ SameFlags(r, x) /\ PriorityEvent(x) \in Event
            /\ x.state = r.state
<1>1. Prioritized(r, p) \in Priority
  BY PluginAssumption DEF Prioritized, Priority, FLUX_JOB_PRIORITY_MIN,
     FLUX_JOB_PRIORITY_MAX
<1> DEFINE x == [r EXCEPT !.priority = Prioritized(r, p)]
<1>2. x \in StructJob /\ SameFlags(r, x) /\ x.priority \in Priority
      /\ x.state = r.state
  BY <1>1 DEF StructJob, SameFlags
<1> HIDE DEF x
<1>3. PriorityEvent(x) \in Event
  BY <1>2 DEF PriorityEvent, Event
<1> QED
  BY <1>2, <1>3 DEF x

\* The cancel requests that a priority change sends have their type.
LEMMA CancelledByType ==
  ASSUME TypeOK, NEW j \in Job, NEW r
  PROVE  CancelledBy(j, r) \in SUBSET Job
  BY OutrankedType, ZenonT(60) DEF TypeOK, CancelledBy

\* The callbacks of a state change end in event_job_action.
LEMMA JobtapAction ==
  ASSUME TypeOK, NEW j \in Job, NEW r \in StructJob, NEW q \in Seq(Event),
         NEW done \in Nat, JobtapCall(j, r, q, done)
  PROVE  \E x \in StructJob, y \in Seq(Event), ts \in Seq(SchedRequest) :
           SameFlags(r, x) /\ event_job_action(j, x, y, ts, done)
<1>1. SameFlags(r, r) /\ to_sched \in Seq(SchedRequest)
  BY DEF SameFlags, TypeOK
<1>2. ASSUME NEW n \in Nat, NEW name \in EventName \ {"priority", "urgency"},
             event_job_action(j, r, Posts(q, name, n), to_sched, done)
      PROVE  \E x \in StructJob, y \in Seq(Event), ts \in Seq(SchedRequest) :
               SameFlags(r, x) /\ event_job_action(j, x, y, ts, done)
  BY <1>1, <1>2, PostsType
<1>3. CASE \E n \in DependCount :
             event_job_action(j, r, Posts(q, "dependency-add", n), to_sched,
                              done)
  BY <1>2, <1>3, PluginAssumption DEF EventName
<1>4. CASE \E p \in PluginPriority :
             LET r1 == [r EXCEPT !.priority = Prioritized(r, p)]
             IN event_job_action(j, r1, Append(q, PriorityEvent(r1)),
                                 Send(to_sched, "cancel", CancelledBy(j, r1)),
                                 done)
  <2>1. PICK p \in PluginPriority :
             LET r1 == [r EXCEPT !.priority = Prioritized(r, p)]
             IN event_job_action(j, r1, Append(q, PriorityEvent(r1)),
                                 Send(to_sched, "cancel", CancelledBy(j, r1)),
                                 done)
    BY <1>4
  <2> DEFINE r1 == [r EXCEPT !.priority = Prioritized(r, p)]
  <2>2. r1 \in StructJob /\ SameFlags(r, r1) /\ PriorityEvent(r1) \in Event
    BY PrioritizedType
  <2>3. event_job_action(j, r1, Append(q, PriorityEvent(r1)),
                         Send(to_sched, "cancel", CancelledBy(j, r1)), done)
    BY <2>1
  <2> HIDE DEF r1
  <2>4. Append(q, PriorityEvent(r1)) \in Seq(Event)
    BY <2>2
  <2>5. Send(to_sched, "cancel", CancelledBy(j, r1)) \in Seq(SchedRequest)
    BY <1>1, CancelledByType, SendType
  <2> QED
    BY <2>2, <2>3, <2>4, <2>5, ZenonT(60)
<1>5. CASE event_job_action(j, r, q, to_sched, done)
  BY <1>1, <1>5
<1>6. CASE \E n \in PerilogCount :
             event_job_action(j, r, Posts(q, "prolog-start", n), to_sched, done)
  BY <1>2, <1>6, PluginAssumption DEF EventName
<1>7. CASE \E n \in PerilogCount :
             event_job_action(j, r, Posts(q, "epilog-start", n), to_sched, done)
  BY <1>2, <1>7, PluginAssumption DEF EventName
<1> QED
  BY <1>3, <1>4, <1>5, <1>6, <1>7 DEF JobtapCall

\* The inductive invariant: with the types, the flags follow from one step to
\* the next.
Inv == TypeOK /\ QueueFlags

-----------------------------------------------------------------------------
(* The other actions. *)

\* What the execution system holds for a job.
Phase == {"none", "init", "running", "killed", "final"}

-----------------------------------------------------------------------------

\* The inductive step: every action preserves Inv.
LEMMA InvStep == Inv /\ [Next]_vars => Inv'
\* event_job_action, in every state of the job, assigns values of the right type.
<1>ActionType.
  ASSUME TypeOK, NEW j \in Job, NEW r \in StructJob, NEW q \in Seq(Event),
         NEW ts \in Seq(SchedRequest), NEW done \in Nat,
         event_job_action(j, r, q, ts, done)
  PROVE  ActionTyped'
  <2> USE <1>ActionType
  <2> USE DEF TypeOK, ActionTyped
  <2>1. CASE ActionDepend(j, r, q, ts, done)
    <3>1. PICK x \in BOOLEAN :
            job' = [job EXCEPT ![j] = [r EXCEPT !.depend_posted = x]]
      BY <2>1, ZenonT(60) DEF ActionDepend
    <3>2. [r EXCEPT !.depend_posted = x] \in StructJob
      BY ZenonT(60) DEF StructJob
    <3>3. PICK q2 \in {q, Append(q, Ev("depend"))} : Dequeue(j, q2, done)
      BY <2>1 DEF ActionDepend
    <3>4. q2 \in Seq(Event)
      <4>1. Append(q, Ev("depend")) \in Seq(Event)
        BY AppendType DEF EventName
      <4> QED
        BY <3>3, <4>1, ZenonT(60)
    <3>5. event_queue' \in [Job -> Seq(Event)]
      BY <3>3, <3>4, DequeueType, SMTT(20), ZenonT(60), SMTT(30)
    <3>6. to_sched' = ts /\ UNCHANGED <<jobs, queue, sent, housekept, exec>>
      BY <2>1 DEF ActionDepend
    <3> QED
      BY <3>1, <3>2, <3>5, <3>6, ZenonT(60) DEF jobs
  <2>2. CASE ActionPriority(j, r, q, ts, done)
    <3>1. job' \in [Job -> StructJob]
      BY <2>2, ZenonT(60) DEF ActionPriority, StructJob
    <3>2. event_queue' \in [Job -> Seq(Event)]
      BY <2>2, DequeueType, ZenonT(60), SMTT(30) DEF ActionPriority
    <3>3. to_sched' \in Seq(SchedRequest)
      BY <2>2, SendType DEF ActionPriority
    <3> QED
      BY <2>2, <3>1, <3>2, <3>3 DEF ActionPriority, jobs
  <2>3. CASE ActionSched(j, r, q, ts, done)
    <3>1. PICK x \in BOOLEAN :
            job' = [job EXCEPT ![j] = [r EXCEPT !.alloc_queued = x]]
      BY <2>3, ZenonT(60) DEF ActionSched
    <3>2. [r EXCEPT !.alloc_queued = x] \in StructJob
      BY ZenonT(60) DEF StructJob
    <3>3. event_queue' \in [Job -> Seq(Event)]
      BY <2>3, DequeueType, ZenonT(60), SMTT(30) DEF ActionSched
    <3>4. to_sched' \in Seq(SchedRequest)
      BY <2>3, SendType, OutrankedType, ZenonT(60) DEF ActionSched
    <3>5. queue' \subseteq Job
      BY <2>3 DEF ActionSched
    <3>6. UNCHANGED <<jobs, sent, housekept, exec>>
      BY <2>3 DEF ActionSched
    <3> QED
      BY <3>1, <3>2, <3>3, <3>4, <3>5, <3>6, ZenonT(60) DEF jobs
  <2>4. CASE ActionRun(j, r, q, ts, done)
    <3>1. PICK x \in BOOLEAN :
            job' = [job EXCEPT ![j] = [r EXCEPT !.start_pending = x]]
      BY <2>4, ZenonT(60) DEF ActionRun
    <3>2. [r EXCEPT !.start_pending = x] \in StructJob
      BY ZenonT(60) DEF StructJob
    <3>3. event_queue' \in [Job -> Seq(Event)]
      BY <2>4, DequeueType, ZenonT(60), SMTT(30) DEF ActionRun
    <3>4. exec' \in [Job -> {"none", "init", "running", "killed", "final"}]
      BY <2>4 DEF ActionRun
    <3>5. to_sched' = ts /\ UNCHANGED <<jobs, queue, sent, housekept>>
      BY <2>4 DEF ActionRun
    <3> QED
      BY <3>1, <3>2, <3>3, <3>4, <3>5, ZenonT(60) DEF jobs
  <2>5. CASE ActionCleanup(j, r, q, ts, done)
    <3>1. PICK x \in BOOLEAN :
            job' = [job EXCEPT ![j] = [r EXCEPT !.alloc_pending = FALSE,
                                                !.alloc_queued = FALSE,
                                                !.free_posted = x]]
      BY <2>5, ZenonT(60) DEF ActionCleanup
    <3>2. [r EXCEPT !.alloc_pending = FALSE, !.alloc_queued = FALSE,
                    !.free_posted = x] \in StructJob
      BY ZenonT(60) DEF StructJob
    <3>3. PICK q2 \in {q, Append(q, Ev("free")), Append(q, Ev("clean"))} :
            Dequeue(j, q2, done)
      BY <2>5, ZenonT(60), SMTT(30) DEF ActionCleanup
    <3>4. q2 \in Seq(Event)
      <4>1. Append(q, Ev("free")) \in Seq(Event)
        BY AppendType DEF EventName
      <4>2. Append(q, Ev("clean")) \in Seq(Event)
        BY AppendType, ZenonT(60), SMTT(30) DEF EventName
      <4> QED
        BY <3>3, <4>1, <4>2, ZenonT(60)
    <3>5. event_queue' \in [Job -> Seq(Event)]
      BY <3>3, <3>4, DequeueType, ZenonT(60), SMTT(30)
    <3>6. to_sched' \in Seq(SchedRequest)
      BY <2>5, SendType DEF ActionCleanup, alloc_send_free_request
    <3>7. queue' \subseteq Job /\ sent' \subseteq Job /\ housekept' \subseteq Job
      BY <2>5 DEF ActionCleanup
    <3>8. UNCHANGED <<jobs, exec>>
      BY <2>5 DEF ActionCleanup
    <3> QED
      BY <3>1, <3>2, <3>5, <3>6, <3>7, <3>8, ZenonT(60) DEF jobs
  <2>6. CASE ActionInactive(j, r, q, ts, done)
    <3>1. job' \in [Job -> StructJob]
      BY <2>6, ZenonT(60) DEF ActionInactive, StructJob
    <3>2. event_queue' \in [Job -> Seq(Event)]
      BY <2>6, DequeueType, ZenonT(60), SMTT(30) DEF ActionInactive
    <3> QED
      BY <2>6, <3>1, <3>2 DEF ActionInactive
  <2> QED
    BY <2>1, <2>2, <2>3, <2>4, <2>5, <2>6, SMTT(20), ZenonT(60), SMTT(30) DEF event_job_action
\* event_job_action keeps the flags of the job and the alloc queues in step.
<1>ActionFlags.
  ASSUME TypeOK, QueueFlags, NEW j \in Job, NEW r \in StructJob,
         SameFlags(job[j], r), NEW q, NEW ts, NEW done,
         event_job_action(j, r, q, ts, done)
  PROVE  QueueFlags'
  <2> USE <1>ActionFlags
  <2> USE DEF TypeOK, QueueFlags, SameFlags
  <2>1. CASE ActionDepend(j, r, q, ts, done)
    BY <2>1, SMTT(20), ZenonT(60), SMTT(30) DEF ActionDepend, StructJob
  <2>2. CASE ActionPriority(j, r, q, ts, done)
    BY <2>2, ZenonT(60), SMTT(30) DEF ActionPriority, StructJob
  <2>3. CASE ActionSched(j, r, q, ts, done)
    BY <2>3, SMTT(20), ZenonT(60), SMTT(30) DEF ActionSched, Enqueues, StructJob
  <2>4. CASE ActionRun(j, r, q, ts, done)
    BY <2>4, SMTT(20), ZenonT(60), SMTT(30) DEF ActionRun, StructJob
  <2>5. CASE ActionCleanup(j, r, q, ts, done)
    BY <2>5 DEF ActionCleanup, StructJob
  <2>6. CASE ActionInactive(j, r, q, ts, done)
    BY <2>6, ZenonT(60), SMTT(30) DEF ActionInactive, StructJob
  <2> QED
    BY <2>1, <2>2, <2>3, <2>4, <2>5, <2>6, ZenonT(60), SMTT(30) DEF event_job_action
\* Processing an event.
<1>ProcessInv.
  ASSUME Inv, NEW j \in Job, Process(j)
  PROVE  Inv'
  <2> USE <1>ProcessInv
  <2> DEFINE q == event_queue[j]
             e == Head(q)
             r == event_job_update(job[j], e)
  <2>1. q \in Seq(Event) /\ e \in Event /\ job[j] \in StructJob
    BY SMTT(20), SMTT(30), SMTT(60) DEF Inv, TypeOK, Process, Busy
  <2>2. UNCHANGED <<batches, start, online, topic, todo, requests, from_sched,
                    scheduler, exec_up>>
    BY ZenonT(60), SMTT(30) DEF Process
  <2>3. CASE EntryRefused(job[j], e)
    <3>1. /\ event_queue' = [event_queue EXCEPT ![j] = << >>]
          /\ UNCHANGED <<job, jobs, queue, sent, housekept, to_sched, exec>>
      BY <2>3 DEF Process
    <3> QED
      BY <2>2, <3>1 DEF Inv, TypeOK, QueueFlags, batches, jobs, scheduler
  <2>4. CASE ~ EntryRefused(job[j], e)
    <3>1. r \in StructJob /\ SameFlags(job[j], r)
      BY <2>1, <2>4, UpdateType, ZenonT(60), SMTT(30) DEF EntryRefused
    <3>2. \E x \in StructJob, y \in Seq(Event), ts \in Seq(SchedRequest) :
            SameFlags(r, x) /\ event_job_action(j, x, y, ts, 1)
      <4>1. CASE JobtapCall(j, r, q, 1)
        BY <2>1, <3>1, <4>1, JobtapAction, SMTT(20), ZenonT(60), SMTT(30) DEF Inv
      <4>2. CASE event_job_action(j, r, q, to_sched, 1)
        BY <2>1, <3>1, <4>2 DEF SameFlags, Inv, TypeOK
      <4> QED
        BY <2>4, <4>1, <4>2, ZenonT(60), SMTT(30) DEF Process
    <3>3. PICK x \in StructJob, y \in Seq(Event), ts \in Seq(SchedRequest) :
            SameFlags(r, x) /\ event_job_action(j, x, y, ts, 1)
      BY <3>2, ZenonT(60), SMTT(30)
    <3>4. SameFlags(job[j], x)
      BY <3>1, <3>3 DEF SameFlags
    <3>5. ActionTyped'
      BY <3>3, <1>ActionType DEF Inv
    <3>6. QueueFlags'
      BY <3>3, <3>4, <1>ActionFlags, ZenonT(60), SMTT(30) DEF Inv
    <3> QED
      BY <2>2, <3>5, <3>6, SMTT(20), ZenonT(60), SMTT(30)
         DEF Inv, TypeOK, ActionTyped, batches, scheduler
  <2> QED
    BY <2>3, <2>4, ZenonT(60), SMTT(30)
\* event_job_action outside of any event.
<1>ActInv.
  ASSUME Inv, NEW j \in Job, Act(j)
  PROVE  Inv'
  <2> USE <1>ActInv
  <2>1. /\ event_job_action(j, job[j], event_queue[j], to_sched, 0)
        /\ todo' = todo \ {j}
        /\ UNCHANGED <<batches, start, online, topic, requests, from_sched,
                       scheduler, exec_up>>
    BY DEF Act
  <2>2. /\ job[j] \in StructJob /\ event_queue[j] \in Seq(Event)
        /\ to_sched \in Seq(SchedRequest) /\ SameFlags(job[j], job[j])
    BY DEF Inv, TypeOK, SameFlags
  <2>3. ActionTyped'
    BY <2>1, <2>2, <1>ActionType, ZenonT(60), SMTT(30) DEF Inv
  <2>4. QueueFlags'
    BY <2>1, <2>2, <1>ActionFlags DEF Inv
  <2> QED
    BY <2>1, <2>3, <2>4, ZenonT(60), SMTT(30) DEF Inv, TypeOK, ActionTyped, batches, scheduler
\* requeue_pending takes jobs from alloc->sent to alloc->queue.
<1>RequeueInv.
  ASSUME Inv, NEW J \in SUBSET Job, \A j \in J : job[j].alloc_pending,
         RequeuePending(J)
  PROVE  /\ job' \in [Job -> StructJob]
         /\ queue' \subseteq Job /\ sent' \subseteq Job
         /\ QueueFlags'
  <2> USE <1>RequeueInv
  <2>1. \A j \in Job : job[j] \in StructJob
    BY DEF Inv, TypeOK
  <2>2. ASSUME NEW r \in StructJob
        PROVE  [r EXCEPT !.alloc_pending = FALSE,
                         !.alloc_queued = @ \/ start] \in StructJob
    BY ZenonT(60) DEF StructJob
  <2>3. job' \in [Job -> StructJob]
    BY <2>1, <2>2, ZenonT(60) DEF RequeuePending
  <2>4. queue' \subseteq Job /\ sent' \subseteq Job
    BY ZenonT(60) DEF RequeuePending, Inv, TypeOK
  <2>5. QueueFlags'
    <3> SUFFICES ASSUME NEW k \in Job
                 PROVE  /\ job'[k].alloc_queued <=> k \in queue'
                        /\ job'[k].alloc_pending <=> k \in sent'
                        /\ ~ (job'[k].alloc_queued /\ job'[k].alloc_pending)
      BY DEF QueueFlags
    <3>1. CASE k \in J
      <4>1. /\ job'[k].alloc_pending = FALSE
            /\ job'[k].alloc_queued <=> job[k].alloc_queued \/ start
        BY <2>1, <3>1, ZenonT(60) DEF RequeuePending, StructJob
      <4> QED
        BY <3>1, <4>1, ZenonT(60) DEF RequeuePending, Inv, QueueFlags
    <3>2. CASE k \notin J
      BY <3>2, ZenonT(60) DEF RequeuePending, Inv, QueueFlags
    <3> QED
      BY <3>1, <3>2
  <2> QED
    BY <2>3, <2>4, <2>5
\* interface_teardown
<1>TeardownInv.
  ASSUME Inv, AllocTeardown
  PROVE  /\ job' \in [Job -> StructJob]
         /\ queue' \subseteq Job /\ sent' \subseteq Job
         /\ online' \in BOOLEAN
         /\ QueueFlags'
  <2> USE <1>TeardownInv
  <2>1. CASE online
    <3> DEFINE J == {j \in active : job[j].alloc_pending}
    <3>1. J \in SUBSET Job /\ \A j \in J : job[j].alloc_pending
      BY DEF Inv, TypeOK
    <3>2. RequeuePending(J) /\ online' = FALSE
      BY <2>1 DEF AllocTeardown
    <3> HIDE DEF J
    <3> QED
      BY <3>1, <3>2, <1>RequeueInv, ZenonT(60)
  <2>2. CASE ~ online
    BY <2>2, ZenonT(60), SMTT(30) DEF AllocTeardown, Inv, TypeOK, QueueFlags
  <2> QED
    BY <2>1, <2>2
\* event_job_post_entry keeps the type of the event queues.
<1>PostType.
  ASSUME TypeOK, NEW j \in Job, NEW e \in Event, Post(j, e)
  PROVE  event_queue' \in [Job -> Seq(Event)]
  <2> USE <1>PostType
  <2>1. Append(event_queue[j], e) \in Seq(Event)
    BY DEF TypeOK
  <2> QED
    BY <2>1, ZenonT(60), SMTT(30) DEF Post, TypeOK
\* The counters of user requests stay naturals.
<1>CountsType.
  ASSUME TypeOK, NEW k \in RequestKind, Counts(k)
  PROVE  requests' \in [RequestKind -> Nat]
  BY <1>CountsType, SMTT(20), ZenonT(60), SMTT(30) DEF TypeOK, Counts
\* The handlers that only post an event.
<1>PostOnlyInv.
  ASSUME Inv, NEW j \in Job, NEW e \in Event, PostOnly(j, e),
         requests' \in [RequestKind -> Nat], UNCHANGED <<scheduler, execution>>
  PROVE  Inv'
  <2> USE <1>PostOnlyInv
  <2>1. event_queue' \in [Job -> Seq(Event)]
    BY <1>PostType DEF PostOnly, Inv
  <2>2. UNCHANGED <<job, jobs, queue, sent, batches, start, online, topic,
                    housekept, todo, channels>>
    BY DEF PostOnly
  <2> QED
    BY <2>1, <2>2, SMTT(20), ZenonT(60), SMTT(30) DEF Inv, TypeOK, QueueFlags, jobs, batches, channels, scheduler,
       execution
\* Requests of users: raise, urgency and update post an event and no more.
<1>UserInv.
  ASSUME Inv, NEW j \in Job,
         RaiseRequest(j) \/ UrgencyRequest(j) \/ UpdateRequest(j)
  PROVE  Inv'
  <2> USE <1>UserInv
  <2>1. CASE RaiseRequest(j)
    <3>1. PICK name \in {"exception", "memo"} : PostOnly(j, Ev(name))
      BY <2>1 DEF RaiseRequest
    <3>2. Ev(name) \in Event
      BY EvType DEF EventName, FatalException
    <3>3. Counts("raise") /\ UNCHANGED <<scheduler, execution>>
      BY <2>1 DEF RaiseRequest
    <3>4. requests' \in [RequestKind -> Nat]
      BY <3>3, <1>CountsType, ZenonT(60), SMTT(30) DEF RequestKind, Inv
    <3> QED
      BY <3>1, <3>2, <3>3, <3>4, <1>PostOnlyInv, SMTT(20), ZenonT(60), SMTT(30)
  <2>2. CASE UrgencyRequest(j)
    <3>1. PICK u \in UserUrgency : PostOnly(j, [name |-> "urgency", arg |-> u])
      BY <2>2 DEF UrgencyRequest
    <3>2. [name |-> "urgency", arg |-> u] \in Event
      BY PluginAssumption, ZenonT(60), SMTT(30) DEF Event
    <3>3. Counts("update") /\ UNCHANGED <<scheduler, execution>>
      BY <2>2 DEF UrgencyRequest
    <3>4. requests' \in [RequestKind -> Nat]
      BY <3>3, <1>CountsType DEF RequestKind, Inv
    <3> QED
      BY <3>1, <3>2, <3>3, <3>4, <1>PostOnlyInv, ZenonT(60), SMTT(30)
  <2>3. CASE UpdateRequest(j)
    <3>1. Ev("jobspec-update") \in Event
      BY EvType DEF EventName
    <3>2. /\ PostOnly(j, Ev("jobspec-update"))
          /\ Counts("update") /\ UNCHANGED <<scheduler, execution>>
      BY <2>3 DEF UpdateRequest
    <3>3. requests' \in [RequestKind -> Nat]
      BY <3>2, <1>CountsType DEF RequestKind, Inv
    <3> QED
      BY <3>1, <3>2, <3>3, <1>PostOnlyInv
  <2> QED
    BY <2>1, <2>2, <2>3
\* Plugins: removing a dependency and finishing a prolog or epilog post events.
<1>PluginInv.
  ASSUME Inv, NEW j \in Job,
         DependencyRemove(j) \/ PrologFinish(j) \/ EpilogFinish(j)
  PROVE  Inv'
  <2> USE <1>PluginInv
  <2>1. PICK name \in {"dependency-remove", "prolog-finish", "epilog-finish"} :
          PostOnly(j, Ev(name))
    BY DEF DependencyRemove, PrologFinish, EpilogFinish
  <2>2. Ev(name) \in Event
    BY EvType, ZenonT(60), SMTT(30) DEF EventName
  <2>3. requests' = requests /\ UNCHANGED <<scheduler, execution>>
    BY ZenonT(60), SMTT(30) DEF DependencyRemove, PrologFinish, EpilogFinish
  <2>4. requests' \in [RequestKind -> Nat]
    BY <2>3, ZenonT(60), SMTT(30) DEF Inv, TypeOK
  <2> QED
    BY <2>1, <2>2, <2>3, <2>4, <1>PostOnlyInv, ZenonT(60), SMTT(30)
\* submit_job adds a job that is in no queue.
<1>SubmitInv.
  ASSUME Inv, NEW j \in Job, Submit(j)
  PROVE  Inv'
  <2> USE <1>SubmitInv
  <2>1. PICK u \in UserUrgency, n \in DependCount :
          job' = [job EXCEPT ![j] = [@ EXCEPT !.urgency = u,
                                              !.dependencies = n,
                                              !.hold_events = TRUE]]
    BY ZenonT(60) DEF Submit
  <2>2. u \in Urgency /\ n \in Nat /\ job[j] \in StructJob
    BY PluginAssumption, ZenonT(60), SMTT(30) DEF Inv, TypeOK
  <2>3. job' \in [Job -> StructJob] /\ QueueFlags'
    BY <2>1, <2>2, ZenonT(60) DEF Submit, Inv, TypeOK, QueueFlags, StructJob
  <2>4. event_queue' \in [Job -> Seq(Event)]
    <3>1. Ev("validate") \in Event
      BY EvType DEF EventName
    <3> QED
      BY <3>1 DEF Submit, Inv, TypeOK
  <2>5. /\ active' = active \cup {j} /\ batch' = batch \cup {j}
        /\ UNCHANGED <<inactive, queue, sent, commits, start, online, topic,
                       housekept, todo, requests, channels, scheduler, execution>>
    BY DEF Submit
  <2> QED
    BY <2>3, <2>4, <2>5 DEF Inv, TypeOK, channels, scheduler, execution
\* The batch timer and the commit continuation move jobs between batches.
<1>BatchInv.
  ASSUME Inv, BatchTimeout \/ CommitDone
  PROVE  Inv'
  <2> USE <1>BatchInv
  <2>1. CASE BatchTimeout
    BY <2>1, SMTT(20), ZenonT(60), SMTT(30) DEF BatchTimeout, Inv, TypeOK, QueueFlags, jobs, channels, scheduler,
       execution
  <2>2. CASE CommitDone
    <3>1. \A j \in Job : job[j] \in StructJob
      BY DEF Inv, TypeOK
    <3>2. ASSUME NEW r \in StructJob
          PROVE  /\ [r EXCEPT !.hold_events = FALSE] \in StructJob
                 /\ SameFlags(r, [r EXCEPT !.hold_events = FALSE])
      BY ZenonT(60) DEF StructJob, SameFlags
    <3>3. job' = [j \in Job |-> IF j \in Head(commits)
                                  THEN [job[j] EXCEPT !.hold_events = FALSE]
                                  ELSE job[j]]
      BY <2>2 DEF CommitDone
    <3>4. job' \in [Job -> StructJob]
      BY <3>1, <3>2, <3>3, ZenonT(60), SMTT(30)
    <3>5. \A j \in Job : SameFlags(job[j], job'[j])
      BY <3>1, <3>2, <3>3 DEF SameFlags
    <3>6. commits' \in Seq(SUBSET Job)
      BY <2>2 DEF CommitDone, Inv, TypeOK
    <3>7. UNCHANGED <<event_queue, jobs, queue, sent, batch, start, online, topic,
                      housekept, todo, requests, channels, scheduler, execution>>
      BY <2>2, ZenonT(60), SMTT(30) DEF CommitDone
    <3>8. QueueFlags'
      BY <3>5, <3>7, SMTT(20), ZenonT(60), SMTT(30) DEF Inv, QueueFlags, SameFlags
    <3> QED
      BY <3>4, <3>6, <3>7, <3>8, SMTT(20), ZenonT(60), SMTT(30) DEF Inv, TypeOK, jobs, channels, scheduler,
         execution
  <2> QED
    BY <2>1, <2>2, SMTT(20), ZenonT(60), SMTT(30)
\* queue_stop takes the queued jobs off alloc->queue and cancels the sent ones.
<1>QueueStopInv.
  ASSUME Inv, QueueStop
  PROVE  Inv'
  <2> USE <1>QueueStopInv
  <2>1. \A j \in Job : job[j] \in StructJob
    BY ZenonT(60), SMTT(30) DEF Inv, TypeOK
  <2>2. ASSUME NEW r \in StructJob
        PROVE  /\ [r EXCEPT !.alloc_queued = FALSE] \in StructJob
               /\ ~ [r EXCEPT !.alloc_queued = FALSE].alloc_queued
               /\ [r EXCEPT !.alloc_queued = FALSE].alloc_pending = r.alloc_pending
    BY ZenonT(60) DEF StructJob
  <2>3. /\ job' = [j \in Job |-> [job[j] EXCEPT !.alloc_queued = FALSE]]
        /\ queue' = {j \in queue : ~ job[j].alloc_queued}
        /\ sent' = sent /\ start' = FALSE
    BY DEF QueueStop
  <2>4. job' \in [Job -> StructJob]
    BY <2>1, <2>2, <2>3
  <2>5. \A j \in Job : /\ ~ job'[j].alloc_queued
                       /\ job'[j].alloc_pending = job[j].alloc_pending
    BY <2>1, <2>2, <2>3, ZenonT(60)
  <2>6. queue' = {}
    BY <2>3 DEF Inv, TypeOK, QueueFlags
  <2>7. QueueFlags'
    BY <2>3, <2>5, <2>6 DEF Inv, QueueFlags
  <2>8. to_sched' \in Seq(SchedRequest)
    <3>1. {j \in active : ~ job[j].alloc_queued /\ job[j].alloc_pending}
            \in SUBSET Job
      BY DEF Inv, TypeOK
    <3> QED
      BY <3>1, SendType, SMTT(20), ZenonT(60), SMTT(30) DEF QueueStop, Inv, TypeOK
  <2>9. requests' \in [RequestKind -> Nat]
    BY <1>CountsType DEF QueueStop, RequestKind, Inv
  <2>10. UNCHANGED <<event_queue, jobs, batches, online, topic, housekept,
                     todo, from_sched, scheduler, execution>>
    BY DEF QueueStop
  <2> QED
    BY <2>3, <2>4, <2>6, <2>7, <2>8, <2>9, <2>10, ZenonT(60)
       DEF Inv, TypeOK, jobs, batches, scheduler, execution
\* queue_start puts every job in SCHED that is not pending on alloc->queue.
<1>QueueStartInv.
  ASSUME Inv, QueueStart
  PROVE  Inv'
  <2> USE <1>QueueStartInv
  <2> DEFINE J == {j \in active : /\ job[j].state = "SCHED"
                                  /\ ~ job[j].alloc_queued
                                  /\ ~ job[j].alloc_pending
                                  /\ job[j].priority # FLUX_JOB_PRIORITY_MIN}
             jb == [j \in Job |-> [job[j] EXCEPT !.alloc_queued = @ \/ j \in J]]
  <2>1. \A j \in Job : job[j] \in StructJob
    BY SMTT(20), ZenonT(60), SMTT(30) DEF Inv, TypeOK
  <2>2. J \in SUBSET Job /\ \A j \in J : ~ job[j].alloc_pending
    BY DEF Inv, TypeOK
  <2>3. ASSUME NEW r \in StructJob, NEW x \in BOOLEAN
        PROVE  /\ [r EXCEPT !.alloc_queued = x] \in StructJob
               /\ [r EXCEPT !.alloc_queued = x].alloc_queued = x
               /\ [r EXCEPT !.alloc_queued = x].alloc_pending = r.alloc_pending
    BY DEF StructJob
  <2>4. /\ job' = jb /\ queue' = queue \cup J /\ sent' = sent /\ start' = TRUE
        /\ UNCHANGED <<event_queue, jobs, batches, online, topic, housekept, todo,
                       requests, from_sched, scheduler, execution>>
    BY ZenonT(60), SMTT(30) DEF QueueStart
  <2>5. to_sched' \in Seq(SchedRequest)
    <3>1. PICK K \in SUBSET Job : to_sched' = Send(to_sched, "cancel", K)
      BY OutrankedType, ZenonT(60) DEF QueueStart, Inv, TypeOK
    <3> QED
      BY <3>1, SendType, ZenonT(60), SMTT(30) DEF Inv, TypeOK
  <2> HIDE DEF J
  <2>6. ASSUME NEW j \in Job
        PROVE  /\ jb[j] \in StructJob
               /\ jb[j].alloc_queued <=> job[j].alloc_queued \/ j \in J
               /\ jb[j].alloc_pending = job[j].alloc_pending
    <3>1. PICK x \in BOOLEAN : x = (job[j].alloc_queued \/ j \in J)
      BY ZenonT(60)
    <3>2. jb[j] = [job[j] EXCEPT !.alloc_queued = x]
      BY <3>1
    <3> QED
      BY <2>1, <2>3, <3>1, <3>2, ZenonT(60)
  <2>7. job' \in [Job -> StructJob]
    BY <2>4, <2>6, SMTT(20), ZenonT(60), SMTT(30)
  <2>8. QueueFlags'
    BY <2>2, <2>4, <2>6, SMTT(20), ZenonT(60), SMTT(30) DEF Inv, QueueFlags
  <2> QED
    BY <2>2, <2>4, <2>5, <2>7, <2>8, ZenonT(60), SMTT(30)
       DEF Inv, TypeOK, jobs, batches, scheduler, execution
\* check_cb moves the first job of alloc->queue to alloc->sent.
<1>AllocRequestInv.
  ASSUME Inv, NEW j \in Job, AllocRequest(j)
  PROVE  Inv'
  <2> USE <1>AllocRequestInv
  <2> DEFINE r == [job[j] EXCEPT !.alloc_pending = TRUE, !.alloc_queued = FALSE]
  <2>1. j \in queue /\ job \in [Job -> StructJob] /\ job[j] \in StructJob
    BY DEF Inv, TypeOK, AllocRequest, WorkAvailable
  <2>2. r \in StructJob /\ r.alloc_pending /\ ~ r.alloc_queued
    BY <2>1, ZenonT(60) DEF StructJob
  <2>3. job' = [job EXCEPT ![j] = r]
    BY <2>1, ZenonT(60) DEF AllocRequest
  <2>4. /\ queue' = queue \ {j} /\ sent' = sent \cup {j}
        /\ UNCHANGED <<event_queue, jobs, batches, start, online, topic, housekept,
                       todo, requests, from_sched, scheduler, execution>>
    BY DEF AllocRequest
  <2> HIDE DEF r
  <2>5. job' \in [Job -> StructJob]
    BY <2>1, <2>2, <2>3, ZenonT(60), SMTT(30)
  <2>6. QueueFlags'
    BY <2>1, <2>2, <2>3, <2>4 DEF Inv, QueueFlags
  <2>7. to_sched' \in Seq(SchedRequest)
    BY SendType, ZenonT(60), SMTT(30) DEF AllocRequest, Inv, TypeOK
  <2> QED
    BY <2>4, <2>5, <2>6, <2>7, SMTT(20), ZenonT(60), SMTT(30) DEF Inv, TypeOK, jobs, batches, scheduler, execution
\* A job that has its answer leaves alloc->sent.
<1>AnsweredInv.
  ASSUME Inv, NEW j \in Job, NEW r \in StructJob, ~ r.alloc_pending,
         r.alloc_queued = job[j].alloc_queued,
         job' = [job EXCEPT ![j] = r], sent' = sent \ {j}, queue' = queue
  PROVE  job' \in [Job -> StructJob] /\ sent' \subseteq Job /\ QueueFlags'
  BY <1>AnsweredInv DEF Inv, TypeOK, QueueFlags
\* alloc_response_cb, in each of its outcomes, clears alloc_pending and removes
\* the job from alloc->sent.
<1>AllocResponseInv.
  ASSUME Inv, NEW j \in Job,
         \/ AllocUnwanted(j) \/ AllocSuccess(j) \/ AllocExists(j)
         \/ AllocDeny(j) \/ AllocCancel(j) \/ AllocError(j)
  PROVE  Inv'
  <2> USE <1>AllocResponseInv
  <2> DEFINE p == [job[j] EXCEPT !.alloc_pending = FALSE]
  <2>0. /\ job \in [Job -> StructJob] /\ job[j] \in StructJob
        /\ p \in StructJob /\ ~ p.alloc_pending
        /\ p.alloc_queued = job[j].alloc_queued
        /\ [job EXCEPT ![j].alloc_pending = FALSE] = [job EXCEPT ![j] = p]
    <3>1. job \in [Job -> StructJob] /\ job[j] \in StructJob
      BY DEF Inv, TypeOK
    <3>2. [job EXCEPT ![j].alloc_pending = FALSE] = [job EXCEPT ![j] = p]
      OBVIOUS
    <3>3. /\ p \in StructJob /\ ~ p.alloc_pending
          /\ p.alloc_queued = job[j].alloc_queued
      BY <3>1, ZenonT(60) DEF StructJob
    <3> QED
      BY <3>1, <3>2, <3>3, ZenonT(60), SMTT(30)
  <2>1. ASSUME NEW t, Response(j, t)
        PROVE  /\ from_sched' \in Seq(SchedResponse)
               /\ UNCHANGED <<jobs, batches, start, topic, housekept, requests,
                              scheduler, execution>>
    BY <2>1, SMTT(20), SMTT(30), SMTT(60) DEF Response, Inv, TypeOK
  <2>2. CASE AllocUnwanted(j)
    <3>1. to_sched' \in Seq(SchedRequest)
      BY <2>2, SendType DEF AllocUnwanted, Inv, TypeOK
    <3>2. /\ Response(j, "success")
          /\ UNCHANGED <<job, event_queue, queue, sent, online, todo>>
      BY <2>2, ZenonT(60), SMTT(30) DEF AllocUnwanted
    <3> QED
      BY <2>1, <3>1, <3>2, SMTT(20), ZenonT(60), SMTT(30) DEF Inv, TypeOK, QueueFlags, jobs, batches, scheduler,
         execution
  <2>3. CASE AllocSuccess(j)
    <3> DEFINE r == [job[j] EXCEPT !.R = TRUE, !.alloc_pending = FALSE]
    <3>1. /\ r \in StructJob /\ ~ r.alloc_pending
          /\ r.alloc_queued = job[j].alloc_queued
      BY <2>0, ZenonT(60) DEF StructJob
    <3>2. job' = [job EXCEPT ![j] = r]
      BY <2>0, <2>3, ZenonT(60) DEF AllocSuccess
    <3>3. /\ Response(j, "success") /\ Post(j, Ev("alloc"))
          /\ sent' = sent \ {j}
          /\ UNCHANGED <<queue, online, todo, to_sched>>
      BY <2>3, ZenonT(60), SMTT(30) DEF AllocSuccess
    <3> HIDE DEF r
    <3>4. job' \in [Job -> StructJob] /\ sent' \subseteq Job /\ QueueFlags'
      BY <3>1, <3>2, <3>3, <1>AnsweredInv, ZenonT(60)
    <3>5. event_queue' \in [Job -> Seq(Event)]
      BY <3>3, <1>PostType, EvType, ZenonT(60), SMTT(30) DEF EventName, Inv
    <3> QED
      BY <2>1, <3>3, <3>4, <3>5, SMTT(20), ZenonT(60), SMTT(30) DEF Inv, TypeOK, jobs, batches, scheduler,
         execution
  <2>4. CASE AllocExists(j) \/ AllocError(j)
    <3>1. /\ AllocTeardown /\ UNCHANGED <<event_queue, todo, to_sched>>
          /\ Response(j, "success") \/ Response(j, "error")
      BY <2>4, ZenonT(60), SMTT(30) DEF AllocExists, AllocError
    <3>2. /\ job' \in [Job -> StructJob]
          /\ queue' \subseteq Job /\ sent' \subseteq Job
          /\ online' \in BOOLEAN
          /\ QueueFlags'
      BY <3>1, <1>TeardownInv, ZenonT(60), SMTT(30)
    <3> QED
      BY <2>1, <3>1, <3>2 DEF Inv, TypeOK, jobs, batches, scheduler, execution
  <2>5. CASE AllocDeny(j)
    <3>1. Response(j, "deny") /\ UNCHANGED <<queue, online, todo, to_sched>>
      BY <2>5, ZenonT(60), SMTT(30) DEF AllocDeny
    <3>2. CASE AllocPending(j)
      <4>1. /\ sent' = sent \ {j} /\ job' = [job EXCEPT ![j] = p]
            /\ Post(j, Ev("exception"))
        BY <2>0, <2>5, <3>2 DEF AllocDeny
      <4> HIDE DEF p
      <4>2. job' \in [Job -> StructJob] /\ sent' \subseteq Job /\ QueueFlags'
        BY <2>0, <3>1, <4>1, <1>AnsweredInv, ZenonT(60)
      <4>3. event_queue' \in [Job -> Seq(Event)]
        BY <4>1, <1>PostType, EvType, ZenonT(60), SMTT(30) DEF EventName, FatalException, Inv
      <4> QED
        BY <2>1, <3>1, <4>2, <4>3 DEF Inv, TypeOK, jobs, batches, scheduler,
           execution
    <3>3. CASE ~ AllocPending(j)
      <4>1. UNCHANGED <<job, event_queue, sent>>
        BY <2>5, <3>3, ZenonT(60), SMTT(30) DEF AllocDeny
      <4> QED
        BY <2>1, <3>1, <4>1 DEF Inv, TypeOK, QueueFlags, jobs, batches,
           scheduler, execution
    <3> QED
      BY <3>2, <3>3
  <2>6. CASE AllocCancel(j)
    <3>1. Response(j, "cancel") /\ UNCHANGED <<event_queue, online, to_sched>>
      BY <2>6, ZenonT(60), SMTT(30) DEF AllocCancel
    <3>2. todo' \subseteq Job
      BY <2>6 DEF AllocCancel, Inv, TypeOK
    <3>3. /\ job' \in [Job -> StructJob]
          /\ queue' \subseteq Job /\ sent' \subseteq Job
          /\ QueueFlags'
      <4>1. CASE AllocPending(j) /\ job[j].state = "SCHED"
        <5>1. RequeuePending({j}) /\ job[j].alloc_pending
          BY <2>6, <4>1, ZenonT(60), SMTT(30) DEF AllocCancel, AllocPending
        <5> QED
          BY <5>1, <1>RequeueInv
      <4>2. CASE AllocPending(j) /\ job[j].state # "SCHED"
        <5>1. /\ sent' = sent \ {j} /\ job' = [job EXCEPT ![j] = p]
              /\ queue' = queue
          BY <2>0, <2>6, <4>2 DEF AllocCancel
        <5> HIDE DEF p
        <5> QED
          BY <2>0, <5>1, <1>AnsweredInv, ZenonT(60) DEF Inv, TypeOK
      <4>3. CASE ~ AllocPending(j)
        BY <2>6, <4>3, ZenonT(60), SMTT(30) DEF AllocCancel, Inv, TypeOK, QueueFlags
      <4> QED
        BY <4>1, <4>2, <4>3, ZenonT(60)
    <3> QED
      BY <2>1, <3>1, <3>2, <3>3 DEF Inv, TypeOK, jobs, batches, scheduler,
         execution
  <2> QED
    BY <2>2, <2>3, <2>4, <2>5, <2>6, SMTT(20), ZenonT(60), SMTT(30)
\* The hello, ready and disconnect of a scheduler.
<1>SchedGlobalInv.
  ASSUME Inv, SchedHello \/ SchedReady \/ SchedGone
  PROVE  Inv'
  <2> USE <1>SchedGlobalInv
  <2>1. CASE SchedHello
    <3>1. PICK F \in SUBSET Held :
            /\ sched_alloc' = Held \ F
            /\ sched_fail' = F
            /\ Cardinality(F) \in 0..(MaxRequest["hello"] - requests["hello"])
            /\ requests' = [requests EXCEPT !["hello"] = @ + Cardinality(F)]
      BY <2>1, ZenonT(60) DEF SchedHello
    <3>2. Held \subseteq Job
      BY ZenonT(60), SMTT(30) DEF Held, Inv, TypeOK
    <3>3. Cardinality(F) \in Nat
      BY <3>1, ConfigAssumption, SMTT(20), ZenonT(60), SMTT(30) DEF Inv, TypeOK, RequestKind
    <3>4. requests' \in [RequestKind -> Nat]
      BY <3>1, <3>3, SMTT(20), SMTT(30), SMTT(60) DEF Inv, TypeOK, RequestKind
    <3>5. /\ sched' = "hello"
          /\ UNCHANGED <<manager, channels, sched_queue, sched_commit, execution>>
      BY <2>1, ZenonT(60), SMTT(30) DEF SchedHello
    <3> QED
      BY <3>1, <3>2, <3>4, <3>5, ZenonT(60), SMTT(30) DEF Inv, TypeOK, QueueFlags, manager, jobs,
         batches, channels, execution
  <2>2. CASE SchedReady
    BY <2>2, ZenonT(60), SMTT(30) DEF SchedReady, Inv, TypeOK, QueueFlags, jobs, batches, channels,
       execution
  <2>3. CASE SchedGone
    <3>1. /\ AllocTeardown /\ Counts("sched") /\ sched' = "down"
          /\ to_sched' = << >>
          /\ sched_queue' = {} /\ sched_alloc' = {} /\ sched_commit' = {}
          /\ sched_fail' = {}
          /\ UNCHANGED <<event_queue, jobs, batches, start, topic, housekept, todo,
                         from_sched, execution>>
      BY <2>3, ZenonT(60), SMTT(30) DEF SchedGone
    <3>2. /\ job' \in [Job -> StructJob]
          /\ queue' \subseteq Job /\ sent' \subseteq Job
          /\ online' \in BOOLEAN
          /\ QueueFlags'
      BY <3>1, <1>TeardownInv, ZenonT(60), SMTT(30)
    <3>3. requests' \in [RequestKind -> Nat]
      BY <3>1, <1>CountsType, ZenonT(60), SMTT(30) DEF RequestKind, Inv
    <3> QED
      BY <3>1, <3>2, <3>3, SMTT(20), SMTT(30), SMTT(60) DEF Inv, TypeOK, jobs, batches, execution
  <2> QED
    BY <2>1, <2>2, <2>3, ZenonT(60), SMTT(30)
\* The scheduler's own steps leave the job manager alone.
<1>SchedulerInv.
  ASSUME Inv, UNCHANGED <<manager, execution>>, sched' = sched,
         requests' \in [RequestKind -> Nat],
         to_sched' \in Seq(SchedRequest), from_sched' \in Seq(SchedResponse),
         sched_queue' \subseteq Job, sched_alloc' \subseteq Job,
         sched_commit' \subseteq Job, sched_fail' \subseteq Job
  PROVE  Inv'
  BY <1>SchedulerInv, ZenonT(60), SMTT(30) DEF Inv, TypeOK, QueueFlags, manager, jobs, batches, execution
\* An answer appended by the scheduler keeps the type of its queue.
<1>RespondType.
  ASSUME TypeOK, NEW j \in Job,
         NEW t \in {"success", "deny", "cancel", "error"}, Respond(t, j)
  PROVE  from_sched' \in Seq(SchedResponse)
  <2> USE <1>RespondType
  <2>1. [type |-> t, id |-> j] \in SchedResponse
    BY DEF SchedResponse
  <2> QED
    BY <2>1 DEF Respond, TypeOK
\* A request taken by the scheduler keeps the type of its queue.
<1>ReceiveType.
  ASSUME TypeOK, NEW j \in Job, NEW t, Receive(t, j)
  PROVE  to_sched' \in Seq(SchedRequest)
  <2> USE <1>ReceiveType
  <2>1. to_sched \in Seq(SchedRequest) /\ to_sched # << >>
    BY DEF Receive, TypeOK
  <2>2. CASE to_sched' = Tail(to_sched)
    BY <2>1, <2>2
  <2>3. CASE to_sched' = [to_sched EXCEPT ![1].ids = @ \ {j}]
    <3> DEFINE m == [to_sched[1] EXCEPT !.ids = @ \ {j}]
    <3>1. to_sched[1] \in SchedRequest
      BY <2>1
    <3>2. m \in SchedRequest
      BY <3>1 DEF SchedRequest
    <3>3. to_sched' = [to_sched EXCEPT ![1] = m]
      BY <2>1, <2>3, ZenonT(60), SMTT(30)
    <3> HIDE DEF m
    <3> QED
      BY <2>1, <3>2, <3>3
  <2> QED
    BY <2>2, <2>3 DEF Receive
\* The callbacks of the scheduler change its own state and the channels.
<1>SchedPartnerInv.
  ASSUME Inv, NEW j \in Job,
         \/ SchedAllocCb(j) \/ SchedAllocError(j) \/ SchedCancelCb(j)
         \/ SchedFreeCb(j) \/ SchedTryAlloc(j) \/ SchedCommitDone(j)
  PROVE  Inv'
  <2> USE <1>SchedPartnerInv
  <2>1. ASSUME NEW t, Receive(t, j)
        PROVE  /\ to_sched' \in Seq(SchedRequest)
               /\ UNCHANGED <<manager, sched, sched_commit, sched_fail, execution>>
    BY <2>1, <1>ReceiveType, ZenonT(60) DEF Receive, Inv
  <2>2. CASE SchedAllocCb(j)
    <3>1. /\ Receive("alloc", j) /\ sched_queue' = sched_queue \cup {j}
          /\ UNCHANGED <<requests, from_sched, sched_alloc>>
      BY <2>2, ZenonT(60), SMTT(30) DEF SchedAllocCb
    <3> QED
      BY <2>1, <3>1, <1>SchedulerInv, ZenonT(60), SMTT(30) DEF Inv, TypeOK
  <2>3. CASE SchedAllocError(j)
    <3>1. /\ Receive("alloc", j) /\ Respond("error", j)
          /\ UNCHANGED <<sched_queue, sched_alloc>>
          /\ requests' = requests \/ Counts("error")
      BY <2>3, ZenonT(60), SMTT(30) DEF SchedAllocError
    <3>2. requests' \in [RequestKind -> Nat]
      BY <3>1, <1>CountsType, ZenonT(60), SMTT(30) DEF RequestKind, Inv, TypeOK
    <3>3. from_sched' \in Seq(SchedResponse)
      BY <3>1, <1>RespondType, ZenonT(60), SMTT(30) DEF Inv
    <3> QED
      BY <2>1, <3>1, <3>2, <3>3, <1>SchedulerInv, ZenonT(60), SMTT(30) DEF Inv, TypeOK
  <2>4. CASE SchedCancelCb(j)
    <3>1. /\ Receive("cancel", j) /\ sched_queue' = sched_queue \ {j}
          /\ UNCHANGED <<requests, sched_alloc>>
          /\ from_sched' = from_sched \/ Respond("cancel", j)
      BY <2>4, ZenonT(60), SMTT(30) DEF SchedCancelCb
    <3>2. from_sched' \in Seq(SchedResponse)
      BY <3>1, <1>RespondType, ZenonT(60), SMTT(30) DEF Inv, TypeOK
    <3> QED
      BY <2>1, <3>1, <3>2, <1>SchedulerInv, ZenonT(60), SMTT(30) DEF Inv, TypeOK
  <2>5. CASE SchedFreeCb(j)
    <3>1. /\ Receive("free", j) /\ sched_alloc' = sched_alloc \ {j}
          /\ UNCHANGED <<requests, from_sched, sched_queue>>
      BY <2>5, ZenonT(60), SMTT(30) DEF SchedFreeCb
    <3> QED
      BY <2>1, <3>1, <1>SchedulerInv, ZenonT(60) DEF Inv, TypeOK
  <2>6. CASE SchedTryAlloc(j)
    <3>1. /\ sched_queue' = sched_queue \ {j}
          /\ UNCHANGED <<manager, requests, to_sched, sched, sched_fail, execution>>
          /\ sched_alloc' \subseteq Job /\ sched_commit' \subseteq Job
          /\ from_sched' = from_sched \/ Respond("deny", j)
      BY <2>6, ZenonT(60), SMTT(30) DEF SchedTryAlloc, Inv, TypeOK
    <3>2. from_sched' \in Seq(SchedResponse)
      BY <3>1, <1>RespondType, ZenonT(60), SMTT(30) DEF Inv, TypeOK
    <3> QED
      BY <3>1, <3>2, <1>SchedulerInv, ZenonT(60), SMTT(30) DEF Inv, TypeOK
  <2>7. CASE SchedCommitDone(j)
    <3>1. /\ sched_commit' = sched_commit \ {j} /\ Respond("success", j)
          /\ UNCHANGED <<manager, requests, to_sched, sched, sched_queue,
                         sched_alloc, sched_fail, execution>>
      BY <2>7, ZenonT(60), SMTT(30) DEF SchedCommitDone
    <3>2. from_sched' \in Seq(SchedResponse)
      BY <3>1, <1>RespondType DEF Inv
    <3> QED
      BY <3>1, <3>2, <1>SchedulerInv, ZenonT(60), SMTT(30) DEF Inv, TypeOK
  <2> QED
    BY <2>2, <2>3, <2>4, <2>5, <2>6, <2>7, SMTT(20), ZenonT(60), SMTT(30)
\* schedutil_hello raises an exception on a job it cannot account for.
<1>SchedRaiseInv.
  ASSUME Inv, NEW j \in Job, SchedRaise(j)
  PROVE  Inv'
  <2> USE <1>SchedRaiseInv
  <2>1. event_queue' \in [Job -> Seq(Event)]
    <3>1. Ev("exception.scheduler-restart") \in Event
      BY EvType, ZenonT(60), SMTT(30) DEF EventName, FatalException
    <3> QED
      BY <3>1, <1>PostType DEF SchedRaise, Inv, TypeOK
  <2>2. /\ sched_fail' = sched_fail \ {j}
        /\ UNCHANGED <<job, jobs, queue, sent, batches, start, online, topic,
                       housekept, todo, requests, channels, sched, sched_queue,
                       sched_alloc, sched_commit, execution>>
    BY ZenonT(60), SMTT(30) DEF SchedRaise
  <2> QED
    BY <2>1, <2>2, ZenonT(60), SMTT(30) DEF Inv, TypeOK, QueueFlags, jobs, batches, channels, execution
\* Changes of the job that leave the alloc flags alone.
<1>FlagsKept.
  ASSUME QueueFlags, \A k \in Job : SameFlags(job[k], job'[k]),
         UNCHANGED <<queue, sent>>
  PROVE  QueueFlags'
  BY <1>FlagsKept, ZenonT(60), SMTT(30) DEF QueueFlags, SameFlags
\* start_response_cb changes no alloc flag.
<1>StartResponseInv.
  ASSUME Inv, NEW j \in Job, NEW p \in Phase,
         NEW name \in {"start", "exception", "finish", "release"},
         StartResponse(j, p, Ev(name)), requests' \in [RequestKind -> Nat]
  PROVE  Inv'
  <2> USE <1>StartResponseInv
  <2> DEFINE r == [job[j] EXCEPT !.start_pending = FALSE]
  <2>1. job \in [Job -> StructJob] /\ job[j] \in StructJob
    BY DEF Inv, TypeOK
  <2>2. r \in StructJob /\ SameFlags(job[j], r)
    BY <2>1, ZenonT(60) DEF StructJob, SameFlags
  <2>3. job' = job \/ job' = [job EXCEPT ![j] = r]
    BY <2>1 DEF StartResponse
  <2> HIDE DEF r
  <2>4. job' \in [Job -> StructJob] /\ \A k \in Job : SameFlags(job[k], job'[k])
    BY <2>1, <2>2, <2>3, ZenonT(60), SMTT(30) DEF SameFlags
  <2>5. event_queue' \in [Job -> Seq(Event)]
    <3>1. Ev(name) \in Event
      BY EvType DEF EventName, FatalException
    <3> QED
      BY <3>1, <1>PostType DEF StartResponse, Inv, TypeOK
  <2>6. /\ exec' = [exec EXCEPT ![j] = p]
        /\ UNCHANGED <<jobs, queue, sent, batches, start, online, topic, housekept,
                       todo, channels, scheduler, exec_up>>
    BY ZenonT(60), SMTT(30) DEF StartResponse
  <2>7. exec' \in [Job -> Phase]
    BY <2>6, ZenonT(60), SMTT(30) DEF Inv, TypeOK, Phase
  <2>8. QueueFlags'
    BY <2>4, <2>6, <1>FlagsKept, ZenonT(60), SMTT(30) DEF Inv
  <2> QED
    BY <2>4, <2>5, <2>6, <2>7, <2>8, ZenonT(60), SMTT(30) DEF Inv, TypeOK, Phase, jobs, batches,
       channels, scheduler
\* The responses of the execution system to a start request.
<1>ExecPartnerInv.
  ASSUME Inv, NEW j \in Job,
         \/ ExecStart(j) \/ ExecException(j) \/ ExecAbort(j) \/ ExecFinish(j)
         \/ ExecRelease(j) \/ ExecError(j)
  PROVE  Inv'
  <2> USE <1>ExecPartnerInv
  <2>1. requests \in [RequestKind -> Nat]
    BY ZenonT(60), SMTT(30) DEF Inv, TypeOK
  <2>2. CASE ExecStart(j)
    <3>1. StartResponse(j, "running", Ev("start")) /\ requests' = requests
      BY <2>2, ZenonT(60), SMTT(30) DEF ExecStart
    <3> QED
      BY <2>1, <3>1, <1>StartResponseInv, ZenonT(60), SMTT(30) DEF Phase
  <2>3. CASE ExecException(j)
    <3>1. PICK p \in {"final", "killed"} : StartResponse(j, p, Ev("exception"))
      BY <2>3, ZenonT(60), SMTT(30) DEF ExecException
    <3>2. requests' \in [RequestKind -> Nat]
      BY <2>3, <1>CountsType, ZenonT(60), SMTT(30) DEF ExecException, RequestKind, Inv
    <3> QED
      BY <3>1, <3>2, <1>StartResponseInv, ZenonT(60), SMTT(30) DEF Phase
  <2>4. CASE ExecAbort(j)
    <3>1. exec' \in [Job -> Phase]
      BY <2>4, ZenonT(60) DEF ExecAbort, Inv, TypeOK, Phase
    <3>2. UNCHANGED <<manager, requests, channels, scheduler, exec_up>>
      BY <2>4, SMTT(20), ZenonT(60), SMTT(30) DEF ExecAbort
    <3> QED
      BY <3>1, <3>2, ZenonT(60), SMTT(30) DEF Inv, TypeOK, QueueFlags, Phase, manager, jobs, batches,
         channels, scheduler
  <2>5. CASE ExecFinish(j)
    <3>1. StartResponse(j, "final", Ev("finish")) /\ requests' = requests
      BY <2>5, ZenonT(60), SMTT(30) DEF ExecFinish
    <3> QED
      BY <2>1, <3>1, <1>StartResponseInv DEF Phase
  <2>6. CASE ExecRelease(j)
    <3>1. StartResponse(j, "none", Ev("release")) /\ requests' = requests
      BY <2>6, ZenonT(60), SMTT(30) DEF ExecRelease
    <3> QED
      BY <2>1, <3>1, <1>StartResponseInv, ZenonT(60), SMTT(30) DEF Phase
  <2>7. CASE ExecError(j)
    <3>1. ASSUME NEW r \in StructJob
          PROVE  /\ [r EXCEPT !.start_pending = FALSE] \in StructJob
                 /\ SameFlags(r, [r EXCEPT !.start_pending = FALSE])
      BY ZenonT(60) DEF StructJob, SameFlags
    <3>2. job \in [Job -> StructJob]
      BY ZenonT(60), SMTT(30) DEF Inv, TypeOK
    <3>3. \/ job' = job
          \/ job' = [k \in Job |-> [job[k] EXCEPT !.start_pending = FALSE]]
      BY <2>7 DEF ExecError
    <3>4. /\ job' \in [Job -> StructJob]
          /\ \A k \in Job : SameFlags(job[k], job'[k])
      BY <3>1, <3>2, <3>3, ZenonT(60) DEF SameFlags
    <3>5. requests' \in [RequestKind -> Nat]
      BY <2>1, <2>7, <1>CountsType DEF ExecError, RequestKind, Inv
    <3>6. /\ exec' = [exec EXCEPT ![j] = "none"] /\ topic' = FALSE
          /\ UNCHANGED <<event_queue, jobs, queue, sent, batches, start, online,
                         housekept, todo, channels, scheduler, exec_up>>
      BY <2>7 DEF ExecError
    <3>7. exec' \in [Job -> Phase]
      BY <3>6 DEF Inv, TypeOK, Phase
    <3>8. QueueFlags'
      BY <3>4, <3>6, <1>FlagsKept, ZenonT(60), SMTT(30) DEF Inv
    <3> QED
      BY <3>4, <3>5, <3>6, <3>7, <3>8, ZenonT(60) DEF Inv, TypeOK, Phase, jobs, batches,
         channels, scheduler
  <2> QED
    BY <2>2, <2>3, <2>4, <2>5, <2>6, <2>7, ZenonT(60), SMTT(30)
\* The hello and unload of the execution system.
<1>ExecGlobalInv.
  ASSUME Inv, ExecHello \/ ExecUnload
  PROVE  Inv'
  <2> USE <1>ExecGlobalInv
  <2>1. CASE ExecHello
    BY <2>1, ZenonT(60), SMTT(30) DEF ExecHello, Inv, TypeOK, QueueFlags, jobs, batches, channels,
       scheduler
  <2>2. CASE ExecUnload
    <3>1. exec' \in [Job -> Phase]
      BY <2>2, ZenonT(60), SMTT(30) DEF ExecUnload, Phase
    <3>2. requests' \in [RequestKind -> Nat]
      BY <2>2, <1>CountsType DEF ExecUnload, RequestKind, Inv
    <3>3. exec_up' = FALSE /\ UNCHANGED <<manager, channels, scheduler>>
      BY <2>2, ZenonT(60), SMTT(30) DEF ExecUnload
    <3> QED
      BY <3>1, <3>2, <3>3, ZenonT(60) DEF Inv, TypeOK, QueueFlags, Phase, manager, jobs,
         batches, channels, scheduler
  <2> QED
    BY <2>1, <2>2, ZenonT(60), SMTT(30)
\* reprioritize_one: the priority event and the sort of the queues.
<1>ReprioritizeInv.
  ASSUME Inv, NEW j \in Job, Reprioritize(j)
  PROVE  Inv'
  <2> USE <1>ReprioritizeInv
  <2>1. PICK p \in PluginPriority :
          LET r == [job[j] EXCEPT !.priority = Prioritized(job[j], p)] IN
          /\ Post(j, PriorityEvent(r))
          /\ job' = [job EXCEPT ![j] = r]
          /\ to_sched' = Send(to_sched, "cancel", CancelledBy(j, r))
    BY ZenonT(60) DEF Reprioritize
  <2> DEFINE r == [job[j] EXCEPT !.priority = Prioritized(job[j], p)]
  <2>2. job \in [Job -> StructJob] /\ job[j] \in StructJob
    BY ZenonT(60), SMTT(30) DEF Inv, TypeOK
  <2>3. r \in StructJob /\ SameFlags(job[j], r) /\ PriorityEvent(r) \in Event
    BY <2>2, PrioritizedType
  <2>4. /\ Post(j, PriorityEvent(r))
        /\ job' = [job EXCEPT ![j] = r]
        /\ to_sched' = Send(to_sched, "cancel", CancelledBy(j, r))
    BY <2>1
  <2> HIDE DEF r
  <2>5. job' \in [Job -> StructJob] /\ \A k \in Job : SameFlags(job[k], job'[k])
    BY <2>2, <2>3, <2>4 DEF SameFlags
  <2>6. event_queue' \in [Job -> Seq(Event)]
    BY <2>3, <2>4, <1>PostType, ZenonT(60), SMTT(30) DEF Inv
  <2>7. to_sched' \in Seq(SchedRequest)
    BY <2>4, SendType, CancelledByType, ZenonT(60), SMTT(30) DEF Inv, TypeOK
  <2>8. requests' \in [RequestKind -> Nat]
    BY <1>CountsType, ZenonT(60), SMTT(30) DEF Reprioritize, RequestKind, Inv, TypeOK
  <2>9. UNCHANGED <<jobs, queue, sent, batches, start, online, topic, housekept,
                    todo, from_sched, scheduler, execution>>
    BY DEF Reprioritize
  <2>10. QueueFlags'
    BY <2>5, <2>9, <1>FlagsKept, ZenonT(60), SMTT(30) DEF Inv
  <2> QED
    BY <2>5, <2>6, <2>7, <2>8, <2>9, <2>10, SMTT(20), ZenonT(60), SMTT(30) DEF Inv, TypeOK, jobs, batches,
       scheduler, execution
\* The end of housekeeping frees the resources of a job.
<1>HousekeepingInv.
  ASSUME Inv, NEW j \in Job, HousekeepingDone(j)
  PROVE  Inv'
  <2> USE <1>HousekeepingInv
  <2>1. to_sched' \in Seq(SchedRequest)
    BY SendType, ZenonT(60), SMTT(30) DEF HousekeepingDone, alloc_send_free_request, Inv, TypeOK
  <2> QED
    BY <2>1, ZenonT(60), SMTT(30) DEF HousekeepingDone, Inv, TypeOK, QueueFlags, jobs, batches,
       scheduler, execution
<1> SUFFICES ASSUME Inv, [Next]_vars
             PROVE  Inv'
  OBVIOUS
<1>1. CASE Global
  BY <1>1, <1>BatchInv, <1>QueueStopInv, <1>QueueStartInv, <1>SchedGlobalInv, <1>ExecGlobalInv,
     ZenonT(60), SMTT(30)
     DEF Global
<1>2. ASSUME NEW j \in Job, Handler(j)
      PROVE  Inv'
  BY <1>2, <1>ProcessInv, <1>ActInv, <1>SubmitInv, <1>UserInv, <1>AllocRequestInv,
     <1>AllocResponseInv, ZenonT(60), SMTT(30) DEF Handler
<1>3. ASSUME NEW j \in Job, Partner(j)
      PROVE  Inv'
  BY <1>3, <1>SchedPartnerInv, <1>SchedRaiseInv, <1>ExecPartnerInv, <1>PluginInv,
     <1>ReprioritizeInv, <1>HousekeepingInv, ZenonT(60), SMTT(30) DEF Partner
<1>4. CASE UNCHANGED vars
  BY <1>4 DEF Inv, TypeOK, QueueFlags, vars, manager, jobs, batches, channels,
     scheduler, execution
<1> QED
  BY <1>1, <1>2, <1>3, <1>4, ZenonT(60), SMTT(30) DEF Next

\* The initial states satisfy Inv.
LEMMA InvInit == Init => Inv
<1> SUFFICES ASSUME Init
             PROVE  Inv
  BY ZenonT(60), SMTT(30)
<1>1. NewJob \in StructJob /\ ~ NewJob.alloc_queued /\ ~ NewJob.alloc_pending
  BY PluginAssumption, SMTT(20), SMTT(30), SMTT(60) DEF NewJob, StructJob, State, Priority, Urgency, DEFAULT,
     FLUX_JOB_PRIORITY_MIN, FLUX_JOB_PRIORITY_MAX
<1>2. TypeOK
  <2>1. job \in [Job -> StructJob] /\ requests \in [RequestKind -> Nat]
    BY <1>1, ZenonT(60), SMTT(30) DEF Init
  <2>2. event_queue \in [Job -> Seq(Event)] /\ exec \in [Job -> Phase]
    BY SMTT(20), SMTT(30), SMTT(60) DEF Init, Phase
  <2>3. /\ commits \in Seq(SUBSET Job)
        /\ to_sched \in Seq(SchedRequest) /\ from_sched \in Seq(SchedResponse)
    BY SMTT(20), SMTT(30), SMTT(60) DEF Init
  <2>4. /\ active \subseteq Job /\ inactive \subseteq Job
        /\ queue \subseteq Job /\ sent \subseteq Job
        /\ batch \subseteq Job /\ housekept \subseteq Job
        /\ todo \subseteq Job
    BY ZenonT(60), SMTT(30) DEF Init
  <2>5. /\ start \in BOOLEAN /\ online \in BOOLEAN /\ topic \in BOOLEAN
        /\ exec_up \in BOOLEAN /\ sched \in {"down", "hello", "ready"}
    BY ZenonT(60) DEF Init
  <2>6. /\ sched_queue \subseteq Job /\ sched_alloc \subseteq Job
        /\ sched_commit \subseteq Job /\ sched_fail \subseteq Job
    BY ZenonT(60), SMTT(30) DEF Init
  <2> QED
    BY <2>1, <2>2, <2>3, <2>4, <2>5, <2>6, ZenonT(60), SMTT(30) DEF TypeOK, Phase
<1>3. QueueFlags
  BY <1>1, ZenonT(60), SMTT(30) DEF Init, QueueFlags
<1> QED
  BY <1>2, <1>3 DEF Inv

\* The variables of the job manager and its partners always have their types.
THEOREM TypeCorrect == Spec => []TypeOK
<1>1. Inv => TypeOK
  BY DEF Inv
<1> QED
  BY <1>1, InvInit, InvStep, PTL DEF Spec

\* For any set of jobs, any plugins and any scheduler limit, the flags of struct
\* job agree with alloc->queue and alloc->sent at every step of every handler.
THEOREM FlagsCorrect == Spec => []QueueFlags
<1>1. Inv => QueueFlags
  BY ZenonT(60), SMTT(30) DEF Inv
<1> QED
  BY <1>1, InvInit, InvStep, PTL DEF Spec

-----------------------------------------------------------------------------
(* Start requests. *)

\* A step sends the start request of job k.
Start(k) == exec[k] = "none" /\ exec'[k] = "init"
AfterProlog(k) == /\ job'[k].state = "RUN"
                  /\ job'[k].perilog_active = 0
                  /\ ~ IsQueued(event_queue'[k], "prolog-start")

\* event_job_action sends a start request only for a job whose prologs are over.
LEMMA ActionStart ==
  ASSUME TypeOK, NEW j \in Job, NEW r \in StructJob, NEW q \in Seq(Event),
         NEW ts, NEW done \in Nat, event_job_action(j, r, q, ts, done),
         NEW k \in Job, Start(k)
  PROVE  AfterProlog(k)
<1>1. ActionRun(j, r, q, ts, done) /\ Starts(r, q) /\ k = j
  <2>1. exec' # exec
    BY ZenonT(60), SMTT(30) DEF Start
  <2>2. ActionRun(j, r, q, ts, done)
    BY <2>1, ZenonT(60), SMTT(30) DEF event_job_action, ActionDepend, ActionPriority, ActionSched,
       ActionCleanup, ActionInactive
  <2> QED
    BY <2>1, <2>2, ZenonT(60), SMTT(30) DEF ActionRun, Start, TypeOK
<1>2. job'[j].state = "RUN" /\ job'[j].perilog_active = 0
  <2>1. PICK x \in BOOLEAN :
          job' = [job EXCEPT ![j] = [r EXCEPT !.start_pending = x]]
    BY <1>1, ZenonT(60) DEF ActionRun
  <2>2. r.state = "RUN" /\ r.perilog_active = 0
    BY <1>1, ZenonT(60), SMTT(30) DEF ActionRun, Starts
  <2> QED
    BY <2>1, <2>2 DEF TypeOK, StructJob
<1>3. ~ IsQueued(event_queue'[j], "prolog-start")
  <2>1. event_queue'[j] = SubSeq(q, done + 1, Len(q))
    BY <1>1, ZenonT(60) DEF ActionRun, Dequeue, TypeOK
  <2>2. ~ IsQueued(q, "prolog-start")
    BY <1>1, ZenonT(60), SMTT(30) DEF Starts
  <2>3. \A i \in 1..Len(SubSeq(q, done + 1, Len(q))) :
          /\ i + done \in 1..Len(q)
          /\ SubSeq(q, done + 1, Len(q))[i] = q[i + done]
    OBVIOUS
  <2> QED
    BY <2>1, <2>2, <2>3, SMTT(20), ZenonT(60), SMTT(30) DEF IsQueued
<1> QED
  BY <1>1, <1>2, <1>3, SMTT(20), ZenonT(60), SMTT(30) DEF AfterProlog

\* Only Process and Act, through event_job_action, ever send a start request.
LEMMA StartStep ==
  ASSUME Inv, [Next]_vars, NEW k \in Job, Start(k)
  PROVE  AfterProlog(k)
<1>1. exec' # exec /\ exec'[k] = "init" /\ exec[k] = "none"
  BY ZenonT(60), SMTT(30) DEF Start
<1>2. ASSUME NEW j \in Job, Process(j)
      PROVE  AfterProlog(k)
  <2> DEFINE q == event_queue[j]
             e == Head(q)
             r == event_job_update(job[j], e)
  <2>1. q \in Seq(Event) /\ e \in Event /\ job[j] \in StructJob
    <3>1. event_queue[j] # << >>
      BY <1>2, Zenon DEF Process, Busy
    <3>2. event_queue[j] \in Seq(Event) /\ job[j] \in StructJob
      BY DEF Inv, TypeOK
    <3>3. ASSUME NEW s \in Seq(Event), s # << >> PROVE Head(s) \in Event
      BY <3>3, SMTT(20), SMTT(30), SMTT(60)
    <3> QED
      BY <3>1, <3>2, <3>3, ZenonT(60), SMTT(30)
  <2>2. ~ EntryRefused(job[j], e)
    BY <1>1, <1>2, ZenonT(60) DEF Process
  <2>3. r \in StructJob
    BY <2>1, <2>2, UpdateType DEF EntryRefused
  <2>4. JobtapCall(j, r, q, 1) \/ event_job_action(j, r, q, to_sched, 1)
    BY <1>2, <2>2, ZenonT(60) DEF Process
  <2> HIDE DEF q, e, r
  <2>5. PICK x \in StructJob, y \in Seq(Event), ts \in Seq(SchedRequest) :
          event_job_action(j, x, y, ts, 1)
    BY <2>1, <2>3, <2>4, JobtapAction DEF Inv, TypeOK
  <2> QED
    BY <2>5, ActionStart, SMTT(20), ZenonT(60), SMTT(30) DEF Inv
<1>3. ASSUME NEW j \in Job, Act(j)
      PROVE  AfterProlog(k)
  <2>1. /\ event_job_action(j, job[j], event_queue[j], to_sched, 0)
        /\ job[j] \in StructJob /\ event_queue[j] \in Seq(Event)
    BY <1>3 DEF Act, Inv, TypeOK
  <2> QED
    BY <2>1, ActionStart, ZenonT(60) DEF Inv
<1>4. ~ ExecUnload
  BY <1>1 DEF ExecUnload
<1>5. ~ Global
  BY <1>1, <1>4 DEF Global, BatchTimeout, CommitDone, QueueStop, QueueStart,
     SchedHello, SchedReady, SchedGone, ExecHello, execution
<1>6. ASSUME NEW j \in Job, Handler(j)
      PROVE  Process(j) \/ Act(j)
  BY <1>1, <1>6, ZenonT(60) DEF Handler, Submit, RaiseRequest, UrgencyRequest,
     UpdateRequest, AllocRequest, AllocUnwanted, AllocSuccess, AllocExists,
     AllocDeny, AllocCancel, AllocError, Response, execution
<1>7. ASSUME NEW j \in Job, Partner(j)
      PROVE  FALSE
  <2>1. ASSUME NEW p \in Phase, p # "init", exec' = [exec EXCEPT ![j] = p]
        PROVE  FALSE
    BY <1>1, <2>1 DEF Inv, TypeOK, Phase
  <2>2. ~ (ExecStart(j) \/ ExecException(j) \/ ExecAbort(j) \/ ExecFinish(j)
           \/ ExecRelease(j) \/ ExecError(j))
    BY <2>1 DEF ExecStart, ExecException, ExecAbort, ExecFinish, ExecRelease,
       ExecError, StartResponse, Phase
  <2> QED
    BY <1>1, <1>7, <2>2, ZenonT(60) DEF Partner, SchedAllocCb, SchedAllocError,
       SchedCancelCb, SchedFreeCb, SchedTryAlloc, SchedCommitDone, SchedRaise,
       DependencyRemove, PrologFinish, EpilogFinish, Reprioritize,
       HousekeepingDone, Receive, execution
<1>8. ~ UNCHANGED vars
  BY <1>1 DEF vars, execution
<1> QED
  BY <1>2, <1>3, <1>5, <1>6, <1>7, <1>8 DEF Next

\* A start request is sent only to a job in RUN whose prologs have all finished,
\* those included that plugins have just started, for any number of prologs.
THEOREM StartCorrect == Spec => StartAfterProlog
<1>1. Inv /\ [Next]_vars
        => [\A j \in Job : exec[j] = "none" /\ exec'[j] = "init"
                            => /\ job'[j].state = "RUN"
                               /\ job'[j].perilog_active = 0
                               /\ ~ IsQueued(event_queue'[j],
                                             "prolog-start")]_vars
  BY StartStep, ZenonT(60) DEF Start, AfterProlog
<1> QED
  BY <1>1, InvInit, InvStep, PTL DEF Spec, StartAfterProlog

===========================================================================
