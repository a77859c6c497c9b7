------------------------ MODULE JobManagerExecProofs ------------------------
EXTENDS JobManagerLifeProofs

(***************************************************************************)
(* What the exec service owes to a job, for every set of jobs, plugins and *)
(* limits: while the exec service neither unloads nor fails a request, no  *)
(* resources are let go under a running job (ReleasedCorrect) and a job in *)
(* CLEANUP always has something left that moves it on (CleanupCorrect).    *)
(*                                                                         *)
(* Both follow from LifeInv and ExecInv, which ties the jobs the exec      *)
(* service knows to the start requests the job manager waits for.          *)
(***************************************************************************)

-----------------------------------------------------------------------------
(* The exec service, as long as it is neither unloaded nor fails a request *)

\* It knows the jobs whose start request is pending, and a job in CLEANUP that
\* waits for none of them has an event to process.
ExecInv ==
  /\ topic <=> exec_up
  /\ \A k \in Job : /\ exec[k] # "none" <=> job[k].start_pending
                    /\ exec[k] # "none" => topic
                    /\ Wakes(job[k], event_queue[k])

\* A step that no job in CLEANUP needs to wait for.
Quietly ==
  \A k \in Job : /\ job'[k].state = job[k].state
                 /\ job'[k].perilog_active = job[k].perilog_active
                 /\ job'[k].start_pending = job[k].start_pending
                 /\ event_queue'[k] = event_queue[k] \/ event_queue'[k] # << >>

\* Such a step keeps ExecInv when the exec service takes no part in it.
LEMMA QuietlyExec ==
  ASSUME ExecInv, Quietly, UNCHANGED <<exec, exec_up, topic>>
  PROVE  ExecInv'
  BY DEF ExecInv, Quietly, Wakes

\* event_job_action starts a job by setting start_pending.
LEMMA ActionExec ==
  ASSUME TypeOK, NEW j \in Job, NEW x \in StructJob, NEW y, NEW ts, NEW done,
         event_job_action(j, x, y, ts, done),
         exec[j] # "none" <=> x.start_pending, exec[j] # "none" => topic
  PROVE  /\ exec'[j] # "none" <=> job'[j].start_pending
         /\ exec'[j] # "none" => topic
<1> USE DEF TypeOK
<1>1. CASE ActionDepend(j, x, y, ts, done)
  BY <1>1, SMTT(20), ZenonT(60), SMTT(30) DEF ActionDepend, StructJob
<1>2. CASE ActionPriority(j, x, y, ts, done)
  BY <1>2, SMTT(20), ZenonT(60), SMTT(30) DEF ActionPriority, StructJob
<1>3. CASE ActionSched(j, x, y, ts, done)
  <2>1. PICK b \in BOOLEAN : job' = [job EXCEPT ![j] = [x EXCEPT !.alloc_queued = b]]
    BY <1>3, ZenonT(60) DEF ActionSched
  <2> QED
    BY <1>3, <2>1, SMTT(20), ZenonT(60), SMTT(30) DEF ActionSched, StructJob
<1>4. CASE ActionRun(j, x, y, ts, done)
  <2>1. PICK b \in BOOLEAN : /\ b <=> x.start_pending \/ Starts(x, y)
                             /\ job' = [job EXCEPT ![j] = [x EXCEPT !.start_pending = b]]
    BY <1>4, ZenonT(60) DEF ActionRun
  <2>2. job'[j].start_pending = b
    BY <2>1, SMTT(20), ZenonT(60), SMTT(30) DEF StructJob
  <2>3. exec'[j] = IF Starts(x, y) THEN "init" ELSE exec[j]
    BY <1>4, SMTT(20), ZenonT(60), SMTT(30) DEF ActionRun
  <2>4. Starts(x, y) => topic
    BY SMTT(20), ZenonT(60), SMTT(30) DEF Starts
  <2> QED
    BY <2>1, <2>2, <2>3, <2>4, SMTT(20), ZenonT(60), SMTT(30)
<1>5. CASE ActionCleanup(j, x, y, ts, done)
  BY <1>5, SMTT(20), ZenonT(60), SMTT(30) DEF ActionCleanup, StructJob
<1>6. CASE ActionInactive(j, x, y, ts, done)
  BY <1>6, SMTT(20), ZenonT(60), SMTT(30) DEF ActionInactive, StructJob
<1> QED
  BY <1>1, <1>2, <1>3, <1>4, <1>5, <1>6, ZenonT(60), SMTT(30) DEF event_job_action

\* The event machinery keeps ExecInv.
LEMMA WorksExec ==
  ASSUME Inv, LifeInv, ExecInv, NEW j \in Job, NEW x \in StructJob, NEW y \in Seq(Event),
         NEW ts, NEW done \in {0, 1}, Works(j, x, y, ts, done),
         x.state # "INACTIVE" => j \in active /\ j \notin inactive,
         UNCHANGED <<start, topic, exec_up>>
  PROVE  ExecInv'
<1>1. TypeOK /\ KeptLife(j) /\ event_job_action(j, x, y, ts, done)
      /\ x.start_pending = job[j].start_pending
  BY LifeIs, SMTT(20), ZenonT(60), SMTT(30) DEF Inv, Works, Untouched
<1>2. Wakes(job'[j], event_queue'[j])
  BY <1>1, WorksLife, SMTT(20), ZenonT(60), SMTT(30)
<1>3. /\ exec'[j] # "none" <=> job'[j].start_pending
      /\ exec'[j] # "none" => topic
  BY <1>1, ActionExec, SMTT(20), ZenonT(60), SMTT(30) DEF ExecInv
<1>4. ASSUME NEW k \in Job, k # j
      PROVE  /\ job'[k] = job[k] /\ event_queue'[k] = event_queue[k]
             /\ exec'[k] = exec[k]
  BY <1>1, <1>4, ActionOthers, SMTT(20), ZenonT(60), SMTT(30) DEF Skips
<1> QED
  BY <1>2, <1>3, <1>4, SMTT(20), ZenonT(60), SMTT(30) DEF ExecInv

\* Processing an event and acting on a job keep ExecInv.
LEMMA MachineExec ==
  ASSUME Inv, LifeInv, ExecInv, NEW j \in Job, Process(j) \/ Act(j)
  PROVE  ExecInv'
<1>1. UNCHANGED <<start, topic, exec_up>>
  BY DEF Process, Act
<1>2. CASE Act(j)
  <2>1. job[j] \in StructJob /\ event_queue[j] \in Seq(Event)
    BY DEF Inv, TypeOK
  <2> QED
    BY <1>1, <1>2, <2>1, ActWorks, WorksExec, ZenonT(60), SMTT(30)
<1>3. CASE Process(j) /\ ~ EntryRefused(job[j], Head(event_queue[j]))
  <2>1. PICK x \in StructJob, y \in Seq(Event), ts \in Seq(SchedRequest) :
          Works(j, x, y, ts, 1)
    BY <1>3, ProcessWorks, ZenonT(60), SMTT(30)
  <2>2. j \in active /\ j \notin inactive
    BY <1>3, BusyActive DEF Process
  <2> QED
    BY <1>1, <2>1, <2>2, WorksExec, SMTT(20), ZenonT(60), SMTT(30)
<1>4. CASE Process(j) /\ EntryRefused(job[j], Head(event_queue[j]))
  <2>1. /\ event_queue' = [event_queue EXCEPT ![j] = << >>]
        /\ UNCHANGED <<job, exec>> /\ Busy(j)
    BY <1>4, ZenonT(60), SMTT(30) DEF Process
  <2>2. Head(event_queue[j]).name \in FatalException => job[j].state # "NEW"
    BY <2>1, SMTT(20), ZenonT(60), SMTT(30) DEF LifeInv, EventsFit, Busy, FatalException
  <2>3. job[j].perilog_active = PerilogMax
    BY <1>4, <2>2, SMTT(20), ZenonT(60), SMTT(30) DEF EntryRefused, PerilogOverflow
  <2>4. job[j].perilog_active # 0
    BY <2>3, PluginAssumption
  <2>5. ASSUME NEW k \in Job PROVE Wakes(job'[k], event_queue'[k])
    BY <2>1, <2>4, ZenonT(60), SMTT(30) DEF ExecInv, Wakes, Inv, TypeOK
  <2> QED
    BY <1>1, <2>1, <2>5, ZenonT(60), SMTT(30) DEF ExecInv
<1> QED
  BY <1>2, <1>3, <1>4, SMTT(20), ZenonT(60), SMTT(30)

\* A posted event leaves a queue that is not empty.
LEMMA PostWakes ==
  ASSUME TypeOK, NEW j \in Job, NEW e \in Event, Post(j, e), NEW k \in Job
  PROVE  event_queue'[k] = event_queue[k] \/ event_queue'[k] # << >>
<1>1. Append(event_queue[j], e) # << >>
  <2>1. event_queue[j] \in Seq(Event)
    BY DEF TypeOK
  <2> QED
    BY <2>1, AppendFacts, SMTT(20), ZenonT(60), SMTT(30)
<1> QED
  BY <1>1, SMTT(20), ZenonT(60), SMTT(30) DEF Post, TypeOK

\* The handlers that post an event or leave every queue as it is, and have no
\* business with the exec service.
LEMMA HandlerExec ==
  ASSUME Inv, LifeInv, ExecInv, NEW j \in Job,
         \/ RaiseRequest(j) \/ UrgencyRequest(j) \/ UpdateRequest(j)
         \/ DependencyRemove(j) \/ PrologFinish(j) \/ EpilogFinish(j) \/ SchedRaise(j)
  PROVE  ExecInv'
<1>1. UNCHANGED <<job, exec, exec_up, topic>>
  BY ZenonT(60) DEF RaiseRequest, UrgencyRequest, UpdateRequest, DependencyRemove, PrologFinish,
     EpilogFinish, SchedRaise, PostOnly, execution
<1>2. TypeOK
  BY DEF Inv
<1>3. ASSUME NEW k \in Job
      PROVE  event_queue'[k] = event_queue[k] \/ event_queue'[k] # << >>
  <2>1. CASE SchedRaise(j)
    <3>1. Ev("exception.scheduler-restart") \in Event
      BY EvType DEF EventName, FatalException
    <3> QED
      BY <1>2, <2>1, <3>1, PostWakes, SMTT(20), ZenonT(60), SMTT(30) DEF SchedRaise
  <2>2. CASE UrgencyRequest(j)
    <3>1. PICK u \in UserUrgency : Post(j, [name |-> "urgency", arg |-> u])
      BY <2>2 DEF UrgencyRequest, PostOnly
    <3>2. [name |-> "urgency", arg |-> u] \in Event
      BY PluginAssumption, ZenonT(60), SMTT(30) DEF Event
    <3> QED
      BY <1>2, <3>1, <3>2, PostWakes, ZenonT(60), SMTT(30)
  <2>3. CASE ~ SchedRaise(j) /\ ~ UrgencyRequest(j)
    <3>1. PICK name \in {"exception", "memo", "jobspec-update", "dependency-remove",
                         "prolog-finish", "epilog-finish"} : Post(j, Ev(name))
      BY <2>3, SMTT(20), ZenonT(60), SMTT(30) DEF RaiseRequest, UpdateRequest, DependencyRemove, PrologFinish,
         EpilogFinish, PostOnly
    <3>2. Ev(name) \in Event
      BY EvType, ZenonT(60), SMTT(30) DEF EventName, FatalException
    <3> QED
      BY <1>2, <3>1, <3>2, PostWakes, ZenonT(60), SMTT(30)
  <2> QED
    BY <2>1, <2>2, <2>3, ZenonT(60), SMTT(30)
<1>4. Quietly
  BY <1>1, <1>3, SMTT(20), ZenonT(60), SMTT(30) DEF Quietly
<1> QED
  BY <1>1, <1>4, QuietlyExec, SMTT(20), ZenonT(60), SMTT(30)

\* The handlers of the scheduler's answers.
LEMMA AnswerExec ==
  ASSUME Inv, LifeInv, ExecInv, NEW j \in Job,
         AllocSuccess(j) \/ AllocDeny(j) \/ AllocCancel(j) \/ AllocRequest(j)
         \/ Reprioritize(j)
  PROVE  ExecInv'
<1>1. UNCHANGED <<exec, exec_up, topic>>
  BY DEF AllocSuccess, AllocDeny, AllocCancel, AllocRequest, Reprioritize, Response, execution
<1>2. TypeOK
  BY ZenonT(60), SMTT(30) DEF Inv
<1>3. ASSUME NEW k \in Job
      PROVE  event_queue'[k] = event_queue[k] \/ event_queue'[k] # << >>
  <2>1. CASE AllocSuccess(j)
    BY <1>2, <2>1, EvType, PostWakes, SMTT(20), ZenonT(60), SMTT(30) DEF AllocSuccess, EventName
  <2>2. CASE AllocDeny(j)
    BY <1>2, <2>2, EvType, PostWakes, ZenonT(60), SMTT(30) DEF AllocDeny, EventName, FatalException
  <2>3. CASE AllocCancel(j) \/ AllocRequest(j)
    BY <2>3 DEF AllocCancel, AllocRequest
  <2>4. CASE Reprioritize(j)
    <3>1. PICK p \in PluginPriority :
            LET r == [job[j] EXCEPT !.priority = Prioritized(job[j], p)]
            IN Post(j, PriorityEvent(r))
      BY <2>4, SMTT(20), ZenonT(60), SMTT(30) DEF Reprioritize
    <3> DEFINE r == [job[j] EXCEPT !.priority = Prioritized(job[j], p)]
    <3>2. PriorityEvent(r) \in Event
      BY <1>2, PrioritizedType, SMTT(20), ZenonT(60), SMTT(30) DEF TypeOK
    <3>3. Post(j, PriorityEvent(r))
      BY <3>1, SMTT(20), ZenonT(60), SMTT(30)
    <3> HIDE DEF r
    <3> QED
      BY <1>2, <3>2, <3>3, PostWakes, ZenonT(60), SMTT(30)
  <2> QED
    BY <2>1, <2>2, <2>3, <2>4, ZenonT(60), SMTT(30)
<1>4. ASSUME NEW k \in Job
      PROVE  /\ job'[k].state = job[k].state
             /\ job'[k].perilog_active = job[k].perilog_active
             /\ job'[k].start_pending = job[k].start_pending
  <2>0. job[k] \in StructJob /\ job \in [Job -> StructJob]
    BY <1>2, ZenonT(60), SMTT(30) DEF TypeOK
  <2>1. CASE AllocSuccess(j) \/ AllocDeny(j) \/ AllocRequest(j)
    BY <2>0, <2>1, SMTT(20), ZenonT(60), SMTT(30) DEF AllocSuccess, AllocDeny, AllocRequest, StructJob
  <2>2. CASE AllocCancel(j)
    <3>1. \/ RequeuePending({j}) \/ job' = job
          \/ job' = [job EXCEPT ![j].alloc_pending = FALSE]
      BY <2>2 DEF AllocCancel
    <3>2. CASE RequeuePending({j})
      BY <2>0, <3>2, ZenonT(60) DEF RequeuePending, StructJob
    <3> QED
      BY <2>0, <3>1, <3>2, SMTT(20), ZenonT(60), SMTT(30) DEF StructJob
  <2>3. CASE Reprioritize(j)
    BY <2>0, <2>3, SMTT(20), SMTT(30), SMTT(60) DEF Reprioritize, StructJob
  <2> QED
    BY <2>1, <2>2, <2>3, SMTT(20), ZenonT(60), SMTT(30)
<1>5. Quietly
  BY <1>3, <1>4, SMTT(20), ZenonT(60), SMTT(30) DEF Quietly
<1> QED
  BY <1>1, <1>5, QuietlyExec, ZenonT(60), SMTT(30)

\* The steps of the queues, the batches, the scheduler and housekeeping.
LEMMA OtherExec ==
  ASSUME Inv, LifeInv, ExecInv, NEW j \in Job,
         \/ BatchTimeout \/ CommitDone \/ QueueStop \/ QueueStart
         \/ SchedHello \/ SchedReady \/ SchedGone
         \/ AllocUnwanted(j) \/ AllocExists(j) \/ AllocError(j) \/ HousekeepingDone(j)
         \/ SchedAllocCb(j) \/ SchedAllocError(j) \/ SchedCancelCb(j) \/ SchedFreeCb(j)
         \/ SchedTryAlloc(j) \/ SchedCommitDone(j)
         \/ UNCHANGED vars
  PROVE  ExecInv'
<1>1. UNCHANGED <<event_queue, exec, exec_up, topic>>
  <2>1. CASE BatchTimeout \/ CommitDone \/ QueueStop \/ QueueStart \/ UNCHANGED vars
    BY <2>1, ZenonT(60) DEF BatchTimeout, CommitDone, QueueStop, QueueStart, execution, vars, manager
  <2>2. CASE SchedHello \/ SchedReady \/ SchedGone \/ HousekeepingDone(j)
    BY <2>2, ZenonT(60) DEF SchedHello, SchedReady, SchedGone, HousekeepingDone, execution, manager
  <2>3. CASE AllocUnwanted(j) \/ AllocExists(j) \/ AllocError(j)
    BY <2>3, SMTT(20), ZenonT(60), SMTT(30) DEF AllocUnwanted, AllocExists, AllocError, Response, execution
  <2>4. CASE SchedAllocCb(j) \/ SchedAllocError(j) \/ SchedCancelCb(j) \/ SchedFreeCb(j)
             \/ SchedTryAlloc(j) \/ SchedCommitDone(j)
    BY <2>4, ZenonT(60) DEF SchedAllocCb, SchedAllocError, SchedCancelCb, SchedFreeCb, Receive,
       SchedTryAlloc, SchedCommitDone, execution, manager
  <2> QED
    BY <2>1, <2>2, <2>3, <2>4, SMTT(20), ZenonT(60), SMTT(30)
<1>2. ASSUME NEW k \in Job
      PROVE  /\ job'[k].state = job[k].state
             /\ job'[k].perilog_active = job[k].perilog_active
             /\ job'[k].start_pending = job[k].start_pending
  <2>0. job[k] \in StructJob /\ job \in [Job -> StructJob]
    BY SMTT(20), ZenonT(60), SMTT(30) DEF Inv, TypeOK
  <2>1. CASE CommitDone
    BY <2>0, <2>1, SMTT(20), ZenonT(60), SMTT(30) DEF CommitDone, StructJob
  <2>2. CASE QueueStop
    BY <2>0, <2>2, ZenonT(60), SMTT(30) DEF QueueStop, StructJob
  <2>3. CASE QueueStart
    BY <2>0, <2>3, ZenonT(60), SMTT(30) DEF QueueStart, StructJob
  <2>4. CASE SchedGone \/ AllocExists(j) \/ AllocError(j)
    <3> DEFINE J == {i \in active : job[i].alloc_pending}
    <3>1. job' = job \/ RequeuePending(J)
      BY <2>4, SMTT(20), ZenonT(60), SMTT(30) DEF SchedGone, AllocExists, AllocError, AllocTeardown
    <3> HIDE DEF J
    <3>2. CASE RequeuePending(J)
      BY <2>0, <3>2, ZenonT(60) DEF RequeuePending, StructJob
    <3> QED
      BY <3>1, <3>2, ZenonT(60), SMTT(30)
  <2>5. CASE BatchTimeout \/ SchedHello \/ SchedReady \/ AllocUnwanted(j)
             \/ HousekeepingDone(j) \/ UNCHANGED vars
    BY <2>5, ZenonT(60) DEF BatchTimeout, SchedHello, SchedReady, AllocUnwanted, HousekeepingDone,
       manager, vars
  <2>6. CASE SchedAllocCb(j) \/ SchedAllocError(j) \/ SchedCancelCb(j) \/ SchedFreeCb(j)
             \/ SchedTryAlloc(j) \/ SchedCommitDone(j)
    BY <2>6, ZenonT(60) DEF SchedAllocCb, SchedAllocError, SchedCancelCb, SchedFreeCb, Receive,
       SchedTryAlloc, SchedCommitDone, manager
  <2> QED
    BY <2>1, <2>2, <2>3, <2>4, <2>5, <2>6, ZenonT(60), SMTT(30)
<1>3. Quietly
  BY <1>1, <1>2, ZenonT(60) DEF Quietly
<1> QED
  BY <1>1, <1>3, QuietlyExec, SMTT(20), ZenonT(60), SMTT(30)

\* submit_job
LEMMA SubmitExec ==
  ASSUME Inv, LifeInv, ExecInv, NEW j \in Job, Submit(j)
  PROVE  ExecInv'
<1>1. UNCHANGED <<exec, exec_up, topic>>
  BY DEF Submit, execution
<1>2. PICK u \in UserUrgency, n \in DependCount :
        job' = [job EXCEPT ![j] = [@ EXCEPT !.urgency = u,
                                            !.dependencies = n,
                                            !.hold_events = TRUE]]
  BY ZenonT(60) DEF Submit
<1>3. event_queue' = [event_queue EXCEPT ![j] = <<Ev("validate")>>]
  BY DEF Submit
<1>4. <<Ev("validate")>> # << >>
  OBVIOUS
<1>5. Quietly
  <2>1. job \in [Job -> StructJob] /\ event_queue \in [Job -> Seq(Event)]
    BY ZenonT(60), SMTT(30) DEF Inv, TypeOK
  <2>2. ASSUME NEW k \in Job, k # j
        PROVE  job'[k] = job[k] /\ event_queue'[k] = event_queue[k]
    BY <1>2, <1>3, <2>1, <2>2, ZenonT(60), SMTT(30)
  <2>3. job'[j] = [job[j] EXCEPT !.urgency = u, !.dependencies = n, !.hold_events = TRUE]
        /\ event_queue'[j] # << >> /\ job[j] \in StructJob
    BY <1>2, <1>3, <1>4, <2>1, ZenonT(60), SMTT(30)
  <2>4. /\ job'[j].state = job[j].state
        /\ job'[j].perilog_active = job[j].perilog_active
        /\ job'[j].start_pending = job[j].start_pending
    BY <2>3, SMTT(20), SMTT(30), SMTT(60) DEF StructJob
  <2> QED
    BY <2>2, <2>3, <2>4, ZenonT(60), SMTT(30) DEF Quietly
<1> QED
  BY <1>1, <1>5, QuietlyExec, SMTT(20), ZenonT(60), SMTT(30)

\* The exec service's responses: the final release ends what start_pending stands
\* for, and posts the event that the job then has to process.
LEMMA ResponseExec ==
  ASSUME Inv, LifeInv, ExecInv, NEW j \in Job, exec[j] # "none",
         NEW p, NEW name \in {"start", "exception", "finish", "release"},
         p = "none" <=> name = "release", StartResponse(j, p, Ev(name))
  PROVE  ExecInv'
<1>1. TypeOK /\ UNCHANGED <<topic, exec_up>> /\ exec' = [exec EXCEPT ![j] = p]
  BY DEF Inv, StartResponse
<1>2. topic /\ job[j].start_pending
  BY ZenonT(60), SMTT(30) DEF ExecInv
<1>3. j \in active
  BY <1>2, SMTT(20), ZenonT(60), SMTT(30) DEF LifeInv, Known, Fresh, FreedQuiet
<1>4. Ev(name) \in Event /\ Ev(name).name = name
  BY EvType DEF EventName, FatalException, Ev
<1>5. Post(j, Ev(name))
  BY <1>2, <1>3, SMTT(20), ZenonT(60), SMTT(30) DEF StartResponse
<1>6. job' = IF name = "release" THEN [job EXCEPT ![j].start_pending = FALSE] ELSE job
  BY <1>2, <1>3, <1>4, SMTT(20), ZenonT(60), SMTT(30) DEF StartResponse
<1>7. \A k \in Job : /\ job'[k].state = job[k].state
                     /\ job'[k].perilog_active = job[k].perilog_active
                     /\ k # j => job'[k].start_pending = job[k].start_pending
  BY <1>1, <1>6, ZenonT(60) DEF TypeOK, StructJob
<1>8. job'[j].start_pending <=> name # "release"
  BY <1>1, <1>2, <1>6 DEF TypeOK, StructJob
<1>9. exec'[j] = p /\ \A k \in Job : k # j => exec'[k] = exec[k]
  BY <1>1 DEF TypeOK
<1>10. event_queue'[j] # << >>
  <2>1. event_queue'[j] = Append(event_queue[j], Ev(name))
    BY <1>1, <1>3, <1>5, PostActive, SMTT(20), ZenonT(60), SMTT(30)
  <2> QED
    BY <1>1, <1>4, <2>1, AppendFacts, ZenonT(60) DEF TypeOK
<1>11. \A k \in Job : k # j => event_queue'[k] = event_queue[k]
  BY <1>1, <1>3, <1>5, PostActive, ZenonT(60), SMTT(30)
<1>12. ASSUME NEW k \in Job, k # j
       PROVE  /\ exec'[k] # "none" <=> job'[k].start_pending
              /\ exec'[k] # "none" => topic'
              /\ Wakes(job'[k], event_queue'[k])
  BY <1>1, <1>7, <1>9, <1>11, <1>12, ZenonT(60), SMTT(30) DEF ExecInv, Wakes
<1>13. /\ exec'[j] # "none" <=> job'[j].start_pending
       /\ exec'[j] # "none" => topic'
       /\ Wakes(job'[j], event_queue'[j])
  BY <1>1, <1>2, <1>8, <1>9, <1>10, ZenonT(60), SMTT(30) DEF Wakes
<1>14. topic' <=> exec_up'
  BY <1>1 DEF ExecInv
<1> QED
  BY <1>12, <1>13, <1>14, ZenonT(60), SMTT(30) DEF ExecInv

\* Every step keeps ExecInv while the exec service stays and fails no request.
LEMMA ExecStep ==
  ASSUME MaxRequest["exec"] = 0
  PROVE  Inv /\ LifeInv /\ ExecInv /\ [Next]_vars => ExecInv'
<1> SUFFICES ASSUME Inv, LifeInv, ExecInv, [Next]_vars PROVE ExecInv'
  OBVIOUS
<1>1. ~ Counts("exec")
  <2>1. requests["exec"] \in Nat
    BY DEF Inv, TypeOK, RequestKind
  <2> QED
    BY <2>1, SMTT(20), ZenonT(60), SMTT(30) DEF Counts
<1>2. ASSUME NEW j \in Job, Handler(j) PROVE ExecInv'
  BY <1>2, MachineExec, SubmitExec, HandlerExec, AnswerExec, OtherExec, ZenonT(60), SMTT(30) DEF Handler
<1>3. ASSUME NEW j \in Job,
             ExecStart(j) \/ ExecException(j) \/ ExecFinish(j) \/ ExecRelease(j)
      PROVE  ExecInv'
  <2>1. /\ exec[j] # "none"
        /\ \E p \in {"none", "running", "killed", "final"},
              name \in {"start", "exception", "finish", "release"} :
             (p = "none" <=> name = "release") /\ StartResponse(j, p, Ev(name))
    BY <1>3, SMTT(20), ZenonT(60), SMTT(30) DEF ExecStart, ExecException, ExecFinish, ExecRelease
  <2> QED
    BY <2>1, ResponseExec, SMTT(20), ZenonT(60), SMTT(30)
<1>4. ASSUME NEW j \in Job, ExecAbort(j) PROVE ExecInv'
  <2>1. /\ UNCHANGED <<job, event_queue, topic, exec_up>> /\ exec[j] # "none"
        /\ exec' = [exec EXCEPT ![j] = "final"] \/ exec' = [exec EXCEPT ![j] = "killed"]
    BY <1>4, SMTT(20), ZenonT(60), SMTT(30) DEF ExecAbort, manager
  <2>2. \A k \in Job : exec'[k] # "none" <=> exec[k] # "none"
    BY <2>1 DEF Inv, TypeOK
  <2> QED
    BY <2>1, <2>2, SMTT(20), ZenonT(60), SMTT(30) DEF ExecInv
<1>5. ASSUME NEW j \in Job, ExecError(j) PROVE ExecInv'
  BY <1>1, <1>5, ZenonT(60), SMTT(30) DEF ExecError, ExecInv
<1>6. ASSUME NEW j \in Job, Partner(j) PROVE ExecInv'
  BY <1>3, <1>4, <1>5, <1>6, HandlerExec, AnswerExec, OtherExec, ZenonT(60), SMTT(30) DEF Partner
<1>7. CASE ExecHello
  <2>1. topic' /\ exec_up' /\ UNCHANGED <<job, event_queue, exec>>
    BY <1>7, ZenonT(60), SMTT(30) DEF ExecHello
  <2> QED
    BY <2>1, ZenonT(60), SMTT(30) DEF ExecInv
<1>8. CASE ExecUnload
  BY <1>1, <1>8 DEF ExecUnload
<1>9. CASE Job = {} /\ ~ ExecHello /\ ~ ExecUnload
  <2>1. UNCHANGED <<topic, exec_up>>
    BY <1>9, SMTT(20), ZenonT(60), SMTT(30) DEF Next, Global, BatchTimeout, CommitDone,
       QueueStop, QueueStart, SchedHello, SchedReady, SchedGone, execution, vars, manager
  <2> QED
    BY <1>9, <2>1, ZenonT(60), SMTT(30) DEF ExecInv
<1>10. CASE Job # {} /\ (Global \/ UNCHANGED vars)
  <2>1. PICK j \in Job : TRUE
    BY <1>10
  <2> QED
    BY <1>7, <1>8, <1>10, <2>1, OtherExec, ZenonT(60), SMTT(30) DEF Global
<1> QED
  BY <1>2, <1>6, <1>7, <1>8, <1>9, <1>10, ZenonT(60), SMTT(30) DEF Next

\* With LifeInv, it is what the two properties need.
LEMMA ExecInvariant ==
  ASSUME MaxRequest["exec"] = 0
  PROVE  Spec => [](Inv /\ LifeInv /\ ExecInv)
<1>1. Init => Inv /\ LifeInv /\ ExecInv
  <2>1. Init => ExecInv
    BY DEF Init, ExecInv, Wakes, NewJob
  <2> QED
    BY <2>1, InvInit, LifeInit, ZenonT(60), SMTT(30)
<1>2. Inv /\ LifeInv /\ ExecInv /\ [Next]_vars => (Inv /\ LifeInv /\ ExecInv)'
  BY InvStep, LifeStep, ExecStep, SMTT(20), ZenonT(60), SMTT(30)
<1> QED
  BY <1>1, <1>2, PTL DEF Spec

\* Resources are let go, to housekeeping or to the scheduler, only when the exec
\* service has sent the final release and no prolog or epilog is active: for every
\* set of jobs and plugins, while the exec service is not unloaded and answers no
\* start request with an error.  (When it does, start.c forgets start_pending while
\* job shells may still run.)
THEOREM ReleasedCorrect ==
  ASSUME MaxRequest["exec"] = 0
  PROVE  Spec => []ReleasedIdle
<1>1. LifeInv /\ ExecInv => ReleasedIdle
  <2> SUFFICES ASSUME LifeInv, ExecInv, NEW j \in Job, Released(j)
               PROVE  exec[j] = "none" /\ job[j].perilog_active = 0
    BY DEF ReleasedIdle
  <2>1. job[j].free_posted
    BY DEF Released, LifeInv
  <2> QED
    BY <2>1, SMTT(20), ZenonT(60), SMTT(30) DEF LifeInv, FreedQuiet, ExecInv
<1> QED
  BY <1>1, ExecInvariant, PTL

\* A job in CLEANUP always waits for the final release, a prolog or an epilog, so
\* that some event will take it to INACTIVE: under the same condition.
THEOREM CleanupCorrect ==
  ASSUME MaxRequest["exec"] = 0
  PROVE  Spec => []CleanupProgress
<1>1. Inv /\ LifeInv /\ ExecInv => CleanupProgress
  <2> SUFFICES ASSUME Inv, LifeInv, ExecInv, Idle, NEW j \in active, job[j].state = "CLEANUP"
               PROVE  job[j].start_pending \/ job[j].perilog_active > 0
    BY SMTT(20), ZenonT(60), SMTT(30) DEF CleanupProgress
  <2>1. j \in Job /\ KeptLife(j) /\ ~ Busy(j) /\ job[j].perilog_active \in Nat
    BY LifeIs, PluginAssumption, SMTT(20), SMTT(30), SMTT(60) DEF Inv, TypeOK, Idle, StructJob
  <2>2. event_queue[j] = << >>
    BY <2>1, RestEmpty, ZenonT(60), SMTT(30)
  <2>3. job[j].start_pending \/ job[j].perilog_active # 0
    BY <2>1, <2>2 DEF ExecInv, Wakes
  <2> QED
    BY <2>1, <2>3, SMTT(20), SMTT(30), SMTT(60)
<1> QED
  BY <1>1, ExecInvariant, PTL

=============================================================================
