----------------------- MODULE JobManagerLifeProofs -----------------------
EXTENDS JobManagerEventProofs

(***************************************************************************)
(* The life of a job, for every set of jobs, plugins and limits: a job     *)
(* that waits for resources is never forgotten (NoLostJobCorrect).         *)
(*                                                                         *)
(* LifeInv speaks of one job at a time, so the proof looks at what a step  *)
(* does to one job: it processes an event of the job (Process), acts on it *)
(* (Act), submits it (Submit), posts an event to it (Posted) or at most    *)
(* changes some of its flags (Calm).                                       *)
(***************************************************************************)

-----------------------------------------------------------------------------
(* The steps of the event machinery *)

\* The invariants of job k, with its place in the hashes.
KeptLife(k) ==
  /\ Known(k)
  /\ Life(job[k], event_queue[k], start)
  /\ k \in housekept => job[k].free_posted

\* LifeInv is about one job at a time.
LEMMA LifeIs == LifeInv <=> \A k \in Job : KeptLife(k)
  BY SMTT(20), ZenonT(60), SMTT(30) DEF LifeInv, KeptLife, Life

\* A step that leaves a job alone.
Skips(k) ==
  /\ job'[k] = job[k] /\ event_queue'[k] = event_queue[k]
  /\ (k \in active') = (k \in active) /\ (k \in inactive') = (k \in inactive)
  /\ k \in housekept' => k \in housekept

\* event_job_action touches one job.
LEMMA ActionOthers ==
  ASSUME TypeOK, NEW j \in Job, NEW x, NEW y, NEW ts, NEW done,
         event_job_action(j, x, y, ts, done), NEW k \in Job, k # j
  PROVE  Skips(k) /\ exec'[k] = exec[k]
<1> USE DEF Skips, Dequeue, TypeOK, jobs
<1>1. CASE ActionDepend(j, x, y, ts, done)
  BY <1>1 DEF ActionDepend
<1>2. CASE ActionPriority(j, x, y, ts, done)
  BY <1>2 DEF ActionPriority
<1>3. CASE ActionSched(j, x, y, ts, done)
  BY <1>3, SMTT(20), ZenonT(60), SMTT(30) DEF ActionSched
<1>4. CASE ActionRun(j, x, y, ts, done)
  BY <1>4, SMTT(20), ZenonT(60), SMTT(30) DEF ActionRun
<1>5. CASE ActionCleanup(j, x, y, ts, done)
  BY <1>5 DEF ActionCleanup
<1>6. CASE ActionInactive(j, x, y, ts, done)
  BY <1>6 DEF ActionInactive
<1> QED
  BY <1>1, <1>2, <1>3, <1>4, <1>5, <1>6, SMTT(20), ZenonT(60), SMTT(30) DEF event_job_action

\* An action on a job that is ready for it keeps the invariants.
LEMMA WorksLife ==
  ASSUME Inv, NEW j \in Job, NEW x \in StructJob, NEW y \in Seq(Event), NEW ts,
         NEW done \in {0, 1}, Works(j, x, y, ts, done), KeptLife(j), start' = start,
         x.state # "INACTIVE" => j \in active /\ j \notin inactive
  PROVE  /\ KeptLife(j)'
         /\ Wakes(job'[j], event_queue'[j])
<1>1. /\ event_job_action(j, x, y, ts, done) /\ done <= Len(y) /\ Ready(x, y, done)
      /\ x.free_posted = job[j].free_posted
  BY DEF Works, Untouched
<1>2. TypeOK
  BY DEF Inv
<1>3. CASE x.state \notin Ended
  <2>1. Life(job'[j], event_queue'[j], start)
    BY <1>1, <1>2, <1>3, LiveLife, SMTT(20), ZenonT(60), SMTT(30)
  <2>2. Stable(x, job'[j]) /\ UNCHANGED <<jobs, housekept>>
    BY <1>1, <1>2, <1>3, ActionLive, SMTT(20), SMTT(30), SMTT(60)
  <2>3. x.state # "NEW"
    BY <1>1, SMTT(20), ZenonT(60), SMTT(30) DEF event_job_action, ActionDepend, ActionPriority, ActionSched, ActionRun,
           ActionCleanup, ActionInactive
  <2>4. Known(j)' /\ (j \in housekept' => job'[j].free_posted)
    BY <1>1, <1>3, <2>2, <2>3, SMTT(20), ZenonT(60), SMTT(30) DEF KeptLife, Known, Stable, jobs, Ended
  <2>5. Wakes(job'[j], event_queue'[j])
    BY <1>3, <2>2, SMTT(20), ZenonT(60), SMTT(30) DEF Wakes, Stable, Ended
  <2> QED
    BY <2>1, <2>4, <2>5, SMTT(20), ZenonT(60), SMTT(30) DEF KeptLife
<1>4. CASE x.state = "CLEANUP"
  <2>1. Life(job'[j], event_queue'[j], start) /\ Wakes(job'[j], event_queue'[j])
    BY <1>1, <1>2, <1>4, CleanupLife, ZenonT(60), SMTT(30)
  <2>2. /\ job'[j].state = "CLEANUP" /\ UNCHANGED jobs
        /\ job'[j].free_posted <=> x.free_posted \/ Frees(x, y)
        /\ housekept' = IF Frees(x, y) /\ Housekeeping THEN housekept \cup {j} ELSE housekept
    BY <1>1, <1>2, <1>4, ActionCleanupIs, SMTT(20), ZenonT(60), SMTT(30)
  <2>3. Known(j)' /\ (j \in housekept' => job'[j].free_posted)
    BY <1>1, <1>4, <2>2, ZenonT(60), SMTT(30) DEF KeptLife, Known, jobs
  <2> QED
    BY <2>1, <2>3 DEF KeptLife
<1>5. CASE x.state = "INACTIVE"
  <2>1. Life(job'[j], event_queue'[j], start)
    BY <1>1, <1>2, <1>5, InactiveLife, SMTT(20), ZenonT(60), SMTT(30)
  <2>2. /\ job'[j] = [x EXCEPT !.eventlog_readonly = TRUE]
        /\ active' = active \ {j} /\ inactive' = inactive \cup {j}
        /\ UNCHANGED housekept
    BY <1>1, <1>2, <1>5, ActionInactiveIs, SMTT(20), ZenonT(60), SMTT(30)
  <2>3. job'[j].state = "INACTIVE" /\ job'[j].free_posted = x.free_posted
    BY <1>5, <2>2 DEF StructJob
  <2>4. Known(j)' /\ (j \in housekept' => job'[j].free_posted)
    BY <1>1, <2>2, <2>3, SMTT(20), ZenonT(60), SMTT(30) DEF KeptLife, Known
  <2>5. Wakes(job'[j], event_queue'[j])
    BY <2>3, SMTT(20), ZenonT(60), SMTT(30) DEF Wakes
  <2> QED
    BY <2>1, <2>4, <2>5, SMTT(20), ZenonT(60), SMTT(30) DEF KeptLife
<1> QED
  BY <1>3, <1>4, <1>5, SMTT(20), ZenonT(60), SMTT(30) DEF Ended

\* A job whose events are processed is active.
LEMMA BusyActive ==
  ASSUME LifeInv, NEW j \in Job, Busy(j)
  PROVE  j \in active /\ j \notin inactive /\ job[j].state # "INACTIVE"
  BY SMTT(20), ZenonT(60), SMTT(30) DEF LifeInv, Known, Busy, EventsFit

\* Between two handlers the queue of a job is empty, but for jobs held in NEW.
LEMMA RestEmpty ==
  ASSUME NEW k \in Job, KeptLife(k), ~ Busy(k), job[k].state \notin {"NEW", "INACTIVE"}
  PROVE  event_queue[k] = << >>
  BY DEF KeptLife, Life, EventsFit, Busy

\* Act works on a job that is ready for it.
LEMMA ActWorks ==
  ASSUME Inv, LifeInv, NEW j \in Job, Act(j)
  PROVE  /\ Works(j, job[j], event_queue[j], to_sched, 0)
         /\ job[j].state # "INACTIVE" => j \in active /\ j \notin inactive
<1> DEFINE r == job[j]
           q == event_queue[j]
<1>1. ~ Busy(j) /\ event_job_action(j, r, q, to_sched, 0)
  BY ZenonT(60), SMTT(30) DEF Act
<1>2. r.state # "NEW"
  BY <1>1, SMTT(20), ZenonT(60), SMTT(30) DEF event_job_action, ActionDepend, ActionPriority, ActionSched, ActionRun,
         ActionCleanup, ActionInactive
<1>3. KeptLife(j) /\ r \in StructJob /\ q \in Seq(Event)
  BY LifeIs, SMTT(20), ZenonT(60), SMTT(30) DEF Inv, TypeOK
<1>4. r.state # "INACTIVE" => q = << >> /\ Names(q) = {}
  BY <1>1, <1>2, <1>3, RestEmpty, NamesEmpty, SMTT(20), ZenonT(60), SMTT(30)
<1>5. Rest(q, 0) = q
  BY <1>3, RestIs, SMTT(20), ZenonT(60), SMTT(30)
<1>6. 0 <= Len(q)
  BY <1>3, SMTT(20), SMTT(30), SMTT(60)
<1>7. Ready(r, q, 0)
  BY <1>2, <1>3, <1>4, <1>5, SMTT(20), ZenonT(60), SMTT(30) DEF Ready, KeptLife, Life, EventsFit
<1>8. Untouched(r, r)
  BY DEF Untouched, SameFlags
<1>9. r.state # "INACTIVE" => j \in active /\ j \notin inactive
  BY <1>2, <1>3, ZenonT(60), SMTT(30) DEF KeptLife, Known, Fresh
<1>10. Follows(r, q, r, q)
  BY <1>3, <1>4 DEF Follows, KeptLife, Life, EventsFit
<1>11. Cancels(to_sched)
  BY ZenonT(60), SMTT(30) DEF Cancels, Send
<1> QED
  BY <1>1, <1>6, <1>7, <1>8, <1>9, <1>10, <1>11, ZenonT(60), SMTT(30) DEF Works

-----------------------------------------------------------------------------
(* The other steps *)

\* A step that changes nothing the invariants speak of.
Still ==
  /\ UNCHANGED <<job, event_queue, active, inactive, start>>
  /\ housekept' \subseteq housekept

\* A step that at most takes flags from job k, or gives it an alloc flag in SCHED.
Calm(k) ==
  /\ event_queue'[k] = event_queue[k]
  /\ Stable(job[k], job'[k])
  /\ job'[k].R = job[k].R
  /\ job'[k].hold_events => job[k].hold_events
  /\ job'[k].start_pending => job[k].start_pending
  /\ job'[k].alloc_queued \/ job'[k].alloc_pending =>
       \/ job[k].alloc_queued \/ job[k].alloc_pending
       \/ job[k].state = "SCHED" /\ event_queue[k] = << >>
  /\ NotLost(job'[k], event_queue'[k], start')
  /\ UNCHANGED <<active, inactive, housekept>>

\* The events that handlers post.
PostedNames ==
  {"exception", "exception.scheduler-restart", "memo", "urgency", "jobspec-update",
   "alloc", "start", "finish", "release", "dependency-remove", "prolog-finish",
   "epilog-finish", "priority"}

\* A step of a handler that posts e to job k.
Posted(k, e) ==
  /\ event_queue'[k] = Append(event_queue[k], e)
  /\ e.name \in PostedNames
  /\ Stable(job[k], job'[k])
  /\ job'[k].hold_events => job[k].hold_events
  /\ job'[k].start_pending => job[k].start_pending
  /\ job'[k].alloc_queued \/ job'[k].alloc_pending =>
       job[k].alloc_queued \/ job[k].alloc_pending
  /\ e.name = "alloc" => /\ job[k].alloc_pending
                         /\ ~ job'[k].alloc_queued /\ ~ job'[k].alloc_pending
  /\ \/ e.name \in {"priority", "alloc", "exception"}
     \/ /\ job'[k].priority = job[k].priority
        /\ job[k].alloc_queued \/ job[k].alloc_pending =>
             job'[k].alloc_queued \/ job'[k].alloc_pending
  /\ UNCHANGED <<active, inactive, housekept, start>>

\* event_job_post_entry on an active job, whose eventlog is open.
LEMMA PostActive ==
  ASSUME TypeOK, LifeInv, NEW j \in active, NEW e, Post(j, e)
  PROVE  /\ event_queue'[j] = Append(event_queue[j], e)
         /\ \A k \in Job \ {j} : event_queue'[k] = event_queue[k]
<1>1. j \in Job /\ ~ job[j].eventlog_readonly
  BY ZenonT(60) DEF TypeOK, LifeInv, Known, EventsFit
<1>2. event_queue' = [event_queue EXCEPT ![j] = Append(@, e)]
  BY <1>1 DEF Post
<1> QED
  BY <1>1, <1>2 DEF TypeOK

-----------------------------------------------------------------------------
(* No job is lost *)

\* Every step keeps LifeInv.
LEMMA LifeStep == Inv /\ LifeInv /\ [Next]_vars => LifeInv'
\* The same of the next state.
<1>LifeNext.
  ASSUME \A k \in Job : KeptLife(k)'
  PROVE  LifeInv'
  BY <1>LifeNext, ZenonT(60), SMTT(30) DEF LifeInv, KeptLife, Life
\* What nothing touches stays as it is.
<1>SkipsLife.
  ASSUME NEW k \in Job, KeptLife(k), Skips(k), start' = start
  PROVE  KeptLife(k)'
  BY <1>SkipsLife DEF KeptLife, Skips, Known, Fresh
\* Process keeps the invariants.
<1>ProcessLife.
  ASSUME Inv, LifeInv, NEW j \in Job, Process(j)
  PROVE  LifeInv'
  <2> USE <1>ProcessLife
  <2>1. \A k \in Job : KeptLife(k)
    BY LifeIs, SMTT(20), ZenonT(60), SMTT(30)
  <2>2. start' = start /\ Busy(j)
    BY DEF Process
  <2>3. CASE EntryRefused(job[j], Head(event_queue[j]))
    <3>1. /\ event_queue' = [event_queue EXCEPT ![j] = << >>]
          /\ UNCHANGED <<job, jobs, queue, sent, housekept, to_sched, exec>>
      BY <2>3 DEF Process
    <3>2. event_queue'[j] = << >> /\ Names(<< >>) = {}
      BY <3>1, NamesNone, ZenonT(60), SMTT(30) DEF Inv, TypeOK
    <3>3. j \in active /\ job[j].state # "INACTIVE" /\ event_queue[j] # << >>
      BY <2>2, BusyActive, ZenonT(60), SMTT(30) DEF Busy
    <3>4. PerilogOverflow(job[j], Head(event_queue[j]))
      BY <2>1, <2>3, <3>3, NamesTail, SMTT(20), ZenonT(60), SMTT(30)
         DEF EntryRefused, KeptLife, Life, EventsFit, FatalException
    <3>5. /\ \/ Head(event_queue[j]).name = "prolog-start"
             \/ Head(event_queue[j]).name = "epilog-start"
      BY <3>4, SMTT(20), ZenonT(60), SMTT(30) DEF PerilogOverflow
    <3>6. Head(event_queue[j]).name \in Names(event_queue[j])
      BY <3>3, NamesTail, SMTT(20), ZenonT(60), SMTT(30) DEF Inv, TypeOK
    <3>7. job[j].state = "RUN" \/ (job[j].state = "CLEANUP" /\ ~ job[j].free_posted)
      BY <2>1, <3>5, <3>6, ZenonT(60), SMTT(30) DEF KeptLife, Life, EventsFit
    <3>8. Life(job[j], << >>, start)
      BY <2>1, <3>2, <3>7, ZenonT(60), SMTT(30) DEF KeptLife, Life, EventsFit, FreedQuiet, NotLost, Ended
    <3>9. KeptLife(j)'
      BY <2>1, <2>2, <3>1, <3>2, <3>7, <3>8, ZenonT(60), SMTT(30) DEF KeptLife, Known, jobs
    <3>10. ASSUME NEW k \in Job, k # j PROVE Skips(k)
      BY <3>1, <3>10, SMTT(20), ZenonT(60), SMTT(30) DEF Skips, Inv, TypeOK, jobs
    <3> QED
      BY <2>1, <2>2, <3>9, <3>10, <1>SkipsLife, <1>LifeNext, ZenonT(60), SMTT(30)
  <2>4. CASE ~ EntryRefused(job[j], Head(event_queue[j]))
    <3>1. PICK x \in StructJob, y \in Seq(Event), ts \in Seq(SchedRequest) :
            Works(j, x, y, ts, 1)
      BY <2>4, ProcessWorks, ZenonT(60), SMTT(30)
    <3>2. KeptLife(j)'
      BY <2>1, <2>2, <3>1, BusyActive, WorksLife, ZenonT(60), SMTT(30)
    <3>3. ASSUME NEW k \in Job, k # j PROVE KeptLife(k)'
      BY <2>1, <2>2, <3>1, <3>3, ActionOthers, <1>SkipsLife, ZenonT(60), SMTT(30) DEF Works, Inv
    <3> QED
      BY <3>2, <3>3, <1>LifeNext, SMTT(20), ZenonT(60), SMTT(30)
  <2> QED
    BY <2>3, <2>4, SMTT(20), ZenonT(60), SMTT(30)
\* Act keeps the invariants.
<1>ActLife.
  ASSUME Inv, LifeInv, NEW j \in Job, Act(j)
  PROVE  LifeInv'
  <2> USE <1>ActLife
  <2>1. \A k \in Job : KeptLife(k)
    BY LifeIs, SMTT(20), ZenonT(60), SMTT(30)
  <2>2. start' = start /\ job[j] \in StructJob /\ event_queue[j] \in Seq(Event)
    BY DEF Act, Inv, TypeOK
  <2>3. KeptLife(j)'
    BY <2>1, <2>2, ActWorks, WorksLife, ZenonT(60), SMTT(30)
  <2>4. ASSUME NEW k \in Job, k # j PROVE KeptLife(k)'
    BY <2>1, <2>2, <2>4, ActionOthers, <1>SkipsLife, SMTT(20), ZenonT(60), SMTT(30) DEF Act, Inv
  <2> QED
    BY <2>3, <2>4, <1>LifeNext, SMTT(20), ZenonT(60), SMTT(30)
\* It keeps the invariants.
<1>StillLife.
  ASSUME LifeInv, Still
  PROVE  LifeInv'
  <2> USE <1>StillLife
  <2>1. ASSUME NEW k \in Job PROVE KeptLife(k)'
    BY LifeIs, <1>SkipsLife, ZenonT(60), SMTT(30) DEF Still, Skips
  <2> QED
    BY <2>1, <1>LifeNext, SMTT(20), ZenonT(60), SMTT(30)
\* Losing a flag keeps the invariants, and a job is enqueued only in SCHED.
<1>CalmLife.
  ASSUME NEW k \in Job, KeptLife(k), Calm(k)
  PROVE  KeptLife(k)'
  <2> USE <1>CalmLife
  <2> DEFINE r == job[k]
             s == job'[k]
             q == event_queue[k]
  <2>1. /\ Stable(r, s) /\ s.R = r.R
        /\ s.hold_events => r.hold_events
        /\ s.start_pending => r.start_pending
        /\ s.alloc_queued \/ s.alloc_pending =>
             \/ r.alloc_queued \/ r.alloc_pending
             \/ r.state = "SCHED" /\ q = << >>
        /\ NotLost(s, event_queue'[k], start') /\ event_queue'[k] = q
        /\ UNCHANGED <<active, inactive, housekept>>
    BY DEF Calm
  <2>2. Names(<< >>) = {}
    BY NamesNone, ZenonT(60), SMTT(30)
  <2> HIDE DEF r, s, q
  <2>3. EventsFit(s, q)
    BY <2>1, <2>2, ZenonT(60), SMTT(30) DEF KeptLife, Life, EventsFit, Stable, r, q
  <2>4. FreedQuiet(s, q)
    BY <2>1, ZenonT(60), SMTT(30) DEF KeptLife, Life, FreedQuiet, Stable, r, q
  <2>5. k \in housekept' => s.free_posted
    BY <2>1, ZenonT(60), SMTT(30) DEF KeptLife, Stable, r
  <2>6. Known(k)'
    BY <2>1, ZenonT(60), SMTT(30) DEF KeptLife, Known, Fresh, Stable, r, s, q
  <2> QED
    BY <2>1, <2>3, <2>4, <2>5, <2>6, ZenonT(60), SMTT(30) DEF KeptLife, Life, s
\* An event posted by a handler fits the state of the job.
<1>PostedLife.
  ASSUME TypeOK, NEW k \in active, KeptLife(k), ~ Busy(k), NEW e \in Event, Posted(k, e)
  PROVE  KeptLife(k)'
  <2> USE <1>PostedLife
  <2> DEFINE r == job[k]
             s == job'[k]
             q == event_queue[k]
             a == Append(q, e)
             N == Names(q)
             A == Names(a)
  <2>1. /\ Stable(r, s) /\ e.name \in PostedNames
        /\ s.hold_events => r.hold_events
        /\ s.start_pending => r.start_pending
        /\ s.alloc_queued \/ s.alloc_pending => r.alloc_queued \/ r.alloc_pending
        /\ e.name = "alloc" => r.alloc_pending /\ ~ s.alloc_queued /\ ~ s.alloc_pending
        /\ event_queue'[k] = a
        /\ UNCHANGED <<active, inactive, housekept, start>>
    BY ZenonT(60), SMTT(30) DEF Posted
  <2>2. \/ e.name \in {"priority", "alloc", "exception"}
        \/ /\ s.priority = r.priority
           /\ r.alloc_queued \/ r.alloc_pending => s.alloc_queued \/ s.alloc_pending
    BY DEF Posted
  <2>3. k \in Job /\ q \in Seq(Event) /\ a \in Seq(Event) /\ a # << >> /\ A = N \cup {e.name}
    <3>1. k \in Job /\ q \in Seq(Event)
      BY DEF TypeOK
    <3> HIDE DEF q
    <3>2. a \in Seq(Event) /\ a # << >>
      BY <3>1, AppendFacts, ZenonT(60), SMTT(30)
    <3> QED
      BY <3>1, <3>2, NamesAppend, ZenonT(60), SMTT(30)
  <2>4. r.state # "INACTIVE" /\ (r.state = "NEW" => q # << >>)
    BY SMTT(20), ZenonT(60), SMTT(30) DEF KeptLife, Known
  <2>5. r.state # "NEW" => q = << >> /\ N = {} /\ Len(a) = 1
    <3> HAVE r.state # "NEW"
    <3>1. q = << >>
      BY <2>3, <2>4, RestEmpty, SMTT(20), ZenonT(60), SMTT(30)
    <3>2. N = {}
      BY <2>3, <3>1, NamesEmpty, ZenonT(60)
    <3>3. Len(a) = Len(q) + 1 /\ Len(<< >>) = 0
      BY <2>3
    <3> QED
      BY <3>1, <3>2, <3>3, SMTT(20), ZenonT(60), SMTT(30)
  <2>6. r.state = "NEW" =>
          /\ Head(a) = Head(q)
          /\ Names(Tail(a)) = Names(Tail(q)) \cup {e.name}
    <3> HAVE r.state = "NEW"
    <3>1. q # << >> /\ Tail(q) \in Seq(Event)
      BY <2>3, <2>4, SMTT(20), ZenonT(60), SMTT(30)
    <3>2. Head(a) = Head(q) /\ Tail(a) = Append(Tail(q), e)
      BY <2>3, <3>1, SMTT(20), ZenonT(60), SMTT(30)
    <3> QED
      BY <3>1, <3>2, NamesAppend, ZenonT(60)
  <2> HIDE DEF r, s, q, a, N, A
  <2>7. EventsFit(s, a)
    <3> USE DEF Stable, PostedNames
    <3>1. EventsFit(r, q)
      BY ZenonT(60), SMTT(30) DEF KeptLife, Life, r, q
    <3>2. CASE r.state = "NEW"
      <4>1. /\ Names(a) \cap {"alloc", "prolog-start", "epilog-start"} = {}
            /\ "validate" \notin Names(Tail(a)) /\ Head(a).name = "validate"
        <5>1. e.name \notin {"alloc", "prolog-start", "epilog-start", "validate"}
          BY <2>1, <3>1, <3>2, SMTT(20), ZenonT(60), SMTT(30) DEF EventsFit
        <5>2. /\ N \cap {"alloc", "prolog-start", "epilog-start"} = {}
              /\ Head(q).name = "validate"
          BY <2>4, <3>1, <3>2, SMTT(20), ZenonT(60), SMTT(30) DEF EventsFit, N
        <5>3. Head(q).name \in N
          BY <2>3, <2>4, <3>2, NamesTail, ZenonT(60), SMTT(30) DEF N
        <5>4. "validate" \notin Names(Tail(q))
          BY <5>2, <5>3, <3>1, ZenonT(60), SMTT(30) DEF EventsFit, N
        <5> QED
          BY <2>3, <2>6, <3>2, <5>1, <5>2, <5>4, ZenonT(60), SMTT(30) DEF A
      <4> QED
        BY <2>1, <3>1, <3>2, <4>1, SMTT(20), ZenonT(60), SMTT(30) DEF EventsFit
    <3>3. CASE r.state # "NEW"
      <4>1. Names(a) = {e.name} /\ Len(a) = 1
        BY <2>3, <2>5, <3>3, ZenonT(60), SMTT(30) DEF A
      <4> QED
        BY <2>1, <2>4, <3>1, <3>3, <4>1, ZenonT(60), SMTT(30) DEF EventsFit
    <3> QED
      BY <3>2, <3>3, SMTT(20), ZenonT(60), SMTT(30)
  <2>8. FreedQuiet(s, a)
    <3>1. FreedQuiet(r, q)
      BY ZenonT(60), SMTT(30) DEF KeptLife, Life, r, q
    <3>2. /\ "free" \in Names(a) <=> "free" \in N
          /\ "clean" \in Names(a) <=> "clean" \in N
          /\ "epilog-start" \in Names(a) <=> "epilog-start" \in N
      BY <2>1, <2>3 DEF A, PostedNames
    <3> QED
      BY <2>1, <3>1, <3>2, ZenonT(60), SMTT(30) DEF FreedQuiet, Stable, N
  <2>9. NotLost(s, a, start)
    BY <2>1, <2>2, <2>3, ZenonT(60) DEF KeptLife, Life, NotLost, Stable, r, q, N, A
  <2>10. k \in housekept' => s.free_posted
    BY <2>1, ZenonT(60), SMTT(30) DEF KeptLife, Stable, r
  <2>11. Known(k)'
    BY <2>1, <2>3, <2>4, SMTT(20), ZenonT(60), SMTT(30) DEF KeptLife, Known, Stable, r, s
  <2> QED
    BY <2>1, <2>7, <2>8, <2>9, <2>10, <2>11, ZenonT(60), SMTT(30) DEF KeptLife, Life, s
\* A handler that posts e to an active job and leaves the others alone.
<1>PostedStep.
  ASSUME TypeOK, LifeInv, NEW j \in active, ~ Busy(j), NEW e \in Event, Posted(j, e),
         \A k \in Job \ {j} : Skips(k)
  PROVE  LifeInv'
  <2> USE <1>PostedStep
  <2>1. \A k \in Job : KeptLife(k)
    BY LifeIs, ZenonT(60), SMTT(30)
  <2>2. j \in Job /\ start' = start
    BY DEF TypeOK, Posted
  <2>3. KeptLife(j)'
    BY <2>1, <2>2, <1>PostedLife, SMTT(20), ZenonT(60), SMTT(30)
  <2>4. ASSUME NEW k \in Job, k # j PROVE KeptLife(k)'
    BY <2>1, <2>2, <2>4, <1>SkipsLife, SMTT(20), ZenonT(60), SMTT(30)
  <2> QED
    BY <2>3, <2>4, <1>LifeNext, SMTT(20), ZenonT(60), SMTT(30)
\* A handler that posts an event and changes no job.
<1>PostLife.
  ASSUME TypeOK, LifeInv, Idle, NEW j \in active, NEW e \in Event,
         e.name \in PostedNames \ {"alloc"}, Post(j, e),
         UNCHANGED <<job, active, inactive, housekept, start>>
  PROVE  LifeInv'
  <2> USE <1>PostLife
  <2>1. j \in Job /\ ~ Busy(j)
    BY ZenonT(60), SMTT(30) DEF TypeOK, Idle
  <2>2. /\ event_queue'[j] = Append(event_queue[j], e)
        /\ \A k \in Job \ {j} : event_queue'[k] = event_queue[k]
    BY PostActive, ZenonT(60), SMTT(30)
  <2>3. Posted(j, e)
    BY <2>2, ZenonT(60), SMTT(30) DEF Posted, Stable
  <2>4. \A k \in Job \ {j} : Skips(k)
    BY <2>2 DEF Skips
  <2> QED
    BY <2>1, <2>3, <2>4, <1>PostedStep, ZenonT(60), SMTT(30)
\* PostOnly is such a handler.
<1>PostOnlyLife.
  ASSUME Inv, LifeInv, NEW j \in Job, NEW e \in Event,
         e.name \in PostedNames \ {"alloc"}, PostOnly(j, e)
  PROVE  LifeInv'
  <2> USE <1>PostOnlyLife
  <2>1. /\ Idle /\ j \in active /\ Post(j, e) /\ TypeOK
        /\ UNCHANGED <<job, active, inactive, housekept, start>>
    BY DEF PostOnly, jobs, Inv
  <2> QED
    BY <2>1, <1>PostLife, SMTT(20), ZenonT(60), SMTT(30)
\* Requests of users.
<1>UserLife.
  ASSUME Inv, LifeInv, NEW j \in Job,
         RaiseRequest(j) \/ UrgencyRequest(j) \/ UpdateRequest(j)
  PROVE  LifeInv'
  <2> USE <1>UserLife
  <2>1. CASE RaiseRequest(j)
    <3>1. PICK name \in {"exception", "memo"} : PostOnly(j, Ev(name))
      BY <2>1, SMTT(20), ZenonT(60), SMTT(30) DEF RaiseRequest
    <3>2. Ev(name) \in Event /\ Ev(name).name \in PostedNames \ {"alloc"}
      BY EvType DEF EventName, FatalException, PostedNames, Ev
    <3> QED
      BY <3>1, <3>2, <1>PostOnlyLife, SMTT(20), ZenonT(60), SMTT(30)
  <2>2. CASE UrgencyRequest(j)
    <3>1. PICK u \in UserUrgency : PostOnly(j, [name |-> "urgency", arg |-> u])
      BY <2>2, ZenonT(60), SMTT(30) DEF UrgencyRequest
    <3> DEFINE e == [name |-> "urgency", arg |-> u]
    <3>2. e \in Event /\ e.name \in PostedNames \ {"alloc"}
      BY PluginAssumption, ZenonT(60), SMTT(30) DEF Event, PostedNames
    <3> HIDE DEF e
    <3> QED
      BY <3>1, <3>2, <1>PostOnlyLife, ZenonT(60), SMTT(30) DEF e
  <2>3. CASE UpdateRequest(j)
    <3>1. Ev("jobspec-update") \in Event /\ Ev("jobspec-update").name \in PostedNames \ {"alloc"}
      BY EvType DEF EventName, PostedNames, Ev
    <3> QED
      BY <2>3, <3>1, <1>PostOnlyLife, ZenonT(60), SMTT(30) DEF UpdateRequest
  <2> QED
    BY <2>1, <2>2, <2>3, ZenonT(60), SMTT(30)
\* Plugins.
<1>PluginLife.
  ASSUME Inv, LifeInv, NEW j \in Job,
         DependencyRemove(j) \/ PrologFinish(j) \/ EpilogFinish(j)
  PROVE  LifeInv'
  <2> USE <1>PluginLife
  <2>1. PICK name \in {"dependency-remove", "prolog-finish", "epilog-finish"} :
          PostOnly(j, Ev(name))
    BY DEF DependencyRemove, PrologFinish, EpilogFinish
  <2>2. Ev(name) \in Event /\ Ev(name).name \in PostedNames \ {"alloc"}
    BY EvType, ZenonT(60), SMTT(30) DEF EventName, PostedNames, Ev
  <2> QED
    BY <2>1, <2>2, <1>PostOnlyLife, ZenonT(60), SMTT(30)
\* The scheduler's exception.
<1>SchedRaiseLife.
  ASSUME Inv, LifeInv, NEW j \in Job, SchedRaise(j)
  PROVE  LifeInv'
  <2> USE <1>SchedRaiseLife
  <2> DEFINE e == Ev("exception.scheduler-restart")
  <2>1. Idle /\ TypeOK /\ UNCHANGED <<job, active, inactive, housekept, start>>
    BY DEF SchedRaise, jobs, Inv
  <2>2. e \in Event /\ e.name \in PostedNames \ {"alloc"}
    BY EvType DEF EventName, FatalException, PostedNames, Ev
  <2> HIDE DEF e
  <2>3. CASE j \in active
    <3>1. Post(j, e)
      BY <2>3 DEF SchedRaise, e
    <3> QED
      BY <2>1, <2>2, <2>3, <3>1, <1>PostLife, ZenonT(60), SMTT(30)
  <2>4. CASE j \notin active
    <3>1. Still
      BY <2>1, <2>4 DEF SchedRaise, Still
    <3> QED
      BY <3>1, <1>StillLife, SMTT(20), ZenonT(60), SMTT(30)
  <2> QED
    BY <2>3, <2>4, SMTT(20), ZenonT(60), SMTT(30)
\* Steps that leave struct job, the queues and the hashes alone.
<1>StillSteps.
  ASSUME Inv, LifeInv, NEW j \in Job,
         \/ BatchTimeout \/ SchedHello \/ SchedReady \/ ExecHello \/ ExecUnload
         \/ AllocUnwanted(j) \/ HousekeepingDone(j) \/ ExecAbort(j)
         \/ SchedAllocCb(j) \/ SchedAllocError(j) \/ SchedCancelCb(j) \/ SchedFreeCb(j)
         \/ SchedTryAlloc(j) \/ SchedCommitDone(j)
         \/ UNCHANGED vars
  PROVE  LifeInv'
  <2> USE <1>StillSteps
  <2>1. CASE BatchTimeout \/ SchedHello \/ SchedReady \/ ExecHello \/ ExecUnload
    BY <2>1, <1>StillLife, ZenonT(60) DEF BatchTimeout, SchedHello, SchedReady, ExecHello, ExecUnload,
       Still, jobs, manager
  <2>2. CASE AllocUnwanted(j) \/ HousekeepingDone(j) \/ ExecAbort(j)
    BY <2>2, <1>StillLife, ZenonT(60) DEF AllocUnwanted, Response, HousekeepingDone, ExecAbort, Still, jobs,
       manager
  <2>3. CASE \/ SchedAllocCb(j) \/ SchedAllocError(j) \/ SchedCancelCb(j) \/ SchedFreeCb(j)
             \/ SchedTryAlloc(j) \/ SchedCommitDone(j) \/ UNCHANGED vars
    <3>1. UNCHANGED manager
      BY <2>3, SMTT(20), ZenonT(60), SMTT(30) DEF SchedAllocCb, SchedAllocError, SchedCancelCb,
         SchedFreeCb, SchedTryAlloc, SchedCommitDone, Receive, vars
    <3> QED
      BY <3>1, <1>StillLife, ZenonT(60), SMTT(30) DEF Still, jobs, manager
  <2> QED
    BY <2>1, <2>2, <2>3, ZenonT(60), SMTT(30)
\* submit_job
<1>SubmitLife.
  ASSUME Inv, LifeInv, NEW j \in Job, Submit(j)
  PROVE  LifeInv'
  <2> USE <1>SubmitLife
  <2>1. \A k \in Job : KeptLife(k)
    BY LifeIs
  <2>2. /\ j \notin active \cup inactive /\ active' = active \cup {j}
        /\ event_queue' = [event_queue EXCEPT ![j] = <<Ev("validate")>>]
        /\ UNCHANGED <<inactive, housekept, start>>
    BY DEF Submit
  <2>3. PICK u \in UserUrgency, n \in DependCount :
          job' = [job EXCEPT ![j] = [@ EXCEPT !.urgency = u,
                                              !.dependencies = n,
                                              !.hold_events = TRUE]]
    BY ZenonT(60) DEF Submit
  <2>4. ASSUME NEW k \in Job, k # j PROVE Skips(k)
    <3>1. job \in [Job -> StructJob] /\ event_queue \in [Job -> Seq(Event)]
      BY ZenonT(60), SMTT(30) DEF Inv, TypeOK
    <3>2. job'[k] = job[k] /\ event_queue'[k] = event_queue[k]
      BY <2>2, <2>3, <2>4, <3>1, ZenonT(60), SMTT(30)
    <3> QED
      BY <2>2, <2>4, <3>2, ZenonT(60), SMTT(30) DEF Skips
  <2> DEFINE r == job[j]
             s == job'[j]
             q == <<Ev("validate")>>
  <2>5. r \in StructJob /\ Fresh(r)
    BY <2>1, <2>2, ZenonT(60), SMTT(30) DEF Inv, TypeOK, KeptLife, Known
  <2>6. /\ s.state = "NEW" /\ s.perilog_active = 0
        /\ ~ s.alloc_queued /\ ~ s.alloc_pending /\ ~ s.has_resources /\ ~ s.R
        /\ ~ s.start_pending /\ ~ s.free_posted /\ ~ s.eventlog_readonly
    BY <2>3, <2>5, SMTT(20), ZenonT(60), SMTT(30) DEF Fresh, StructJob, Inv, TypeOK
  <2>7. Head(q) = Ev("validate") /\ Tail(q) = << >> /\ q # << >> /\ Len(q) = 1
    OBVIOUS
  <2>8. q \in Seq(Event) /\ Ev("validate").name = "validate"
    <3>1. Ev("validate") \in Event /\ Ev("validate").name = "validate"
      BY EvType DEF EventName, Ev
    <3> QED
      BY <3>1, SMTT(20), ZenonT(60), SMTT(30)
  <2>9. Names(q) = {"validate"} /\ Names(Tail(q)) = {}
    BY <2>7, <2>8, NamesTail, NamesSingle, ZenonT(60)
  <2>10. event_queue'[j] = q
    BY <2>2, ZenonT(60), SMTT(30) DEF Inv, TypeOK
  <2> HIDE DEF q, r, s
  <2>11. Life(s, q, start)
    BY <2>6, <2>7, <2>8, <2>9, ZenonT(60), SMTT(30) DEF Life, EventsFit, FreedQuiet, NotLost
  <2>12. j \notin housekept
    BY <2>1, <2>2, <2>5, ZenonT(60), SMTT(30) DEF KeptLife, Fresh, r
  <2>13. KeptLife(j)'
    BY <2>2, <2>6, <2>7, <2>10, <2>11, <2>12, ZenonT(60), SMTT(30) DEF KeptLife, Known, s
  <2> QED
    BY <2>1, <2>2, <2>4, <2>13, <1>SkipsLife, <1>LifeNext, ZenonT(60), SMTT(30)
\* alloc_response_cb: the alloc event, and the exception of a denied request.
<1>AnswerLife.
  ASSUME Inv, LifeInv, NEW j \in Job, AllocSuccess(j) \/ AllocDeny(j)
  PROVE  LifeInv'
  <2> USE <1>AnswerLife
  <2>1. /\ TypeOK /\ ~ Busy(j) /\ UNCHANGED <<active, inactive, start, housekept>>
        /\ job[j] \in StructJob /\ QueueFlags
    BY SMTT(20), ZenonT(60), SMTT(30) DEF AllocSuccess, AllocDeny, Response, Idle, Inv, TypeOK, jobs
  <2>2. ASSUME NEW e \in Event, e.name \in {"alloc", "exception"}, AllocPending(j), Post(j, e),
               NEW R, job' = [job EXCEPT ![j].R = R, ![j].alloc_pending = FALSE]
        PROVE  LifeInv'
    <3>1. /\ event_queue'[j] = Append(event_queue[j], e)
          /\ \A k \in Job \ {j} : event_queue'[k] = event_queue[k]
      BY <2>1, <2>2, PostActive, ZenonT(60), SMTT(30) DEF AllocPending
    <3>2. \A k \in Job \ {j} : Skips(k)
      BY <2>1, <2>2, <3>1, ZenonT(60), SMTT(30) DEF Skips, TypeOK
    <3>3. /\ Stable(job[j], job'[j]) /\ job'[j].hold_events = job[j].hold_events
          /\ job'[j].start_pending = job[j].start_pending
          /\ ~ job'[j].alloc_pending /\ job'[j].alloc_queued = job[j].alloc_queued
      BY <2>1, <2>2, ZenonT(60), SMTT(30) DEF Stable, TypeOK, StructJob
    <3>4. job[j].alloc_pending /\ ~ job[j].alloc_queued
      BY <2>1, <2>2, ZenonT(60), SMTT(30) DEF AllocPending, QueueFlags
    <3>5. Posted(j, e)
      BY <2>1, <2>2, <3>1, <3>3, <3>4, ZenonT(60), SMTT(30) DEF Posted, PostedNames
    <3> QED
      BY <2>1, <2>2, <3>2, <3>5, <1>PostedStep, ZenonT(60), SMTT(30) DEF AllocPending
  <2>3. CASE AllocSuccess(j)
    <3>1. Ev("alloc") \in Event /\ Ev("alloc").name = "alloc"
      BY EvType DEF EventName, Ev
    <3>2. /\ AllocPending(j) /\ Post(j, Ev("alloc"))
          /\ job' = [job EXCEPT ![j].R = TRUE, ![j].alloc_pending = FALSE]
      BY <2>3 DEF AllocSuccess
    <3> QED
      BY <2>2, <3>1, <3>2, ZenonT(60)
  <2>4. CASE AllocDeny(j) /\ AllocPending(j)
    <3>1. Ev("exception") \in Event /\ Ev("exception").name = "exception"
      BY EvType DEF EventName, FatalException, Ev
    <3>2. Post(j, Ev("exception")) /\ job' = [job EXCEPT ![j].alloc_pending = FALSE]
      BY <2>4 DEF AllocDeny
    <3>3. job' = [job EXCEPT ![j].R = job[j].R, ![j].alloc_pending = FALSE]
      BY <2>1, <3>2, ZenonT(60) DEF TypeOK, StructJob
    <3> QED
      BY <2>2, <2>4, <3>1, <3>2, <3>3, ZenonT(60)
  <2>5. CASE AllocDeny(j) /\ ~ AllocPending(j)
    <3>1. Still
      BY <2>1, <2>5 DEF AllocDeny, Still
    <3> QED
      BY <3>1, <1>StillLife
  <2> QED
    BY <2>3, <2>4, <2>5, ZenonT(60), SMTT(30)
\* start_response_cb
<1>ResponseLife.
  ASSUME Inv, LifeInv, NEW j \in Job, NEW p,
         NEW name \in {"start", "exception", "finish", "release"},
         StartResponse(j, p, Ev(name))
  PROVE  LifeInv'
  <2> USE <1>ResponseLife
  <2>1. /\ TypeOK /\ ~ Busy(j) /\ UNCHANGED <<active, inactive, start, housekept>>
        /\ job[j] \in StructJob
    BY DEF StartResponse, Idle, Inv, TypeOK, jobs
  <2>2. Ev(name) \in Event /\ Ev(name).name = name
    BY EvType DEF EventName, FatalException, Ev
  <2>3. CASE topic /\ j \in active
    <3>1. Post(j, Ev(name))
      BY <2>3, ZenonT(60), SMTT(30) DEF StartResponse
    <3>2. /\ event_queue'[j] = Append(event_queue[j], Ev(name))
          /\ \A k \in Job \ {j} : event_queue'[k] = event_queue[k]
      BY <2>1, <2>3, <3>1, PostActive, ZenonT(60), SMTT(30)
    <3>3. job' = job \/ job' = [job EXCEPT ![j].start_pending = FALSE]
      BY DEF StartResponse
    <3>4. \A k \in Job \ {j} : Skips(k)
      BY <2>1, <3>2, <3>3, ZenonT(60), SMTT(30) DEF Skips, TypeOK
    <3>5. /\ Stable(job[j], job'[j]) /\ job'[j].hold_events = job[j].hold_events
          /\ job'[j].start_pending => job[j].start_pending
          /\ SameFlags(job[j], job'[j]) /\ job'[j].priority = job[j].priority
      <4>1. CASE job' = job
        BY <4>1, ZenonT(60), SMTT(30) DEF Stable, SameFlags
      <4>2. CASE job' = [job EXCEPT ![j].start_pending = FALSE]
        <5>1. job'[j] = [job[j] EXCEPT !.start_pending = FALSE]
          BY <2>1, <4>2, ZenonT(60), SMTT(30) DEF TypeOK
        <5>2. Stable(job[j], job'[j]) /\ job'[j].hold_events = job[j].hold_events
          BY <2>1, <5>1, SMTT(20), SMTT(30), SMTT(60) DEF Stable, StructJob
        <5>3. ~ job'[j].start_pending
          BY <2>1, <5>1, SMTT(20), SMTT(30), SMTT(60) DEF StructJob
        <5>4. SameFlags(job[j], job'[j]) /\ job'[j].priority = job[j].priority
          BY <2>1, <5>1, SMTT(20), SMTT(30), SMTT(60) DEF StructJob, SameFlags
        <5> QED
          BY <5>2, <5>3, <5>4, ZenonT(60), SMTT(30)
      <4> QED
        BY <3>3, <4>1, <4>2, ZenonT(60), SMTT(30)
    <3>6. Posted(j, Ev(name))
      BY <2>1, <2>2, <3>2, <3>5, ZenonT(60), SMTT(30) DEF Posted, PostedNames, SameFlags
    <3> QED
      BY <2>1, <2>2, <2>3, <3>4, <3>6, <1>PostedStep, ZenonT(60), SMTT(30)
  <2>4. CASE ~ (topic /\ j \in active)
    <3>1. Still
      BY <2>1, <2>4 DEF StartResponse, Still
    <3> QED
      BY <3>1, <1>StillLife
  <2> QED
    BY <2>3, <2>4, SMTT(20), ZenonT(60), SMTT(30)
\* The exec service's responses.
<1>ExecLife.
  ASSUME Inv, LifeInv, NEW j \in Job,
         ExecStart(j) \/ ExecException(j) \/ ExecFinish(j) \/ ExecRelease(j)
  PROVE  LifeInv'
  <2> USE <1>ExecLife
  <2>1. \E p \in {"none", "running", "killed", "final"},
           name \in {"start", "exception", "finish", "release"} :
          StartResponse(j, p, Ev(name))
    BY DEF ExecStart, ExecException, ExecFinish, ExecRelease
  <2> QED
    BY <2>1, <1>ResponseLife, ZenonT(60), SMTT(30)
\* reprioritize_job
<1>ReprioritizeLife.
  ASSUME Inv, LifeInv, NEW j \in Job, Reprioritize(j)
  PROVE  LifeInv'
  <2> USE <1>ReprioritizeLife
  <2>1. /\ TypeOK /\ ~ Busy(j) /\ UNCHANGED <<active, inactive, start, housekept>>
        /\ job[j] \in StructJob /\ j \in active
    BY DEF Reprioritize, Idle, Inv, TypeOK, jobs
  <2>2. PICK p \in PluginPriority :
          LET r == [job[j] EXCEPT !.priority = Prioritized(job[j], p)] IN
          Post(j, PriorityEvent(r)) /\ job' = [job EXCEPT ![j] = r]
    BY ZenonT(60) DEF Reprioritize
  <2> DEFINE r == [job[j] EXCEPT !.priority = Prioritized(job[j], p)]
             e == PriorityEvent(r)
  <2>3. e \in Event /\ e.name = "priority"
    BY <2>1, PrioritizedType, ZenonT(60) DEF PriorityEvent
  <2>4. /\ Stable(job[j], r) /\ r.hold_events = job[j].hold_events
        /\ r.start_pending = job[j].start_pending /\ SameFlags(job[j], r)
    BY <2>1 DEF Stable, SameFlags, StructJob
  <2>5. Post(j, e) /\ job' = [job EXCEPT ![j] = r]
    BY <2>2, ZenonT(60), SMTT(30)
  <2> HIDE DEF r, e
  <2>6. job'[j] = r /\ \A k \in Job \ {j} : job'[k] = job[k]
    BY <2>1, <2>5, ZenonT(60), SMTT(30) DEF TypeOK
  <2>7. /\ event_queue'[j] = Append(event_queue[j], e)
        /\ \A k \in Job \ {j} : event_queue'[k] = event_queue[k]
    BY <2>1, <2>5, PostActive, ZenonT(60)
  <2>8. Posted(j, e)
    BY <2>1, <2>3, <2>4, <2>6, <2>7, ZenonT(60), SMTT(30) DEF Posted, PostedNames, SameFlags
  <2>9. \A k \in Job \ {j} : Skips(k)
    BY <2>1, <2>6, <2>7 DEF Skips
  <2> QED
    BY <2>1, <2>3, <2>8, <2>9, <1>PostedStep, ZenonT(60), SMTT(30)
\* A step that is calm for every job.
<1>CalmStep.
  ASSUME LifeInv, \A k \in Job : Calm(k)
  PROVE  LifeInv'
  BY <1>CalmStep, LifeIs, <1>LifeNext, <1>CalmLife, ZenonT(60), SMTT(30)
\* commit_continuation
<1>CommitLife.
  ASSUME Inv, LifeInv, CommitDone
  PROVE  LifeInv'
  <2> USE <1>CommitLife
  <2>1. /\ UNCHANGED <<event_queue, active, inactive, start, housekept>>
        /\ job' = [j \in Job |-> IF j \in Head(commits)
                                   THEN [job[j] EXCEPT !.hold_events = FALSE]
                                   ELSE job[j]]
    BY DEF CommitDone, jobs
  <2>2. ASSUME NEW k \in Job PROVE Calm(k)
    <3>1. job[k] \in StructJob /\ NotLost(job[k], event_queue[k], start)
      BY DEF Inv, TypeOK, LifeInv
    <3>2. job'[k] = job[k] \/ job'[k] = [job[k] EXCEPT !.hold_events = FALSE]
      BY <2>1
    <3>3. /\ Stable(job[k], job'[k]) /\ job'[k].R = job[k].R
          /\ job'[k].hold_events => job[k].hold_events
          /\ job'[k].start_pending = job[k].start_pending
          /\ SameFlags(job[k], job'[k]) /\ job'[k].priority = job[k].priority
      BY <3>1, <3>2 DEF Stable, SameFlags, StructJob
    <3> QED
      BY <2>1, <3>1, <3>3, ZenonT(60), SMTT(30) DEF Calm, SameFlags, NotLost, Stable
  <2> QED
    BY <2>2, <1>CalmStep
\* queue_stop
<1>QueueStopLife.
  ASSUME Inv, LifeInv, QueueStop
  PROVE  LifeInv'
  <2> USE <1>QueueStopLife
  <2>1. /\ UNCHANGED <<event_queue, active, inactive, housekept>> /\ start' = FALSE
        /\ job' = [j \in Job |-> [job[j] EXCEPT !.alloc_queued = FALSE]]
    BY DEF QueueStop, jobs
  <2>2. ASSUME NEW k \in Job PROVE Calm(k)
    <3>1. job[k] \in StructJob /\ job'[k] = [job[k] EXCEPT !.alloc_queued = FALSE]
      BY <2>1 DEF Inv, TypeOK
    <3>2. /\ Stable(job[k], job'[k]) /\ job'[k].R = job[k].R
          /\ job'[k].hold_events = job[k].hold_events
          /\ job'[k].start_pending = job[k].start_pending
          /\ ~ job'[k].alloc_queued /\ job'[k].alloc_pending = job[k].alloc_pending
      BY <3>1 DEF Stable, StructJob
    <3> QED
      BY <2>1, <3>2 DEF Calm, NotLost
  <2> QED
    BY <2>2, <1>CalmStep, ZenonT(60), SMTT(30)
\* queue_start
<1>QueueStartLife.
  ASSUME Inv, LifeInv, QueueStart
  PROVE  LifeInv'
  <2> USE <1>QueueStartLife
  <2> DEFINE J == {j \in active : /\ job[j].state = "SCHED"
                                  /\ ~ job[j].alloc_queued
                                  /\ ~ job[j].alloc_pending
                                  /\ job[j].priority # FLUX_JOB_PRIORITY_MIN}
  <2>1. /\ UNCHANGED <<event_queue, active, inactive, housekept>> /\ Idle
        /\ job' = [j \in Job |-> [job[j] EXCEPT !.alloc_queued = @ \/ j \in J]]
    BY DEF QueueStart, jobs
  <2>2. ASSUME NEW k \in Job PROVE Calm(k)
    <3>1. job[k] \in StructJob /\ KeptLife(k)
      BY LifeIs, ZenonT(60), SMTT(30) DEF Inv, TypeOK
    <3>2. k \in J <=> /\ k \in active /\ job[k].state = "SCHED"
                      /\ ~ job[k].alloc_queued /\ ~ job[k].alloc_pending
                      /\ job[k].priority # FLUX_JOB_PRIORITY_MIN
      BY ZenonT(60), SMTT(30)
    <3> HIDE DEF J
    <3>3. PICK b \in BOOLEAN : b <=> job[k].alloc_queued \/ k \in J
      BY ZenonT(60)
    <3>4. job'[k] = [job[k] EXCEPT !.alloc_queued = b]
      BY <2>1, <3>3, ZenonT(60)
    <3>5. /\ Stable(job[k], job'[k]) /\ job'[k].R = job[k].R
          /\ job'[k].hold_events = job[k].hold_events
          /\ job'[k].start_pending = job[k].start_pending
          /\ job'[k].priority = job[k].priority
          /\ job'[k].alloc_queued <=> job[k].alloc_queued \/ k \in J
          /\ job'[k].alloc_pending = job[k].alloc_pending
      BY <3>1, <3>3, <3>4, ZenonT(60), SMTT(30) DEF Stable, StructJob
    <3>6. job[k].state = "SCHED" => k \in active /\ event_queue[k] = << >>
      BY <2>1, <3>1, RestEmpty, ZenonT(60), SMTT(30) DEF KeptLife, Known, Fresh, Idle
    <3>7. NotLost(job'[k], event_queue'[k], start')
      BY <3>2, <3>5, <3>6, ZenonT(60), SMTT(30) DEF NotLost, Stable
    <3> QED
      BY <2>1, <3>2, <3>5, <3>6, <3>7, ZenonT(60), SMTT(30) DEF Calm
  <2> QED
    BY <2>2, <1>CalmStep, ZenonT(60), SMTT(30)
\* alloc_request
<1>AllocRequestLife.
  ASSUME Inv, LifeInv, NEW j \in Job, AllocRequest(j)
  PROVE  LifeInv'
  <2> USE <1>AllocRequestLife
  <2>1. /\ UNCHANGED <<event_queue, active, inactive, start, housekept>>
        /\ job' = [job EXCEPT ![j].alloc_pending = TRUE, ![j].alloc_queued = FALSE]
        /\ j \in queue
    BY DEF AllocRequest, WorkAvailable, jobs
  <2>2. ASSUME NEW k \in Job, k # j PROVE Calm(k)
    BY <2>1, <2>2, ZenonT(60), SMTT(30) DEF Calm, Inv, TypeOK, Stable, LifeInv
  <2>3. Calm(j)
    <3>1. job[j] \in StructJob /\ job[j].alloc_queued
      BY <2>1 DEF Inv, TypeOK, QueueFlags
    <3>2. job'[j] = [job[j] EXCEPT !.alloc_pending = TRUE, !.alloc_queued = FALSE]
      BY <2>1, ZenonT(60) DEF Inv, TypeOK
    <3>3. /\ Stable(job[j], job'[j]) /\ job'[j].R = job[j].R
          /\ job'[j].hold_events = job[j].hold_events
          /\ job'[j].start_pending = job[j].start_pending
          /\ job'[j].alloc_pending
      BY <3>1, <3>2, ZenonT(60), SMTT(30) DEF Stable, StructJob
    <3> QED
      BY <2>1, <3>1, <3>3, ZenonT(60), SMTT(30) DEF Calm, NotLost
  <2> QED
    BY <2>2, <2>3, <1>CalmStep, ZenonT(60), SMTT(30)
\* requeue_pending
<1>RequeueLife.
  ASSUME Inv, LifeInv, NEW J \in SUBSET Job, \A k \in J : job[k].alloc_pending,
         RequeuePending(J), UNCHANGED <<event_queue, active, inactive, start, housekept>>
  PROVE  LifeInv'
  <2> USE <1>RequeueLife
  <2>1. ASSUME NEW k \in Job PROVE Calm(k)
    <3>1. job[k] \in StructJob /\ NotLost(job[k], event_queue[k], start) /\ start \in BOOLEAN
      BY ZenonT(60), SMTT(30) DEF Inv, TypeOK, LifeInv
    <3>2. CASE k \in J
      <4>1. PICK b \in BOOLEAN : b <=> job[k].alloc_queued \/ start
        BY ZenonT(60)
      <4>2. job'[k] = [job[k] EXCEPT !.alloc_pending = FALSE, !.alloc_queued = b]
        BY <3>2, <4>1, ZenonT(60) DEF RequeuePending
      <4>3. /\ Stable(job[k], job'[k]) /\ job'[k].R = job[k].R
            /\ job'[k].hold_events = job[k].hold_events
            /\ job'[k].start_pending = job[k].start_pending
            /\ job'[k].alloc_queued <=> job[k].alloc_queued \/ start
        BY <3>1, <4>1, <4>2, ZenonT(60), SMTT(30) DEF Stable, StructJob
      <4> QED
        BY <3>2, <4>3, ZenonT(60), SMTT(30) DEF Calm, NotLost
    <3>3. CASE k \notin J
      <4>1. job'[k] = job[k]
        BY <3>3, ZenonT(60) DEF RequeuePending
      <4> QED
        BY <3>1, <4>1 DEF Calm, Stable
    <3> QED
      BY <3>2, <3>3, ZenonT(60), SMTT(30)
  <2> QED
    BY <2>1, <1>CalmStep, ZenonT(60), SMTT(30)
\* interface_teardown
<1>TeardownLife.
  ASSUME Inv, LifeInv, AllocTeardown,
         UNCHANGED <<event_queue, active, inactive, start, housekept>>
  PROVE  LifeInv'
  <2> USE <1>TeardownLife
  <2>1. CASE online
    <3> DEFINE J == {j \in active : job[j].alloc_pending}
    <3>1. J \in SUBSET Job /\ \A k \in J : job[k].alloc_pending
      BY DEF Inv, TypeOK
    <3>2. RequeuePending(J)
      BY <2>1 DEF AllocTeardown
    <3> HIDE DEF J
    <3> QED
      BY <3>1, <3>2, <1>RequeueLife, ZenonT(60), SMTT(30)
  <2>2. CASE ~ online
    <3>1. Still
      BY <2>2 DEF AllocTeardown, Still
    <3> QED
      BY <3>1, <1>StillLife
  <2> QED
    BY <2>1, <2>2, ZenonT(60), SMTT(30)
\* The steps that tear the scheduler interface down.
<1>TeardownSteps.
  ASSUME Inv, LifeInv, NEW j \in Job, AllocExists(j) \/ AllocError(j) \/ SchedGone
  PROVE  LifeInv'
  <2> USE <1>TeardownSteps
  <2>1. AllocTeardown /\ UNCHANGED <<event_queue, active, inactive, start, housekept>>
    BY DEF AllocExists, AllocError, SchedGone, Response, jobs
  <2> QED
    BY <2>1, <1>TeardownLife, ZenonT(60), SMTT(30)
\* FLUX_SCHED_ALLOC_CANCEL
<1>CancelLife.
  ASSUME Inv, LifeInv, NEW j \in Job, AllocCancel(j)
  PROVE  LifeInv'
  <2> USE <1>CancelLife
  <2>1. UNCHANGED <<event_queue, active, inactive, start, housekept>>
    BY DEF AllocCancel, Response, jobs
  <2>2. CASE ~ AllocPending(j)
    <3>1. Still
      BY <2>1, <2>2 DEF AllocCancel, Still
    <3> QED
      BY <3>1, <1>StillLife
  <2>3. CASE AllocPending(j) /\ job[j].state = "SCHED"
    <3>1. RequeuePending({j}) /\ job[j].alloc_pending
      BY <2>3 DEF AllocCancel, AllocPending
    <3> QED
      BY <2>1, <3>1, <1>RequeueLife
  <2>4. CASE AllocPending(j) /\ job[j].state # "SCHED"
    <3>1. job' = [job EXCEPT ![j].alloc_pending = FALSE] /\ job[j].alloc_pending
      BY <2>4 DEF AllocCancel, AllocPending
    <3>2. ASSUME NEW k \in Job, k # j PROVE Calm(k)
      BY <2>1, <3>1, <3>2, ZenonT(60), SMTT(30) DEF Calm, Inv, TypeOK, Stable, LifeInv
    <3>3. /\ Stable(job[j], job'[j]) /\ job'[j].R = job[j].R
          /\ job'[j].hold_events = job[j].hold_events
          /\ job'[j].start_pending = job[j].start_pending
      BY <3>1 DEF Stable, StructJob, Inv, TypeOK
    <3>4. Calm(j)
      BY <2>1, <2>4, <3>1, <3>3, ZenonT(60), SMTT(30) DEF Calm, NotLost, Stable
    <3> QED
      BY <3>2, <3>4, <1>CalmStep
  <2> QED
    BY <2>2, <2>3, <2>4
\* interface_teardown of start.c
<1>ExecErrorLife.
  ASSUME Inv, LifeInv, NEW j \in Job, ExecError(j)
  PROVE  LifeInv'
  <2> USE <1>ExecErrorLife
  <2>1. /\ UNCHANGED <<event_queue, active, inactive, start, housekept>>
        /\ job' = job \/ job' = [k \in Job |-> [job[k] EXCEPT !.start_pending = FALSE]]
    BY DEF ExecError, jobs
  <2>2. ASSUME NEW k \in Job PROVE Calm(k)
    <3>1. job[k] \in StructJob /\ NotLost(job[k], event_queue[k], start)
      BY DEF Inv, TypeOK, LifeInv
    <3>2. job'[k] = job[k] \/ job'[k] = [job[k] EXCEPT !.start_pending = FALSE]
      BY <2>1, ZenonT(60)
    <3>3. /\ Stable(job[k], job'[k]) /\ job'[k].R = job[k].R
          /\ job'[k].hold_events = job[k].hold_events
          /\ job'[k].start_pending => job[k].start_pending
          /\ SameFlags(job[k], job'[k]) /\ job'[k].priority = job[k].priority
      BY <3>1, <3>2, ZenonT(60), SMTT(30) DEF Stable, SameFlags, StructJob
    <3> QED
      BY <2>1, <3>1, <3>3, ZenonT(60), SMTT(30) DEF Calm, SameFlags, NotLost, Stable
  <2> QED
    BY <2>2, <1>CalmStep
<1> SUFFICES ASSUME Inv, LifeInv, [Next]_vars PROVE LifeInv'
  BY ZenonT(60), SMTT(30)
<1>1. ASSUME NEW j \in Job, Handler(j) PROVE LifeInv'
  BY <1>1, <1>ProcessLife, <1>ActLife, <1>SubmitLife, <1>UserLife, <1>AllocRequestLife, <1>StillSteps,
     <1>AnswerLife, <1>TeardownSteps, <1>CancelLife, ZenonT(60), SMTT(30) DEF Handler
<1>2. ASSUME NEW j \in Job, Partner(j) PROVE LifeInv'
  BY <1>2, <1>StillSteps, <1>SchedRaiseLife, <1>ExecLife, <1>ExecErrorLife, <1>PluginLife,
     <1>ReprioritizeLife, ZenonT(60), SMTT(30) DEF Partner
<1>3. CASE Job # {} /\ Global
  <2>1. PICK j \in Job : TRUE
    BY <1>3, ZenonT(60), SMTT(30)
  <2> QED
    BY <1>3, <2>1, <1>StillSteps, <1>CommitLife, <1>QueueStopLife, <1>QueueStartLife,
       <1>TeardownSteps, ZenonT(60), SMTT(30) DEF Global
<1>4. CASE Job = {}
  BY <1>4, ZenonT(60), SMTT(30) DEF LifeInv
<1>5. CASE UNCHANGED vars
  <2>1. Still
    BY <1>5, ZenonT(60), SMTT(30) DEF vars, manager, jobs, Still
  <2> QED
    BY <2>1, <1>StillLife
<1> QED
  BY <1>1, <1>2, <1>3, <1>4, <1>5, ZenonT(60), SMTT(30) DEF Next

\* It holds before the first job is submitted.
LEMMA LifeInit == Init => LifeInv
<1> SUFFICES ASSUME Init, NEW k \in Job PROVE KeptLife(k)
  BY LifeIs
<1>1. job[k] = NewJob /\ event_queue[k] = << >> /\ active = {} /\ inactive = {} /\ housekept = {}
  BY ZenonT(60), SMTT(30) DEF Init
<1>2. Names(<< >>) = {}
  BY NamesNone, ZenonT(60), SMTT(30)
<1>3. Fresh(job[k])
  <2> DEFINE r == NewJob
  <2>1. r.state = "NEW" /\ r.perilog_active = 0
    BY DEF NewJob
  <2>2. ~ r.alloc_queued /\ ~ r.alloc_pending /\ ~ r.has_resources /\ ~ r.R
    BY ZenonT(60), SMTT(30) DEF NewJob
  <2>3. ~ r.start_pending /\ ~ r.free_posted /\ ~ r.hold_events /\ ~ r.eventlog_readonly
    BY ZenonT(60), SMTT(30) DEF NewJob
  <2> HIDE DEF r
  <2> QED
    BY <1>1, <2>1, <2>2, <2>3, ZenonT(60), SMTT(30) DEF Fresh, r
<1>4. Life(job[k], << >>, start)
  BY <1>2, <1>3 DEF Fresh, Life, EventsFit, FreedQuiet, NotLost
<1> QED
  BY <1>1, <1>3, <1>4 DEF KeptLife, Known

\* A job in SCHED is never forgotten (alloc.c, queue.c, event.c): while its queue
\* is started and it is not held, it is in alloc->queue or has a request with the
\* scheduler, for every set of jobs and plugins and through every failure of the
\* scheduler and the exec service.
THEOREM NoLostJobCorrect == Spec => []NoLostJob
<1>1. Init => Inv /\ LifeInv
  BY InvInit, LifeInit
<1>2. Inv /\ LifeInv /\ [Next]_vars => (Inv /\ LifeInv)'
  BY InvStep, LifeStep, ZenonT(60), SMTT(30)
<1>3. Inv /\ LifeInv => NoLostJob
  <2> SUFFICES ASSUME Inv, LifeInv, Idle, NEW j \in active, job[j].state = "SCHED", start,
                      job[j].priority # FLUX_JOB_PRIORITY_MIN
               PROVE  job[j].alloc_queued \/ job[j].alloc_pending
    BY ZenonT(60), SMTT(30) DEF NoLostJob
  <2>1. j \in Job /\ KeptLife(j) /\ ~ Busy(j)
    BY LifeIs, ZenonT(60), SMTT(30) DEF Inv, TypeOK, Idle
  <2>2. event_queue[j] = << >> /\ Names(<< >>) = {}
    BY <2>1, RestEmpty, NamesNone, ZenonT(60), SMTT(30)
  <2> QED
    <3>1. NotLost(job[j], event_queue[j], start)
      BY <2>1, ZenonT(60), SMTT(20) DEF KeptLife, Life
    <3> QED
      BY <2>2, <3>1, ZenonT(60), SMTT(20) DEF NotLost
<1> QED
  BY <1>1, <1>2, <1>3, PTL DEF Spec

=============================================================================
