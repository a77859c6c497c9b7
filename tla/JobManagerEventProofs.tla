---------------------- MODULE JobManagerEventProofs -----------------------
EXTENDS JobManagerProofs

(***************************************************************************)
(* The events of a job and the states they find it in, for every set of    *)
(* jobs, plugins and limits.                                               *)
(*                                                                         *)
(* What JobManager.tla promises of a job between two handlers holds        *)
(* because of what the events that are queued inside a handler will do.    *)
(* The invariant LifeInv says which events may be queued in which state of *)
(* the job.  The lemmas below are about one event: what event_job_update   *)
(* makes of the job (UpdateFacts, ProcessReady), and what event_job_action *)
(* then does and posts (LiveLife, CleanupLife, InactiveLife).              *)
(***************************************************************************)

Ended == {"CLEANUP", "INACTIVE"}

\* The names of the events in a queue.
Names(q) == {q[i].name : i \in 1..Len(q)}

\* The events of a job fit the state it is in: a job is held back only in NEW,
\* whose queue begins with validate; alloc comes alone, to a job that waits for
\* it; nothing but prologs follows it into RUN; epilogs start in CLEANUP, before
\* the resources are let go.
EventsFit(r, q) ==
  /\ r.eventlog_readonly <=> r.state = "INACTIVE"
  /\ r.hold_events => r.state = "NEW"
  /\ r.state = "NEW" => q = << >> \/ Head(q).name = "validate"
  /\ "validate" \in Names(q) => r.state = "NEW" /\ "validate" \notin Names(Tail(q))
  /\ r.alloc_queued \/ r.alloc_pending => r.state \in {"PRIORITY", "SCHED"}
  /\ "alloc" \in Names(q) => /\ Len(q) = 1
                             /\ r.state \in {"PRIORITY", "SCHED"}
                             /\ ~ r.alloc_queued /\ ~ r.alloc_pending
  /\ "prolog-start" \in Names(q) => r.state = "RUN" /\ Names(q) = {"prolog-start"}
  /\ "epilog-start" \in Names(q) => r.state = "CLEANUP" /\ ~ r.free_posted

\* The resources of a job are let go once, when neither the exec service nor a
\* prolog or epilog uses them, and the job ends without any.
FreedQuiet(r, q) ==
  /\ r.start_pending => r.state \in {"RUN", "CLEANUP"}
  /\ "free" \in Names(q) => r.free_posted
  /\ r.free_posted => r.state \in Ended /\ ~ r.start_pending /\ r.perilog_active = 0
  /\ r.state = "CLEANUP" /\ r.has_resources /\ r.free_posted => "free" \in Names(q)
  /\ "clean" \in Names(q) => r.state \in Ended /\ "epilog-start" \notin Names(q)
  /\ "clean" \in Names(q) \/ r.state = "INACTIVE" =>
        ~ r.start_pending /\ r.perilog_active = 0 /\ ~ r.has_resources

\* A job that waits for resources is in the alloc queues, or an event is there
\* that will see to it.
NotLost(r, q, go) ==
  r.state = "SCHED" /\ go /\ r.priority # FLUX_JOB_PRIORITY_MIN
  /\ ~ r.alloc_queued /\ ~ r.alloc_pending
    => Names(q) \cap {"priority", "alloc", "exception"} # {}

\* A job not yet submitted.
Fresh(r) ==
  /\ r.state = "NEW" /\ r.perilog_active = 0
  /\ ~ r.alloc_queued /\ ~ r.alloc_pending /\ ~ r.has_resources /\ ~ r.R
  /\ ~ r.start_pending /\ ~ r.free_posted /\ ~ r.hold_events /\ ~ r.eventlog_readonly

Known(k) ==
  /\ k \in active => /\ job[k].state # "INACTIVE"
                     /\ job[k].state = "NEW" => event_queue[k] # << >>
  /\ k \in inactive => job[k].state = "INACTIVE"
  /\ k \notin active \cup inactive => Fresh(job[k]) /\ event_queue[k] = << >>

LifeInv ==
  \A k \in Job : /\ Known(k)
                 /\ EventsFit(job[k], event_queue[k])
                 /\ FreedQuiet(job[k], event_queue[k])
                 /\ NotLost(job[k], event_queue[k], start)
                 /\ k \in housekept => job[k].free_posted

-----------------------------------------------------------------------------
(* The names of the events in a queue. *)

\* job_event_is_queued looks for a name.
LEMMA NamesQueued ==
  ASSUME NEW q, NEW name
  PROVE  IsQueued(q, name) <=> name \in Names(q)
  BY DEF IsQueued, Names

\* An empty queue has no names, and only an empty queue.
LEMMA NamesEmpty ==
  ASSUME NEW q \in Seq(Event)
  PROVE  Names(q) = {} <=> q = << >>
<1>1. CASE q = << >>
  BY <1>1 DEF Names
<1>2. CASE q # << >>
  <2>1. 1 \in 1..Len(q)
    BY <1>2
  <2>2. q[1].name \in Names(q)
    BY <2>1 DEF Names
  <2> QED
    BY <1>2, <2>2
<1> QED
  BY <1>1, <1>2

\* The empty queue has no names.
LEMMA NamesNone == Names(<< >>) = {}
  BY DEF Names

\* A queue that is not empty has a head, which is an event.
LEMMA QueueHead ==
  ASSUME NEW q \in Seq(Event), q # << >> \/ 1 <= Len(q)
  PROVE  q # << >> /\ Head(q) \in Event /\ Head(q).name \in EventName
<1>1. q # << >>
  OBVIOUS
<1>2. Head(q) \in Event
  BY <1>1
<1> QED
  BY <1>1, <1>2 DEF Event, EventName

\* A posted event adds its name.
LEMMA NamesAppend ==
  ASSUME NEW q \in Seq(Event), NEW e \in Event
  PROVE  Names(Append(q, e)) = Names(q) \cup {e.name}
<1> DEFINE a == Append(q, e)
<1>1. a \in Seq(Event) /\ Len(a) = Len(q) + 1 /\ Len(q) \in Nat
  OBVIOUS
<1>2. \A i \in 1..Len(q) : a[i] = q[i]
  OBVIOUS
<1>3. a[Len(q) + 1] = e
  OBVIOUS
<1> HIDE DEF a
<1>4. ASSUME NEW n \in Names(a)
      PROVE  n \in Names(q) \cup {e.name}
  <2>1. PICK i \in 1..Len(a) : n = a[i].name
    BY DEF Names
  <2>2. CASE i = Len(q) + 1
    BY <2>1, <2>2, <1>3
  <2>3. CASE i \in 1..Len(q)
    BY <2>1, <2>3, <1>2 DEF Names
  <2> QED
    BY <1>1, <2>1, <2>2, <2>3
<1>5. ASSUME NEW n \in Names(q)
      PROVE  n \in Names(a)
  <2>1. PICK i \in 1..Len(q) : n = q[i].name
    BY DEF Names
  <2>2. i \in 1..Len(a) /\ a[i] = q[i]
    BY <2>1, <1>1, <1>2
  <2> QED
    BY <2>1, <2>2 DEF Names
<1>6. e.name \in Names(a)
  <2>1. Len(q) + 1 \in 1..Len(a)
    BY <1>1
  <2> QED
    BY <2>1, <1>3 DEF Names
<1> QED
  BY <1>4, <1>5, <1>6 DEF a

\* The first event is the one being processed; the others come after it.
LEMMA NamesTail ==
  ASSUME NEW q \in Seq(Event), q # << >>
  PROVE  /\ Tail(q) \in Seq(Event)
         /\ Names(q) = {Head(q).name} \cup Names(Tail(q))
<1>1. /\ Tail(q) \in Seq(Event) /\ Len(Tail(q)) = Len(q) - 1
      /\ Len(q) \in Nat \ {0} /\ Head(q) = q[1]
  OBVIOUS
<1>2. \A i \in 1..Len(q) - 1 : Tail(q)[i] = q[i + 1]
  OBVIOUS
<1>3. ASSUME NEW n \in Names(q)
      PROVE  n \in {Head(q).name} \cup Names(Tail(q))
  <2>1. PICK i \in 1..Len(q) : n = q[i].name
    BY DEF Names
  <2>2. CASE i = 1
    BY <2>1, <2>2, <1>1
  <2>3. CASE i # 1
    <3>1. i - 1 \in 1..Len(Tail(q)) /\ Tail(q)[i - 1] = q[i]
      BY <2>1, <2>3, <1>1, <1>2
    <3> QED
      BY <2>1, <3>1, ZenonT(60) DEF Names
  <2> QED
    BY <2>2, <2>3
<1>4. ASSUME NEW n \in Names(Tail(q))
      PROVE  n \in Names(q)
  <2>1. PICK i \in 1..Len(Tail(q)) : n = Tail(q)[i].name
    BY ZenonT(60) DEF Names
  <2>2. i + 1 \in 1..Len(q) /\ Tail(q)[i] = q[i + 1]
    BY <2>1, <1>1, <1>2
  <2> QED
    BY <2>1, <2>2 DEF Names
<1>5. Head(q).name \in Names(q)
  BY <1>1 DEF Names
<1> QED
  BY <1>1, <1>3, <1>4, <1>5

\* A queue of one event.
LEMMA NamesSingle ==
  ASSUME NEW q \in Seq(Event), Len(q) = 1
  PROVE  Names(Tail(q)) = {}
<1>1. q # << >>
  <2>1. Len(<< >>) = 0 /\ 0 # 1
    OBVIOUS
  <2> QED
    BY <2>1, Zenon
<1>2. Len(Tail(q)) = 0
  BY <1>1
<1>3. 1..0 = {}
  OBVIOUS
<1> QED
  BY <1>2, <1>3, Zenon DEF Names

\* n events of one name add that name.
LEMMA NamesPosts ==
  ASSUME NEW q \in Seq(Event), NEW name \in EventName \ {"priority", "urgency"},
         NEW n \in Nat
  PROVE  Names(Posts(q, name, n)) = Names(q) \cup (IF n = 0 THEN {} ELSE {name})
<1> DEFINE p == [i \in 1..n |-> Ev(name)]
           a == Posts(q, name, n)
<1>1. p \in Seq(Event) /\ Len(p) = n /\ \A i \in 1..n : p[i].name = name
  <2>1. Ev(name) \in Event /\ Ev(name).name = name
    BY EvType DEF Ev
  <2> QED
    BY <2>1
<1>2. a = q \o p
  BY DEF Posts
<1> HIDE DEF p
<1>3. a \in Seq(Event) /\ Len(a) = Len(q) + n /\ Len(q) \in Nat
  BY <1>1, <1>2
<1>4. \A i \in 1..Len(q) : a[i] = q[i]
  BY <1>1, <1>2
<1>5. \A i \in 1..n : a[Len(q) + i] = p[i]
  BY <1>1, <1>2
<1> HIDE DEF a
<1>6. ASSUME NEW m \in Names(a)
      PROVE  m \in Names(q) \cup (IF n = 0 THEN {} ELSE {name})
  <2>1. PICK i \in 1..Len(a) : m = a[i].name
    BY DEF Names
  <2>2. CASE i \in 1..Len(q)
    BY <2>1, <2>2, <1>4 DEF Names
  <2>3. CASE i \notin 1..Len(q)
    <3>1. i - Len(q) \in 1..n /\ a[i] = p[i - Len(q)]
      BY <2>1, <2>3, <1>3, <1>5
    <3> QED
      BY <2>1, <3>1, <1>1
  <2> QED
    BY <2>2, <2>3
<1>7. ASSUME NEW m \in Names(q)
      PROVE  m \in Names(a)
  <2>1. PICK i \in 1..Len(q) : m = q[i].name
    BY DEF Names
  <2>2. i \in 1..Len(a) /\ a[i] = q[i]
    BY <2>1, <1>3, <1>4
  <2> QED
    BY <2>1, <2>2 DEF Names
<1>8. n # 0 => name \in Names(a)
  <2> HAVE n # 0
  <2>1. Len(q) + 1 \in 1..Len(a) /\ a[Len(q) + 1].name = name
    BY <1>1, <1>3, <1>5
  <2> QED
    BY <2>1 DEF Names
<1> QED
  BY <1>6, <1>7, <1>8 DEF a

\* What is left of a queue when the action returns.
Rest(q, done) == SubSeq(q, done + 1, Len(q))

\* The entry that was processed goes, or none.
LEMMA RestIs ==
  ASSUME NEW q \in Seq(Event)
  PROVE  Rest(q, 0) = q /\ (q # << >> => Rest(q, 1) = Tail(q))
<1>1. Rest(q, 0) = q
  BY DEF Rest
<1>2. ASSUME q # << >> PROVE Rest(q, 1) = Tail(q)
  BY <1>2 DEF Rest
<1> QED
  BY <1>1, <1>2

\* What an action posts comes behind the rest of the queue.
LEMMA RestAppend ==
  ASSUME NEW q \in Seq(Event), NEW e \in Event, NEW done \in {0, 1}, done <= Len(q)
  PROVE  /\ Rest(q, done) \in Seq(Event)
         /\ Rest(Append(q, e), done) = Append(Rest(q, done), e)
<1>1. CASE done = 0
  <2>1. Append(q, e) \in Seq(Event)
    OBVIOUS
  <2>2. Rest(q, 0) = q /\ Rest(Append(q, e), 0) = Append(q, e)
    BY <2>1, RestIs, ZenonT(60)
  <2> QED
    BY <1>1, <2>1, <2>2
<1>2. CASE done = 1
  <2>1. q # << >> /\ Append(q, e) \in Seq(Event) /\ Append(q, e) # << >>
    BY <1>2
  <2>2. Rest(q, 1) = Tail(q) /\ Rest(Append(q, e), 1) = Tail(Append(q, e))
    BY <2>1, RestIs, ZenonT(60)
  <2>3. Tail(Append(q, e)) = Append(Tail(q), e) /\ Tail(q) \in Seq(Event)
    BY <2>1, SMTT(20), SMTT(30), SMTT(60)
  <2> QED
    BY <1>2, <2>2, <2>3, ZenonT(60)
<1> QED
  BY <1>1, <1>2

-----------------------------------------------------------------------------
(* event_job_action *)

\* The invariants of one job.
Life(r, q, go) == EventsFit(r, q) /\ FreedQuiet(r, q) /\ NotLost(r, q, go)

\* What the action finds: x is the job after the event at the head of y (if
\* done = 1) has been applied and the plugins have been called.
Ready(x, y, done) ==
  LET N == Names(Rest(y, done)) IN
  /\ ~ x.hold_events
  /\ x.eventlog_readonly => x.state = "INACTIVE"
  /\ "validate" \notin N /\ "alloc" \notin N
  /\ x.alloc_queued \/ x.alloc_pending => x.state \in {"PRIORITY", "SCHED", "CLEANUP"}
  /\ "prolog-start" \in N => x.state = "RUN" /\ N = {"prolog-start"}
  /\ "epilog-start" \in N => x.state = "CLEANUP" /\ ~ x.free_posted
  /\ "epilog-start" \in Names(y) => "epilog-start" \in N \/ x.perilog_active # 0
  /\ FreedQuiet(x, Rest(y, done))

\* A job in CLEANUP that waits for nothing has an event to process.
Wakes(r, q) ==
  r.state = "CLEANUP" /\ ~ r.start_pending /\ r.perilog_active = 0 => q # << >>

\* The fields that event_job_action and the flags' owners leave alone.
Stable(r, s) ==
  /\ s.state = r.state
  /\ s.perilog_active = r.perilog_active
  /\ s.has_resources = r.has_resources
  /\ s.free_posted = r.free_posted
  /\ s.eventlog_readonly = r.eventlog_readonly

\* event_job_action in every state but CLEANUP and INACTIVE changes flags only.
LEMMA ActionLive ==
  ASSUME TypeOK, NEW j \in Job, NEW x \in StructJob, NEW y \in Seq(Event), NEW ts,
         NEW done \in {0, 1}, done <= Len(y),
         event_job_action(j, x, y, ts, done), x.state \notin Ended
  PROVE  /\ Stable(x, job'[j])
         /\ job'[j].hold_events = x.hold_events /\ job'[j].R = x.R
         /\ job'[j].priority = x.priority
         /\ job'[j].start_pending => x.start_pending \/ x.state = "RUN"
         /\ job'[j].alloc_pending = x.alloc_pending
         /\ job'[j].alloc_queued => x.alloc_queued \/ x.state = "SCHED"
         /\ x.state = "SCHED" => (job'[j].alloc_queued <=> x.alloc_queued \/ Enqueues(x))
         /\ UNCHANGED <<jobs, housekept>>
         /\ \/ event_queue'[j] = Rest(y, done)
            \/ x.state = "DEPEND" /\ event_queue'[j] = Append(Rest(y, done), Ev("depend"))
<1>0. \A q : Dequeue(j, q, done) => event_queue'[j] = Rest(q, done)
  BY DEF Dequeue, TypeOK, Rest
<1> USE DEF Stable, StructJob, Ended
<1>1. CASE ActionDepend(j, x, y, ts, done)
  <2>1. Dequeue(j, y, done) \/ Dequeue(j, Append(y, Ev("depend")), done)
    BY <1>1 DEF ActionDepend
  <2>2. Rest(Append(y, Ev("depend")), done) = Append(Rest(y, done), Ev("depend"))
    BY RestAppend, EvType, SMTT(20), ZenonT(60), SMTT(30) DEF EventName
  <2>3. event_queue'[j] = Rest(y, done) \/ event_queue'[j] = Append(Rest(y, done), Ev("depend"))
    BY <1>0, <2>1, <2>2
  <2>4. PICK b \in BOOLEAN : job' = [job EXCEPT ![j] = [x EXCEPT !.depend_posted = b]]
    BY <1>1, ZenonT(60) DEF ActionDepend
  <2> QED
    BY <1>1, <2>3, <2>4, SMTT(20), ZenonT(60), SMTT(30) DEF ActionDepend, TypeOK
<1>2. CASE ActionPriority(j, x, y, ts, done)
  <2>1. event_queue'[j] = Rest(y, done)
    BY <1>0, <1>2 DEF ActionPriority
  <2> QED
    BY <1>2, <2>1 DEF ActionPriority, TypeOK
<1>3. CASE ActionSched(j, x, y, ts, done)
  <2>1. event_queue'[j] = Rest(y, done)
    BY <1>0, <1>3 DEF ActionSched
  <2>2. PICK b \in BOOLEAN : /\ b <=> x.alloc_queued \/ Enqueues(x)
                             /\ job' = [job EXCEPT ![j] = [x EXCEPT !.alloc_queued = b]]
    BY <1>3, ZenonT(60) DEF ActionSched
  <2>3. UNCHANGED <<jobs, housekept>> /\ x.state = "SCHED"
    BY <1>3 DEF ActionSched
  <2> QED
    BY <2>1, <2>2, <2>3, SMTT(20), ZenonT(60), SMTT(30) DEF TypeOK
<1>4. CASE ActionRun(j, x, y, ts, done)
  <2>1. event_queue'[j] = Rest(y, done)
    BY <1>0, <1>4 DEF ActionRun
  <2>2. PICK b \in BOOLEAN : job' = [job EXCEPT ![j] = [x EXCEPT !.start_pending = b]]
    BY <1>4, ZenonT(60) DEF ActionRun
  <2>3. UNCHANGED <<jobs, housekept>> /\ x.state = "RUN"
    BY <1>4 DEF ActionRun
  <2> QED
    BY <2>1, <2>2, <2>3 DEF TypeOK
<1>5. CASE ActionCleanup(j, x, y, ts, done)
  BY <1>5 DEF ActionCleanup
<1>6. CASE ActionInactive(j, x, y, ts, done)
  BY <1>6, SMTT(20), ZenonT(60), SMTT(30) DEF ActionInactive
<1> QED
  BY <1>1, <1>2, <1>3, <1>4, <1>5, <1>6, ZenonT(60) DEF event_job_action

\* When the action of CLEANUP posts free, and when clean.
Frees(x, y) == x.has_resources /\ Quiet(x, y) /\ ~ x.free_posted
Cleans(x, y) == ~ x.has_resources /\ Quiet(x, y)

\* event_job_action in CLEANUP: the free event when the resources can be let go,
\* clean when there are none.
LEMMA ActionCleanupIs ==
  ASSUME TypeOK, NEW j \in Job, NEW x \in StructJob, NEW y \in Seq(Event), NEW ts,
         NEW done \in {0, 1}, done <= Len(y),
         event_job_action(j, x, y, ts, done), x.state = "CLEANUP"
  PROVE  /\ job'[j].state = "CLEANUP" /\ job'[j].perilog_active = x.perilog_active
         /\ job'[j].start_pending = x.start_pending
         /\ job'[j].has_resources = x.has_resources /\ job'[j].R = x.R
         /\ job'[j].hold_events = x.hold_events
         /\ job'[j].eventlog_readonly = x.eventlog_readonly
         /\ ~ job'[j].alloc_pending /\ ~ job'[j].alloc_queued
         /\ job'[j].free_posted <=> x.free_posted \/ Frees(x, y)
         /\ Frees(x, y) => event_queue'[j] = Append(Rest(y, done), Ev("free"))
         /\ Cleans(x, y) => event_queue'[j] = Append(Rest(y, done), Ev("clean"))
         /\ ~ Frees(x, y) /\ ~ Cleans(x, y) => event_queue'[j] = Rest(y, done)
         /\ housekept' = IF Frees(x, y) /\ Housekeeping THEN housekept \cup {j} ELSE housekept
         /\ UNCHANGED <<jobs, exec>>
<1> DEFINE free == x.has_resources /\ Quiet(x, y) /\ ~ x.free_posted
           clean == ~ x.has_resources /\ Quiet(x, y)
           rest == Rest(y, done)
<1>0. \A q : Dequeue(j, q, done) => event_queue'[j] = Rest(q, done)
  BY DEF Dequeue, TypeOK, Rest
<1>1. ActionCleanup(j, x, y, ts, done)
  BY DEF event_job_action, ActionDepend, ActionPriority, ActionSched, ActionRun,
         ActionInactive
<1>2. job'[j] = [x EXCEPT !.alloc_pending = FALSE, !.alloc_queued = FALSE,
                          !.free_posted = @ \/ free]
  BY <1>1 DEF ActionCleanup, TypeOK
<1>3. Dequeue(j, CASE free -> Append(y, Ev("free"))
                   [] clean -> Append(y, Ev("clean"))
                   [] OTHER -> y, done)
  BY <1>1 DEF ActionCleanup
<1>4. /\ Rest(Append(y, Ev("free")), done) = Append(rest, Ev("free"))
      /\ Rest(Append(y, Ev("clean")), done) = Append(rest, Ev("clean"))
  BY RestAppend, EvType DEF EventName
<1>5. ~ (free /\ clean)
  OBVIOUS
<1>6. /\ housekept' = IF free /\ Housekeeping THEN housekept \cup {j} ELSE housekept
      /\ UNCHANGED <<jobs, exec>>
  BY <1>1 DEF ActionCleanup
<1> HIDE DEF free, clean, rest
<1>7. /\ free => event_queue'[j] = Append(rest, Ev("free"))
      /\ clean => event_queue'[j] = Append(rest, Ev("clean"))
      /\ ~ free /\ ~ clean => event_queue'[j] = rest
  <2>1. CASE free
    BY <1>0, <1>3, <1>4, <1>5, <2>1, SMTT(20), ZenonT(60), SMTT(30)
  <2>2. CASE clean
    BY <1>0, <1>3, <1>4, <1>5, <2>2, SMTT(20), ZenonT(60), SMTT(30)
  <2>3. CASE ~ free /\ ~ clean
    BY <1>0, <1>3, <2>3 DEF rest
  <2> QED
    BY <1>5, <2>1, <2>2, <2>3, SMTT(20), ZenonT(60), SMTT(30)
<1>8. /\ job'[j].state = "CLEANUP" /\ job'[j].perilog_active = x.perilog_active
      /\ job'[j].start_pending = x.start_pending
      /\ job'[j].has_resources = x.has_resources /\ job'[j].R = x.R
      /\ job'[j].hold_events = x.hold_events
      /\ job'[j].eventlog_readonly = x.eventlog_readonly
      /\ ~ job'[j].alloc_pending /\ ~ job'[j].alloc_queued
  BY <1>2 DEF StructJob
<1>9. job'[j].free_posted <=> x.free_posted \/ free
  BY <1>2, ZenonT(60) DEF StructJob
<1>10. (free <=> Frees(x, y)) /\ (clean <=> Cleans(x, y))
  BY DEF free, clean, Frees, Cleans
<1> QED
  BY <1>6, <1>7, <1>8, <1>9, <1>10, SMTT(20), ZenonT(60), SMTT(30) DEF rest

\* event_job_action in INACTIVE: the eventlog is closed, the job moves over.
LEMMA ActionInactiveIs ==
  ASSUME TypeOK, NEW j \in Job, NEW x \in StructJob, NEW y \in Seq(Event), NEW ts,
         NEW done \in {0, 1}, event_job_action(j, x, y, ts, done), x.state = "INACTIVE"
  PROVE  /\ job'[j] = [x EXCEPT !.eventlog_readonly = TRUE]
         /\ event_queue'[j] = Rest(y, done)
         /\ active' = active \ {j} /\ inactive' = inactive \cup {j}
         /\ UNCHANGED <<housekept, exec>>
<1>1. ActionInactive(j, x, y, ts, done)
  BY DEF event_job_action, ActionDepend, ActionPriority, ActionSched, ActionRun,
         ActionCleanup
<1> QED
  BY <1>1, ZenonT(60) DEF ActionInactive, Dequeue, Rest, TypeOK

\* What an action leaves of a job that is not ending.
LEMMA LiveLife ==
  ASSUME TypeOK, NEW j \in Job, NEW x \in StructJob, NEW y \in Seq(Event), NEW ts,
         NEW done \in {0, 1}, done <= Len(y), Ready(x, y, done),
         event_job_action(j, x, y, ts, done), x.state \notin Ended
  PROVE  Life(job'[j], event_queue'[j], start)
<1> DEFINE rest == Rest(y, done)
           q == event_queue'[j]
           r == job'[j]
<1>1. /\ Stable(x, r)
      /\ r.hold_events = x.hold_events /\ r.R = x.R
      /\ r.priority = x.priority
      /\ r.start_pending => x.start_pending \/ x.state = "RUN"
      /\ r.alloc_pending = x.alloc_pending
      /\ r.alloc_queued => x.alloc_queued \/ x.state = "SCHED"
      /\ x.state = "SCHED" => (r.alloc_queued <=> x.alloc_queued \/ Enqueues(x))
      /\ \/ q = rest
         \/ x.state = "DEPEND" /\ q = Append(rest, Ev("depend"))
  BY ActionLive
<1>2. rest \in Seq(Event)
  BY RestAppend, EvType DEF EventName
<1>3. Names(Append(rest, Ev("depend"))) = Names(rest) \cup {"depend"}
  BY <1>2, NamesAppend, EvType, SMTT(20), ZenonT(60), SMTT(30) DEF EventName, Ev
<1>4. x.state # "NEW"
  BY DEF event_job_action, ActionDepend, ActionPriority, ActionSched, ActionRun,
         ActionCleanup, ActionInactive
<1>5. Names(q) = Names(rest) \/ (x.state = "DEPEND" /\ Names(q) = Names(rest) \cup {"depend"})
  BY <1>1, <1>3, ZenonT(60)
<1> HIDE DEF rest, q, r
<1>6. EventsFit(r, q)
  BY <1>1, <1>4, <1>5, ZenonT(60), SMTT(30) DEF Ready, EventsFit, FreedQuiet, Stable, Ended, rest
<1>7. FreedQuiet(r, q)
  BY <1>1, <1>5, ZenonT(60), SMTT(30) DEF Ready, FreedQuiet, Stable, Ended, rest
<1>8. NotLost(r, q, start)
  BY <1>1 DEF NotLost, Enqueues, Stable
<1> QED
  BY <1>6, <1>7, <1>8, ZenonT(60), SMTT(30) DEF Life, r, q

\* What an action leaves of a job in CLEANUP.
LEMMA CleanupLife ==
  ASSUME TypeOK, NEW j \in Job, NEW x \in StructJob, NEW y \in Seq(Event), NEW ts,
         NEW done \in {0, 1}, done <= Len(y), Ready(x, y, done),
         event_job_action(j, x, y, ts, done), x.state = "CLEANUP"
  PROVE  /\ Life(job'[j], event_queue'[j], start)
         /\ Wakes(job'[j], event_queue'[j])
<1> DEFINE rest == Rest(y, done)
           q == event_queue'[j]
           r == job'[j]
           free == Frees(x, y)
           clean == Cleans(x, y)
<1>1. /\ free => q = Append(rest, Ev("free"))
      /\ clean => q = Append(rest, Ev("clean"))
      /\ ~ free /\ ~ clean => q = rest
  BY ActionCleanupIs, SMTT(20), SMTT(30), SMTT(60)
<1>2. rest \in Seq(Event)
  BY RestAppend, EvType DEF EventName
<1>3. /\ Names(Append(rest, Ev("free"))) = Names(rest) \cup {"free"}
      /\ Names(Append(rest, Ev("clean"))) = Names(rest) \cup {"clean"}
  BY <1>2, NamesAppend, EvType DEF EventName, Ev
<1>4. Quiet(x, y) <=> /\ "epilog-start" \notin Names(y)
                      /\ x.perilog_active = 0 /\ ~ x.start_pending
  BY NamesQueued DEF Quiet
<1>5. Names(rest) \subseteq Names(y)
  <2>1. CASE done = 0
    BY <2>1, RestIs
  <2>2. CASE done = 1
    <3>1. y # << >>
      BY <2>2, QueueHead, ZenonT(60), SMTT(30)
    <3> QED
      BY <2>2, <3>1, RestIs, NamesTail, ZenonT(60)
  <2> QED
    BY <2>1, <2>2
<1>6. /\ r.state = "CLEANUP" /\ r.perilog_active = x.perilog_active
      /\ r.start_pending = x.start_pending /\ r.has_resources = x.has_resources
      /\ r.hold_events = x.hold_events /\ r.eventlog_readonly = x.eventlog_readonly
      /\ ~ r.alloc_pending /\ ~ r.alloc_queued
      /\ r.free_posted <=> x.free_posted \/ free
  BY ActionCleanupIs, SMTT(20), SMTT(30), SMTT(60)
<1>7. /\ free => Names(q) = Names(rest) \cup {"free"}
      /\ clean => Names(q) = Names(rest) \cup {"clean"}
      /\ ~ free /\ ~ clean => Names(q) = Names(rest)
  BY <1>1, <1>3, ZenonT(60)
<1>8. Names(q) # {} => q # << >>
  BY NamesNone, ZenonT(60), SMTT(30)
<1> HIDE DEF rest, q, r
<1>9. EventsFit(r, q)
  BY <1>4, <1>5, <1>6, <1>7, ZenonT(60), SMTT(30) DEF Ready, EventsFit, FreedQuiet, Ended, Frees, Cleans, rest
<1>10. FreedQuiet(r, q)
  BY <1>4, <1>5, <1>6, <1>7, ZenonT(60), SMTT(30) DEF Ready, FreedQuiet, Ended, Frees, Cleans, rest
<1>11. Wakes(r, q)
  BY <1>4, <1>5, <1>6, <1>7, <1>8, ZenonT(60), SMTT(30) DEF Ready, FreedQuiet, Wakes, Frees, Cleans, rest
<1>12. NotLost(r, q, start)
  BY <1>6, ZenonT(60), SMTT(30) DEF NotLost
<1> QED
  BY <1>9, <1>10, <1>11, <1>12, ZenonT(60), SMTT(30) DEF Life, r, q

\* What an action leaves of a job that has become inactive.
LEMMA InactiveLife ==
  ASSUME TypeOK, NEW j \in Job, NEW x \in StructJob, NEW y \in Seq(Event), NEW ts,
         NEW done \in {0, 1}, done <= Len(y), Ready(x, y, done),
         event_job_action(j, x, y, ts, done), x.state = "INACTIVE"
  PROVE  Life(job'[j], event_queue'[j], start)
<1>1. /\ job'[j] = [x EXCEPT !.eventlog_readonly = TRUE]
      /\ event_queue'[j] = Rest(y, done)
  BY ActionInactiveIs
<1> DEFINE q == event_queue'[j]
           r == job'[j]
<1>2. /\ r.state = "INACTIVE" /\ r.perilog_active = x.perilog_active
      /\ r.start_pending = x.start_pending /\ r.has_resources = x.has_resources
      /\ r.hold_events = x.hold_events /\ r.eventlog_readonly
      /\ r.alloc_pending = x.alloc_pending /\ r.alloc_queued = x.alloc_queued
      /\ r.free_posted = x.free_posted
  BY <1>1 DEF StructJob
<1>3. q = Rest(y, done)
  BY <1>1
<1> HIDE DEF r, q
<1> QED
  BY <1>2, <1>3, ZenonT(60), SMTT(30) DEF Life, EventsFit, FreedQuiet, NotLost, Ready, Ended, r, q

-----------------------------------------------------------------------------
(* event_job_update *)

\* The fields that no event changes.
Untouched(r, u) ==
  /\ SameFlags(r, u)
  /\ u.start_pending = r.start_pending
  /\ u.free_posted = r.free_posted
  /\ u.hold_events = r.hold_events
  /\ u.eventlog_readonly = r.eventlog_readonly
  /\ u.R = r.R

\* The transitions of RFC 21.
Moves(r, u, name) ==
  \/ /\ u.state = r.state
     /\ name # "validate"
     /\ name \in FatalException => r.state \in Ended \cup {"NEW"}
     /\ name = "alloc" => r.state # "SCHED"
     /\ name = "clean" => r.state # "CLEANUP"
  \/ name = "validate" /\ u.state = "DEPEND"
  \/ name \in {"jobspec-update", "urgency"} /\ r.state = "SCHED" /\ u.state = "PRIORITY"
  \/ name = "depend" /\ r.state = "DEPEND" /\ u.state = "PRIORITY"
  \/ name = "priority" /\ r.state \in {"PRIORITY", "SCHED"} /\ u.state = "SCHED"
  \/ name \in FatalException /\ r.state \notin {"NEW", "INACTIVE"} /\ u.state = "CLEANUP"
  \/ name = "alloc" /\ r.state = "SCHED" /\ u.state = "RUN"
  \/ name = "finish" /\ r.state = "RUN" /\ u.state = "CLEANUP"
  \/ name = "clean" /\ r.state = "CLEANUP" /\ u.state = "INACTIVE"

\* Who takes resources, prologs and epilogs.
Takes(r, u, name) ==
  /\ u.has_resources => r.has_resources \/ name = "alloc"
  /\ r.has_resources => u.has_resources \/ name \in {"free", "exception.scheduler-restart"}
  /\ name = "alloc" => u.has_resources
  /\ name = "free" => ~ u.has_resources
  /\ r.perilog_active = 0 /\ u.perilog_active # 0
       => \/ name = "prolog-start"
          \/ name = "epilog-start" /\ r.state = "CLEANUP"
  /\ name = "epilog-start" /\ r.state = "CLEANUP" => u.perilog_active # 0

\* What event_job_update does to the fields the invariants speak of.
LEMMA UpdateFacts ==
  ASSUME NEW r \in StructJob, NEW e \in Event
  PROVE  LET u == event_job_update(r, e)
         IN Untouched(r, u) /\ Moves(r, u, e.name) /\ Takes(r, u, e.name)
<1> DEFINE u == event_job_update(r, e)
           Facts == Untouched(r, u) /\ Moves(r, u, e.name) /\ Takes(r, u, e.name)
<1> SUFFICES Facts
  OBVIOUS
<1>0. e.name \in EventName
  BY DEF Event, EventName
<1> USE DEF FatalException, Untouched, SameFlags, Moves, Takes, Ended, StructJob, State
<1>1. CASE e.name = "validate"
  BY <1>1, ZenonT(60), SMTT(30) DEF event_job_update
<1>2. CASE e.name = "jobspec-update"
  BY <1>2 DEF event_job_update, ToPriority
<1>3. CASE e.name \in {"dependency-add", "dependency-remove"}
  <2>1. u = event_handle_dependency(r, e.name)
    BY <1>3, ZenonT(60), SMTT(30) DEF event_job_update
  <2> HIDE DEF u
  <2> QED
    BY <1>3, <2>1, SMTT(20), ZenonT(60), SMTT(30) DEF event_handle_dependency
<1>4. CASE e.name = "depend"
  BY <1>4, ZenonT(60), SMTT(30) DEF event_job_update
<1>5. CASE e.name = "priority"
  BY <1>5 DEF event_job_update
<1>6. CASE e.name = "urgency"
  BY <1>6, ZenonT(60) DEF event_job_update, ToPriority
<1>7. CASE e.name \in FatalException
  <2>1. \/ /\ u = EndedBy([r EXCEPT !.has_resources =
                             @ /\ e.name # "exception.scheduler-restart"], "exception")
           /\ r.state \notin {"INACTIVE", "NEW"}
        \/ u = r /\ r.state \in {"INACTIVE", "NEW"}
    BY <1>7, ZenonT(60) DEF event_job_update
  <2> HIDE DEF u
  <2> QED
    BY <1>7, <2>1, ZenonT(60) DEF EndedBy
<1>8. CASE e.name = "alloc"
  BY <1>8, ZenonT(60) DEF event_job_update
<1>9. CASE e.name = "free"
  BY <1>9 DEF event_job_update
<1>10. CASE e.name = "finish"
  BY <1>10, ZenonT(60), SMTT(30) DEF event_job_update, EndedBy
<1>11. CASE e.name = "clean"
  BY <1>11 DEF event_job_update
<1>12. CASE e.name \in {"prolog-start", "prolog-finish"}
  <2>1. u = r \/ u = event_handle_perilog(r, e.name)
    BY <1>12, SMTT(20), ZenonT(60), SMTT(30) DEF event_job_update
  <2>2. r.perilog_active \in Nat
    BY PluginAssumption
  <2> HIDE DEF u
  <2> QED
    <3>1. CASE u = r
      BY <1>12, <3>1, ZenonT(60), SMTT(30)
    <3>2. CASE u = event_handle_perilog(r, e.name)
      BY <1>12, <2>2, <3>2, SMTT(20), SMTT(30), SMTT(60) DEF event_handle_perilog
    <3> QED
      BY <2>1, <3>1, <3>2, ZenonT(60), SMTT(30)
<1>13. CASE e.name \in {"epilog-start", "epilog-finish"}
  <2>1. u = r \/ u = event_handle_perilog(r, e.name)
    BY <1>13, SMTT(20), ZenonT(60), SMTT(30) DEF event_job_update
  <2>2. r.state = "CLEANUP" => u = event_handle_perilog(r, e.name)
    BY <1>13, ZenonT(60), SMTT(30) DEF event_job_update
  <2>3. r.state # "CLEANUP" => u = r
    BY <1>13 DEF event_job_update
  <2>4. r.perilog_active \in Nat
    BY PluginAssumption
  <2> HIDE DEF u
  <2>5. CASE r.state # "CLEANUP"
    BY <1>13, <2>3, <2>5, ZenonT(60), SMTT(30)
  <2>6. CASE r.state = "CLEANUP" /\ e.name = "epilog-start"
    BY <2>2, <2>4, <2>6, SMTT(20), SMTT(30), SMTT(60) DEF event_handle_perilog
  <2>7. CASE r.state = "CLEANUP" /\ e.name = "epilog-finish"
    BY <2>2, <2>4, <2>7, SMTT(20), SMTT(30), SMTT(60) DEF event_handle_perilog
  <2> QED
    BY <1>13, <2>5, <2>6, <2>7, ZenonT(60), SMTT(30)
<1>14. CASE e.name \in {"start", "release", "memo"}
  BY <1>14, ZenonT(60) DEF event_job_update
<1> QED
  BY <1>0, <1>1, <1>2, <1>3, <1>4, <1>5, <1>6, <1>7, <1>8, <1>9, <1>10, <1>11, <1>12,
     <1>13, <1>14, ZenonT(60) DEF EventName

-----------------------------------------------------------------------------
(* Processing an event *)

\* The events that the plugins post on entering a state.
PostedOn(state) ==
  CASE state = "DEPEND" -> {"dependency-add"}
    [] state = "PRIORITY" -> {"priority"}
    [] state = "RUN" -> {"prolog-start"}
    [] state = "CLEANUP" -> {"epilog-start"}
    [] OTHER -> {}

\* x is u after the plugins' calls, which assign at most a priority.
Called(u, x) ==
  /\ Untouched(u, x) /\ x.state = u.state
  /\ x.perilog_active = u.perilog_active /\ x.has_resources = u.has_resources

\* The messages to the scheduler with a cancel for jobs that wait for it.
Cancels(ts) == \E J \in SUBSET sent : ts = Send(to_sched, "cancel", J)

\* What job r with queue q has become when an action works on x and y.
Follows(r, q, x, y) ==
  /\ r.state \in Ended => x.state \in Ended
  /\ x.has_resources => r.has_resources \/ "alloc" \in Names(q)
  /\ r.has_resources \/ "alloc" \in Names(q) =>
       \/ x.has_resources
       \/ "free" \in Names(q) \/ "exception.scheduler-restart" \in Names(q)
  /\ Names(y) \subseteq Names(q) \cup {"dependency-add", "priority", "prolog-start", "epilog-start"}

\* The event at the head of the queue of a job that keeps the invariants, the
\* plugins' calls, and what they post, leave the job ready for the action.
LEMMA ProcessReady ==
  ASSUME NEW r \in StructJob, NEW q \in Seq(Event), q # << >>, NEW go,
         ~ r.hold_events, ~ r.eventlog_readonly, Life(r, q, go),
         NEW u, u = event_job_update(r, Head(q)),
         NEW x, Called(u, x), NEW y, NEW P,
         P = {} \/ (u.state # r.state /\ P = PostedOn(u.state)),
         Names(y) = Names(q) \cup P,
         Names(Rest(y, 1)) = Names(Tail(q)) \cup P
  PROVE  Ready(x, y, 1)
<1> DEFINE e == Head(q)
           T == Names(Tail(q))
           N == Names(Rest(y, 1))
<1>1. e \in Event /\ e.name \in EventName
  BY QueueHead, ZenonT(60), SMTT(30)
<1>2. Untouched(r, u) /\ Moves(r, u, e.name) /\ Takes(r, u, e.name)
  BY <1>1, UpdateFacts, ZenonT(60), SMTT(30)
<1>3. Names(q) = {e.name} \cup T
  BY NamesTail, ZenonT(60), SMTT(30)
<1>4. "alloc" \in Names(q) => T = {}
  <2> HAVE "alloc" \in Names(q)
  <2>1. Len(q) = 1
    BY SMTT(20), ZenonT(60), SMTT(30) DEF Life, EventsFit
  <2> QED
    BY <2>1, NamesSingle
<1>5. r.state \notin {"INACTIVE"} /\ (r.state = "NEW" => e.name = "validate")
  BY DEF Life, EventsFit
<1>6. "validate" \notin T /\ "alloc" \notin T
  BY <1>3, <1>4, ZenonT(60), SMTT(30) DEF Life, EventsFit
<1>7. e.name = "validate" => r.state = "NEW"
  BY <1>3, ZenonT(60), SMTT(30) DEF Life, EventsFit
<1>8. /\ u.state = "DEPEND" => PostedOn(u.state) = {"dependency-add"}
      /\ u.state = "PRIORITY" => PostedOn(u.state) = {"priority"}
      /\ u.state = "RUN" => PostedOn(u.state) = {"prolog-start"}
      /\ u.state = "CLEANUP" => PostedOn(u.state) = {"epilog-start"}
      /\ u.state \in {"NEW", "SCHED", "INACTIVE"} => PostedOn(u.state) = {}
  BY DEF PostedOn
<1>9. N = T \cup P
  BY ZenonT(60), SMTT(30)
<1>10. u.state \in State
  BY <1>2, <1>5, SMTT(20), ZenonT(60), SMTT(30) DEF Moves, StructJob, State
<1>11. P \subseteq {"dependency-add", "priority", "prolog-start", "epilog-start"}
  BY <1>8, <1>10 DEF State, Moves
<1> HIDE DEF e, T, N
<1>12. /\ "prolog-start" \in P => u.state = "RUN" /\ e.name = "alloc" /\ P = {"prolog-start"}
       /\ "epilog-start" \in P => u.state = "CLEANUP" /\ r.state \notin Ended /\ P = {"epilog-start"}
  <2>1. u.state = "RUN" /\ u.state # r.state => e.name = "alloc"
    BY <1>2, SMTT(20), ZenonT(60), SMTT(30) DEF Moves
  <2>2. u.state = "CLEANUP" /\ u.state # r.state => r.state \notin Ended
    BY <1>2, <1>5 DEF Moves, Ended
  <2> QED
    BY <1>8, <1>10, <2>1, <2>2, ZenonT(60) DEF State
<1>13. "prolog-start" \in N => x.state = "RUN" /\ N = {"prolog-start"}
  <2>1. CASE "prolog-start" \in P
    BY <1>3, <1>4, <1>9, <1>12, <2>1, ZenonT(60), SMTT(30) DEF Called
  <2>2. CASE "prolog-start" \in T
    <3>1. r.state = "RUN" /\ Names(q) = {"prolog-start"}
      BY <1>3, <2>2 DEF Life, EventsFit
    <3>2. e.name = "prolog-start" /\ T = {"prolog-start"}
      BY <1>3, <2>2, <3>1, ZenonT(60), SMTT(30)
    <3>3. u.state = "RUN"
      BY <1>2, <3>1, <3>2, SMTT(20), ZenonT(60), SMTT(30) DEF Moves, FatalException
    <3> QED
      BY <1>9, <3>1, <3>2, <3>3, ZenonT(60), SMTT(30) DEF Called
  <2> QED
    BY <1>9, <2>1, <2>2, ZenonT(60), SMTT(30)
<1>14. "epilog-start" \in N => x.state = "CLEANUP" /\ ~ x.free_posted
  <2>1. CASE "epilog-start" \in P
    BY <1>2, <1>12, <2>1, ZenonT(60), SMTT(30) DEF Called, Untouched, Life, FreedQuiet
  <2>2. CASE "epilog-start" \in T
    <3>1. r.state = "CLEANUP" /\ ~ r.free_posted /\ e.name # "clean"
      BY <1>3, <2>2 DEF Life, EventsFit, FreedQuiet
    <3> QED
      BY <1>2, <1>7, <3>1, ZenonT(60), SMTT(30) DEF Moves, Called, Untouched, FatalException
  <2> QED
    BY <1>9, <2>1, <2>2, ZenonT(60), SMTT(30)
<1>15. "epilog-start" \in Names(y) => "epilog-start" \in N \/ x.perilog_active # 0
  <2>1. CASE e.name = "epilog-start"
    BY <1>2, <1>3, <2>1, ZenonT(60), SMTT(30) DEF Takes, Called, Life, EventsFit
  <2>2. CASE e.name # "epilog-start"
    BY <1>3, <1>9, <2>2, ZenonT(60), SMTT(30)
  <2> QED
    BY <2>1, <2>2, ZenonT(60), SMTT(30)
<1>16. x.alloc_queued \/ x.alloc_pending => x.state \in {"PRIORITY", "SCHED", "CLEANUP"}
  <2>1. x.alloc_queued = r.alloc_queued /\ x.alloc_pending = r.alloc_pending /\ x.state = u.state
    BY <1>2, ZenonT(60), SMTT(20) DEF Called, Untouched, SameFlags
  <2>2. r.alloc_queued \/ r.alloc_pending => r.state \in {"PRIORITY", "SCHED"} /\ e.name # "alloc"
    BY <1>3, ZenonT(60), SMTT(20) DEF Life, EventsFit
  <2>3. r.state \in {"PRIORITY", "SCHED"} /\ e.name # "alloc"
          => u.state \in {"PRIORITY", "SCHED", "CLEANUP"}
    BY <1>2, <1>7, ZenonT(60), SMTT(20) DEF Moves
  <2> QED
    BY <2>1, <2>2, <2>3, ZenonT(60), SMTT(20)
<1>17. FreedQuiet(x, Rest(y, 1))
  <2>1. /\ x.start_pending = r.start_pending /\ x.free_posted = r.free_posted
        /\ x.state = u.state /\ x.perilog_active = u.perilog_active
        /\ x.has_resources = u.has_resources
    BY <1>2, ZenonT(60), SMTT(30) DEF Called, Untouched
  <2>2. x.start_pending => x.state \in {"RUN", "CLEANUP"}
    <3>1. r.start_pending => r.state \in {"RUN", "CLEANUP"} /\ e.name # "clean"
      BY <1>3, ZenonT(60), SMTT(20) DEF Life, FreedQuiet
    <3>2. r.state \in {"RUN", "CLEANUP"} /\ e.name # "clean" => u.state \in {"RUN", "CLEANUP"}
      BY <1>2, <1>7, ZenonT(60), SMTT(20) DEF Moves
    <3> QED
      BY <2>1, <3>1, <3>2, ZenonT(60), SMTT(20)
  <2>3. "free" \in N => x.free_posted
    BY <1>3, <1>9, <1>11, <2>1, ZenonT(60), SMTT(30) DEF Life, FreedQuiet
  <2>4. x.free_posted => x.state \in Ended /\ ~ x.start_pending /\ x.perilog_active = 0
    BY <1>2, <1>3, <1>7, <2>1, ZenonT(60) DEF Moves, Takes, Life, EventsFit, FreedQuiet, Ended
  <2>5. ASSUME x.state = "CLEANUP", x.has_resources, x.free_posted
        PROVE  "free" \in N
    <3>1. r.state = "CLEANUP"
      BY <1>5, <2>1, <2>5, ZenonT(60), SMTT(30) DEF Life, FreedQuiet, Ended
    <3>2. e.name # "alloc"
      BY <1>3, <3>1, ZenonT(60), SMTT(30) DEF Life, EventsFit
    <3>3. r.has_resources /\ e.name # "free"
      BY <1>2, <2>1, <2>5, <3>2, ZenonT(60), SMTT(30) DEF Takes
    <3>4. "free" \in Names(q)
      BY <2>1, <2>5, <3>1, <3>3, ZenonT(60), SMTT(30) DEF Life, FreedQuiet
    <3> QED
      BY <1>3, <1>9, <3>3, <3>4, ZenonT(60), SMTT(30)
  <2>6. "clean" \in N => x.state \in Ended /\ "epilog-start" \notin N
    BY <1>2, <1>3, <1>7, <1>9, <1>11, <1>12, <2>1, ZenonT(60) DEF Moves, Life, FreedQuiet, Ended
  <2>7. "clean" \in N \/ x.state = "INACTIVE" => "clean" \in Names(q)
    BY <1>2, <1>3, <1>5, <1>9, <1>11, <2>1, ZenonT(60), SMTT(30) DEF Moves
  <2>8. "clean" \in Names(q) => ~ x.start_pending /\ x.perilog_active = 0 /\ ~ x.has_resources
    BY <1>2, <1>3, <2>1, SMTT(20), ZenonT(60), SMTT(30) DEF Takes, Life, EventsFit, FreedQuiet, Ended
  <2> QED
    BY <2>2, <2>3, <2>4, <2>5, <2>6, <2>7, <2>8, ZenonT(60), SMTT(30) DEF FreedQuiet, N
<1> QED
  BY <1>2, <1>6, <1>9, <1>11, <1>13, <1>14, <1>15, <1>16, <1>17, ZenonT(60), SMTT(30)
     DEF Ready, N, Called, Untouched, Life, EventsFit

\* The same, seen from the job before the event.
LEMMA ProcessFollows ==
  ASSUME NEW r \in StructJob, NEW q \in Seq(Event), q # << >>, NEW go, Life(r, q, go),
         NEW u, u = event_job_update(r, Head(q)),
         NEW x, Called(u, x), NEW y, NEW P,
         P = {} \/ (u.state # r.state /\ P = PostedOn(u.state)),
         Names(y) = Names(q) \cup P
  PROVE  Follows(r, q, x, y)
<1> DEFINE e == Head(q)
<1>1. e \in Event
  BY QueueHead, ZenonT(60), SMTT(30)
<1>2. Moves(r, u, e.name) /\ Takes(r, u, e.name)
  BY <1>1, UpdateFacts, ZenonT(60), SMTT(30)
<1>3. e.name \in Names(q)
  BY NamesTail, ZenonT(60), SMTT(30)
<1> HIDE DEF e
<1>4. r.state \in Ended => u.state \in Ended
  BY <1>2, <1>3, SMTT(20), ZenonT(60), SMTT(30) DEF Moves, Life, EventsFit, Ended
<1>5. "alloc" \in Names(q) => e.name = "alloc"
  <2> HAVE "alloc" \in Names(q)
  <2>1. Len(q) = 1
    BY SMTT(20), ZenonT(60), SMTT(30) DEF Life, EventsFit
  <2>2. Names(q) = {e.name} \cup Names(Tail(q)) /\ Names(Tail(q)) = {}
    BY <2>1, NamesTail, NamesSingle DEF e
  <2> QED
    BY <2>2
<1>6. PostedOn(u.state) \subseteq {"dependency-add", "priority", "prolog-start", "epilog-start"}
  BY ZenonT(60), SMTT(30) DEF PostedOn
<1>7. x.state = u.state /\ x.has_resources = u.has_resources
  BY DEF Called
<1>8. Names(y) \subseteq Names(q) \cup {"dependency-add", "priority", "prolog-start", "epilog-start"}
  BY <1>6
<1> QED
  BY <1>2, <1>3, <1>4, <1>5, <1>7, <1>8, ZenonT(60) DEF Takes, Follows

\* A queue that something was posted to.
LEMMA AppendFacts ==
  ASSUME NEW q \in Seq(Event), NEW e \in Event
  PROVE  Append(q, e) \in Seq(Event) /\ Append(q, e) # << >>
<1>1. Append(q, e) \in Seq(Event) /\ Len(Append(q, e)) = Len(q) + 1 /\ Len(q) \in Nat
  OBVIOUS
<1>2. Len(<< >>) = 0
  OBVIOUS
<1> QED
  BY <1>1, <1>2

\* What plugins post comes behind the rest of the queue.
LEMMA PostsRest ==
  ASSUME NEW q \in Seq(Event), q # << >>, NEW name \in EventName \ {"priority", "urgency"},
         NEW n \in Nat
  PROVE  /\ Posts(q, name, n) \in Seq(Event) /\ 1 <= Len(Posts(q, name, n))
         /\ Rest(Posts(q, name, n), 1) = Posts(Tail(q), name, n)
<1> DEFINE p == [i \in 1..n |-> Ev(name)]
<1>1. p \in Seq(Event)
  BY EvType
<1>2. Posts(q, name, n) = q \o p /\ Posts(Tail(q), name, n) = Tail(q) \o p
  BY DEF Posts
<1> HIDE DEF p
<1>3. /\ q \o p \in Seq(Event) /\ Len(q \o p) = Len(q) + Len(p)
      /\ Len(q) \in Nat \ {0} /\ Len(p) \in Nat
  BY <1>1
<1>4. q \o p # << >>
  <2>1. Len(q \o p) # 0 /\ Len(<< >>) = 0
    BY <1>3
  <2> QED
    BY <2>1
<1>5. Rest(q \o p, 1) = Tail(q \o p)
  BY <1>3, <1>4, RestIs, ZenonT(60)
<1>6. Tail(q \o p) = Tail(q) \o p
  BY <1>1
<1>7. 1 <= Len(q \o p)
  BY <1>3, SMTT(20), SMTT(30), SMTT(60)
<1> QED
  BY <1>2, <1>3, <1>5, <1>6, <1>7, Zenon

\* What an action of the event machinery works on: x is the job, y the queue.
Works(j, x, y, ts, done) ==
  /\ done <= Len(y) /\ Ready(x, y, done)
  /\ Untouched(job[j], x)
  /\ Follows(job[j], event_queue[j], x, y)
  /\ Cancels(ts)
  /\ event_job_action(j, x, y, ts, done)

\* An event that is not refused leads to an action on a job that is ready for it.
LEMMA ProcessWorks ==
  ASSUME Inv, LifeInv, NEW j \in Job, Process(j),
         ~ EntryRefused(job[j], Head(event_queue[j]))
  PROVE  \E x \in StructJob, y \in Seq(Event), ts \in Seq(SchedRequest) :
           Works(j, x, y, ts, 1)
<1> DEFINE q == event_queue[j]
           r == job[j]
           e == Head(q)
           u == event_job_update(r, e)
           Goal == \E x \in StructJob, y \in Seq(Event), ts \in Seq(SchedRequest) :
                     Works(j, x, y, ts, 1)
<1> SUFFICES Goal
  BY ZenonT(60), SMTT(30)
<1>1. /\ q \in Seq(Event) /\ q # << >> /\ e \in Event /\ r \in StructJob
      /\ ~ r.hold_events /\ ~ r.eventlog_readonly /\ to_sched \in Seq(SchedRequest)
  <2>1. q \in Seq(Event) /\ r \in StructJob /\ to_sched \in Seq(SchedRequest)
    BY ZenonT(60), SMTT(30) DEF Inv, TypeOK
  <2>2. q # << >> /\ ~ r.hold_events /\ ~ r.eventlog_readonly
    BY ZenonT(60), SMTT(30) DEF Process, Busy
  <2> HIDE DEF q, r
  <2>3. e \in Event
    BY <2>1, <2>2, QueueHead, ZenonT(60), SMTT(30)
  <2> QED
    BY <2>1, <2>2, <2>3, ZenonT(60), SMTT(30)
<1>2. Life(r, q, start)
  BY ZenonT(60), SMTT(30) DEF LifeInv, Life
<1>3. u \in StructJob
  BY <1>1, UpdateType, ZenonT(60), SMTT(30) DEF EntryRefused
<1>4. Untouched(r, u)
  BY <1>1, UpdateFacts, ZenonT(60), SMTT(30)
<1>5. IF u.state # r.state THEN JobtapCall(j, u, q, 1)
                           ELSE event_job_action(j, u, q, to_sched, 1)
  BY ZenonT(60), SMTT(30) DEF Process
<1>6. Names(Tail(q)) \subseteq Names(q) /\ Tail(q) \in Seq(Event) /\ 1 <= Len(q)
  BY <1>1, NamesTail
<1> HIDE DEF Goal
<1>7. ASSUME NEW x \in StructJob, Called(u, x), NEW y \in Seq(Event), 1 <= Len(y),
             NEW ts \in Seq(SchedRequest), Cancels(ts), NEW P,
             P = {} \/ (u.state # r.state /\ P = PostedOn(u.state)),
             Names(y) = Names(q) \cup P, Names(Rest(y, 1)) = Names(Tail(q)) \cup P,
             event_job_action(j, x, y, ts, 1)
      PROVE  Goal
  <2>1. Ready(x, y, 1)
    <3> HIDE DEF u, q, r
    <3> QED
      BY <1>1, <1>2, <1>7, ProcessReady, ZenonT(60) DEF u
  <2>2. Untouched(r, x)
    BY <1>4, <1>7, ZenonT(60) DEF Called, Untouched, SameFlags
  <2>3. Follows(r, q, x, y)
    BY <1>1, <1>2, <1>7, ProcessFollows, ZenonT(60) DEF u
  <2>4. Works(j, x, y, ts, 1)
    <3>1. r = job[j] /\ q = event_queue[j]
      BY ZenonT(60), SMTT(30)
    <3> HIDE DEF u, e, q, r
    <3> QED
      BY <1>7, <2>1, <2>2, <2>3, <3>1, ZenonT(60) DEF Works
  <2> QED
    BY <2>4 DEF Goal
<1>8. Called(u, u) /\ Cancels(to_sched)
  BY SMTT(20), ZenonT(60), SMTT(30) DEF Called, Untouched, SameFlags, Cancels, Send
<1> HIDE DEF q, r, e, u
<1>9. CASE event_job_action(j, u, q, to_sched, 1)
  <2>1. Names(q) = Names(q) \cup {} /\ Names(Rest(q, 1)) = Names(Tail(q)) \cup {}
    BY <1>1, RestIs, ZenonT(60)
  <2> QED
    BY <1>1, <1>3, <1>6, <1>7, <1>8, <1>9, <2>1, ZenonT(60)
<1>10. ASSUME NEW n \in Nat, NEW name \in EventName \ {"priority", "urgency"},
              u.state # r.state, PostedOn(u.state) = {name},
              event_job_action(j, u, Posts(q, name, n), to_sched, 1)
       PROVE  Goal
  <2> DEFINE P == IF n = 0 THEN {} ELSE {name}
             y == Posts(q, name, n)
  <2>1. Names(y) = Names(q) \cup P
    BY <1>1, NamesPosts, SMTT(20), ZenonT(60), SMTT(30)
  <2>2. /\ y \in Seq(Event) /\ 1 <= Len(y)
        /\ Rest(y, 1) = Posts(Tail(q), name, n)
    BY <1>1, PostsRest
  <2>3. Names(Posts(Tail(q), name, n)) = Names(Tail(q)) \cup P
    BY <1>6, NamesPosts, ZenonT(60)
  <2>4. P = {} \/ (u.state # r.state /\ P = PostedOn(u.state))
    BY <1>10, ZenonT(60), SMTT(30)
  <2> HIDE DEF P, y
  <2>5. event_job_action(j, u, y, to_sched, 1)
    BY <1>10 DEF y
  <2> QED
    BY <1>1, <1>3, <1>7, <1>8, <2>1, <2>2, <2>3, <2>4, <2>5, ZenonT(60)
<1>11. ASSUME u.state # r.state, u.state = "PRIORITY", NEW p \in PluginPriority,
              LET r1 == [u EXCEPT !.priority = Prioritized(u, p)]
              IN event_job_action(j, r1, Append(q, PriorityEvent(r1)),
                                  Send(to_sched, "cancel", CancelledBy(j, r1)), 1)
       PROVE  Goal
  <2> DEFINE x == [u EXCEPT !.priority = Prioritized(u, p)]
             ts == Send(to_sched, "cancel", CancelledBy(j, x))
             y == Append(q, PriorityEvent(x))
  <2>1. x \in StructJob /\ PriorityEvent(x) \in Event
    BY <1>3, PrioritizedType
  <2>2. Called(u, x)
    BY <1>3 DEF Called, Untouched, SameFlags, StructJob
  <2>3. PriorityEvent(x).name = "priority"
    BY DEF PriorityEvent
  <2>4. event_job_action(j, x, y, ts, 1)
    BY <1>11
  <2> HIDE DEF x
  <2>5. ts \in Seq(SchedRequest) /\ Cancels(ts)
    <3>1. CancelledBy(j, x) \in SUBSET sent
      BY <1>4, <2>2 DEF CancelledBy, Outranked, Called, Untouched, SameFlags, Inv, QueueFlags, r
    <3> QED
      BY <1>1, <3>1, CancelledByType, SendType, ZenonT(60), SMTT(30) DEF Inv, Cancels
  <2>6. y \in Seq(Event) /\ 1 <= Len(y)
    BY <1>1, <2>1
  <2>7. Names(y) = Names(q) \cup {"priority"}
    BY <1>1, <2>1, <2>3, NamesAppend, ZenonT(60), SMTT(30)
  <2>8. Rest(y, 1) = Append(Tail(q), PriorityEvent(x))
    BY <1>1, <1>6, <2>1, RestAppend, RestIs, ZenonT(60), SMTT(30)
  <2>9. Names(Rest(y, 1)) = Names(Tail(q)) \cup {"priority"}
    BY <1>6, <2>1, <2>3, <2>8, NamesAppend, ZenonT(60)
  <2>10. PostedOn(u.state) = {"priority"}
    BY <1>11 DEF PostedOn
  <2> HIDE DEF y, ts
  <2> QED
    BY <1>7, <1>11, <2>1, <2>2, <2>4, <2>5, <2>6, <2>7, <2>9, <2>10, ZenonT(60)
<1>12. CASE u.state # r.state /\ JobtapCall(j, u, q, 1)
  <2>1. CASE u.state = "DEPEND" /\ \E n \in DependCount :
               event_job_action(j, u, Posts(q, "dependency-add", n), to_sched, 1)
    BY <1>10, <1>12, <2>1, PluginAssumption DEF PostedOn, EventName
  <2>2. CASE u.state = "PRIORITY" /\ \E p \in PluginPriority :
               LET r1 == [u EXCEPT !.priority = Prioritized(u, p)]
               IN event_job_action(j, r1, Append(q, PriorityEvent(r1)),
                                   Send(to_sched, "cancel", CancelledBy(j, r1)), 1)
    BY <1>11, <1>12, <2>2
  <2>3. CASE u.state = "RUN" /\ \E n \in PerilogCount :
               event_job_action(j, u, Posts(q, "prolog-start", n), to_sched, 1)
    BY <1>10, <1>12, <2>3, PluginAssumption, ZenonT(60), SMTT(30) DEF PostedOn, EventName
  <2>4. CASE u.state = "CLEANUP" /\ \E n \in PerilogCount :
               event_job_action(j, u, Posts(q, "epilog-start", n), to_sched, 1)
    BY <1>10, <1>12, <2>4, PluginAssumption DEF PostedOn, EventName
  <2> QED
    BY <1>9, <1>12, <2>1, <2>2, <2>3, <2>4, ZenonT(60), SMTT(30) DEF JobtapCall
<1> QED
  BY <1>5, <1>9, <1>12

=============================================================================
