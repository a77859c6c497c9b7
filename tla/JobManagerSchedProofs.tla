----------------------- MODULE JobManagerSchedProofs -----------------------
EXTENDS JobManagerLifeProofs

(***************************************************************************)
(* The scheduler protocol of alloc.c, for every set of jobs, plugins and   *)
(* limits.                                                                 *)
(*                                                                         *)
(* SchedInv follows an alloc request on its way: in to_sched, in the       *)
(* scheduler's queue, with a scheduler that commits R, in from_sched.  It  *)
(* is in one place at a time, and as long as the interface is up the job   *)
(* manager knows of it, or the job has ended.  Service says that a         *)
(* scheduler which is not ready has none.                                  *)
(***************************************************************************)

-----------------------------------------------------------------------------
(* Channels *)

\* A message of M is in s, and no two of them are.
Holds(s, M) == \E i \in 1..Len(s) : s[i] \in M
AtMostOnce(s, M) == \A i, k \in 1..Len(s) : s[i] \in M /\ s[k] \in M => i = k

\* us is ts with messages behind it whose types are in T.
Extends(ts, us, T) ==
  /\ us \in Seq(SchedRequest)
  /\ Len(ts) <= Len(us)
  /\ \A i \in 1..Len(ts) : us[i] = ts[i]
  /\ \A i \in 1..Len(us) : i > Len(ts) => us[i].type \in T

\* The requests and the responses of job k.
RequestsFor(type, k) == {m \in SchedRequest : m.type = type /\ k \in m.ids}
AnswersFor(k) == {m \in SchedResponse : m.id = k}

\* What is in a channel after a message has been appended to it.
LEMMA AppendHolds ==
  ASSUME NEW S, NEW s \in Seq(S), NEW m \in S, NEW M
  PROVE  /\ Holds(Append(s, m), M) <=> Holds(s, M) \/ m \in M
         /\ AtMostOnce(s, M) /\ (m \in M => ~ Holds(s, M)) => AtMostOnce(Append(s, m), M)
<1> DEFINE t == Append(s, m)
<1>1. /\ Len(s) \in Nat /\ Len(t) = Len(s) + 1 /\ t[Len(t)] = m
      /\ \A i \in 1..Len(s) : t[i] = s[i]
  OBVIOUS
<1> HIDE DEF t
<1>2. /\ \A i \in 1..Len(t) : i \in 1..Len(s) \/ i = Len(t)
      /\ \A i \in 1..Len(s) : i \in 1..Len(t)
      /\ Len(t) \in 1..Len(t)
  BY <1>1
<1>3. Holds(t, M) <=> Holds(s, M) \/ m \in M
  BY <1>1, <1>2 DEF Holds
<1>4. AtMostOnce(s, M) /\ (m \in M => ~ Holds(s, M)) => AtMostOnce(t, M)
  BY <1>1, <1>2 DEF Holds, AtMostOnce
<1> QED
  BY <1>3, <1>4 DEF t

\* What is in a channel after the message at its head has been taken.
LEMMA TailHolds ==
  ASSUME NEW S, NEW s \in Seq(S), s # << >>, NEW M
  PROVE  /\ Holds(s, M) <=> Head(s) \in M \/ Holds(Tail(s), M)
         /\ AtMostOnce(s, M) => AtMostOnce(Tail(s), M)
         /\ AtMostOnce(s, M) /\ Head(s) \in M => ~ Holds(Tail(s), M)
<1> DEFINE t == Tail(s)
<1>1. /\ Len(s) \in Nat \ {0} /\ Len(t) = Len(s) - 1 /\ Head(s) = s[1]
      /\ \A i \in 1..Len(t) : t[i] = s[i + 1]
  OBVIOUS
<1> HIDE DEF t
<1>2. /\ \A i \in 1..Len(t) : i + 1 \in 1..Len(s)
      /\ \A i \in 1..Len(s) : i = 1 \/ (i - 1 \in 1..Len(t) /\ s[i] = t[i - 1])
      /\ 1 \in 1..Len(s)
  BY <1>1
<1>3. Holds(s, M) <=> Head(s) \in M \/ Holds(t, M)
  BY <1>1, <1>2, SMTT(20), ZenonT(60), SMTT(30) DEF Holds
<1>4. AtMostOnce(s, M) => AtMostOnce(t, M)
  <2> SUFFICES ASSUME AtMostOnce(s, M), NEW i \in 1..Len(t), NEW k \in 1..Len(t),
                      t[i] \in M, t[k] \in M
               PROVE  i = k
    BY DEF AtMostOnce
  <2>1. i + 1 = k + 1
    BY <1>1, <1>2 DEF AtMostOnce
  <2> QED
    BY <2>1
<1>5. AtMostOnce(s, M) /\ Head(s) \in M => ~ Holds(t, M)
  <2> SUFFICES ASSUME AtMostOnce(s, M), s[1] \in M, NEW i \in 1..Len(t), t[i] \in M
               PROVE  FALSE
    BY <1>1 DEF Holds
  <2>1. i + 1 = 1
    BY <1>1, <1>2 DEF AtMostOnce
  <2> QED
    BY <2>1
<1> QED
  BY <1>3, <1>4, <1>5, SMTT(20), ZenonT(60), SMTT(30) DEF t

\* A channel in which the message at the head is replaced.
LEMMA HeadHolds ==
  ASSUME NEW S, NEW s \in Seq(S), s # << >>, NEW m \in S, NEW M
  PROVE  /\ Holds([s EXCEPT ![1] = m], M) <=> m \in M \/ Holds(Tail(s), M)
         /\ AtMostOnce(s, M) /\ (m \in M => Head(s) \in M)
              => AtMostOnce([s EXCEPT ![1] = m], M)
<1> DEFINE t == [s EXCEPT ![1] = m]
<1>1. /\ Len(t) = Len(s) /\ Len(s) \in Nat \ {0} /\ Head(s) = s[1]
      /\ \A i \in 1..Len(s) : i # 1 => t[i] = s[i]
      /\ t[1] = m
  OBVIOUS
<1>2. Holds(t, M) <=> m \in M \/ Holds(Tail(s), M)
  <2>1. Len(Tail(s)) = Len(s) - 1 /\ \A i \in 1..Len(Tail(s)) : Tail(s)[i] = s[i + 1]
    OBVIOUS
  <2> HIDE DEF t
  <2>2. ASSUME NEW i \in 1..Len(Tail(s))
        PROVE  i + 1 \in 1..Len(t) /\ Tail(s)[i] = t[i + 1]
    BY <1>1, <2>1
  <2>3. ASSUME NEW i \in 1..Len(t), i # 1
        PROVE  i - 1 \in 1..Len(Tail(s)) /\ t[i] = Tail(s)[i - 1]
    <3>1. i - 1 \in 1..Len(Tail(s)) /\ i - 1 + 1 = i
      BY <1>1, <2>1, <2>3, SMTT(20), ZenonT(60), SMTT(30)
    <3> QED
      BY <1>1, <2>1, <2>3, <3>1, SMTT(20), ZenonT(60), SMTT(30)
  <2>4. 1 \in 1..Len(t)
    BY <1>1
  <2>5. ASSUME Holds(Tail(s), M) PROVE Holds(t, M)
    <3>1. PICK i \in 1..Len(Tail(s)) : Tail(s)[i] \in M
      BY <2>5 DEF Holds
    <3> QED
      BY <2>2, <3>1, SMTT(20), ZenonT(60), SMTT(30) DEF Holds
  <2>6. ASSUME Holds(t, M), m \notin M PROVE Holds(Tail(s), M)
    <3>1. PICK i \in 1..Len(t) : t[i] \in M
      BY <2>6 DEF Holds
    <3>2. i # 1
      BY <1>1, <2>6, <3>1, SMTT(20), ZenonT(60), SMTT(30)
    <3>3. i - 1 \in 1..Len(Tail(s)) /\ Tail(s)[i - 1] \in M
      BY <2>3, <3>1, <3>2, SMTT(20), ZenonT(60), SMTT(30)
    <3> QED
      BY <3>3, Zenon DEF Holds
  <2>7. m \in M => Holds(t, M)
    BY <1>1, <2>4 DEF Holds
  <2> QED
    BY <2>5, <2>6, <2>7, SMTT(20), ZenonT(60), SMTT(30)
<1> HIDE DEF t
<1>3. AtMostOnce(s, M) /\ (m \in M => Head(s) \in M) => AtMostOnce(t, M)
  BY <1>1, SMTT(20), ZenonT(60), SMTT(30) DEF AtMostOnce
<1> QED
  BY <1>2, <1>3 DEF t

\* What is in a channel that was extended.
LEMMA ExtendsHolds ==
  ASSUME NEW ts \in Seq(SchedRequest), NEW us, NEW T, Extends(ts, us, T),
         NEW type, type \notin T, NEW k
  PROVE  /\ Holds(us, RequestsFor(type, k)) <=> Holds(ts, RequestsFor(type, k))
         /\ AtMostOnce(ts, RequestsFor(type, k)) => AtMostOnce(us, RequestsFor(type, k))
<1> DEFINE M == RequestsFor(type, k)
<1>1. /\ Len(ts) \in Nat /\ Len(us) \in Nat /\ Len(ts) <= Len(us)
      /\ \A i \in 1..Len(ts) : us[i] = ts[i]
      /\ \A i \in 1..Len(us) : i > Len(ts) => us[i].type \in T
  BY DEF Extends
<1>2. \A i \in 1..Len(us) : us[i] \in M => i \in 1..Len(ts) /\ ts[i] \in M
  BY <1>1 DEF RequestsFor
<1>3. \A i \in 1..Len(ts) : i \in 1..Len(us)
  BY <1>1, SMTT(20), ZenonT(60), SMTT(30)
<1> HIDE DEF M
<1> QED
  BY <1>1, <1>2, <1>3, SMTT(20), ZenonT(60), SMTT(30) DEF Holds, AtMostOnce, M

\* Messages of other types may follow.
LEMMA ExtendsMore ==
  ASSUME NEW ts, NEW us, NEW T, Extends(ts, us, T), NEW U, T \subseteq U
  PROVE  Extends(ts, us, U)
  BY DEF Extends

\* What is sent first goes behind what is already there.
LEMMA ExtendsSelf ==
  ASSUME NEW ts \in Seq(SchedRequest), NEW T
  PROVE  Extends(ts, ts, T)
  BY DEF Extends

\* A message that is sent goes behind the others.
LEMMA ExtendsSend ==
  ASSUME NEW ts \in Seq(SchedRequest), NEW us, NEW T, Extends(ts, us, T),
         NEW type \in T \cap {"alloc", "cancel", "free"}, NEW J \in SUBSET Job
  PROVE  Extends(ts, Send(us, type, J), T)
<1> DEFINE m == [type |-> type, ids |-> J]
           vs == Append(us, m)
<1>1. m \in SchedRequest /\ m.type \in T
  BY DEF SchedRequest
<1>2. us \in Seq(SchedRequest) /\ Len(ts) \in Nat /\ Len(us) \in Nat /\ Len(ts) <= Len(us)
  BY DEF Extends
<1> HIDE DEF m
<1>3. /\ vs \in Seq(SchedRequest) /\ Len(vs) = Len(us) + 1 /\ vs[Len(vs)] = m
      /\ \A i \in 1..Len(us) : vs[i] = us[i]
  BY <1>1, <1>2, SMTT(20), ZenonT(60), SMTT(30)
<1> HIDE DEF vs
<1>4. \A i \in 1..Len(vs) : i \in 1..Len(us) \/ i = Len(vs)
  BY <1>2, <1>3, SMTT(20), ZenonT(60), SMTT(30)
<1>5. \A i \in 1..Len(ts) : i \in 1..Len(us)
  BY <1>2
<1>6. \A i \in 1..Len(vs) : i > Len(ts) => vs[i].type \in T
  BY <1>1, <1>3, <1>4, SMTT(20), ZenonT(60), SMTT(30) DEF Extends
<1>7. \A i \in 1..Len(ts) : vs[i] = ts[i]
  BY <1>3, <1>5, SMTT(20), ZenonT(60), SMTT(30) DEF Extends
<1>8. Extends(ts, vs, T)
  BY <1>2, <1>3, <1>6, <1>7, SMTT(20), ZenonT(60), SMTT(30) DEF Extends
<1> QED
  BY <1>8, SMTT(20), ZenonT(60), SMTT(30) DEF Send, vs, m

-----------------------------------------------------------------------------
(* What event_job_action sends *)

\* us is to_sched with cancel requests behind it, for jobs that wait for an answer.
Cancelled(us) == Extends(to_sched, us, {"cancel"}) /\ (sent = {} => us = to_sched)

\* One more of them.
LEMMA CancelMore ==
  ASSUME TypeOK, NEW us, Cancelled(us), NEW J \in SUBSET sent
  PROVE  Cancelled(Send(us, "cancel", J))
<1>1. to_sched \in Seq(SchedRequest) /\ J \in SUBSET Job
  BY DEF TypeOK
<1>2. Extends(to_sched, Send(us, "cancel", J), {"cancel"})
  BY <1>1, ExtendsSend, SMTT(20), ZenonT(60), SMTT(30) DEF Cancelled
<1>3. sent = {} => Send(us, "cancel", J) = us
  BY DEF Send
<1> QED
  BY <1>2, <1>3, SMTT(20), ZenonT(60), SMTT(30) DEF Cancelled

\* The free request that the action of CLEANUP sends for job j.
FreeSent(x, y) == x.state = "CLEANUP" /\ Frees(x, y) /\ ~ Housekeeping /\ online

\* An action sends cancel requests, then at most a free request.
LEMMA WorksSends ==
  ASSUME Inv, NEW j \in Job, NEW x \in StructJob, NEW y, NEW ts, NEW done,
         Works(j, x, y, ts, done)
  PROVE  \E us : /\ Cancelled(us)
                 /\ to_sched' = IF FreeSent(x, y) THEN Send(us, "free", {j}) ELSE us
<1> DEFINE Goal == \E us : /\ Cancelled(us)
                           /\ to_sched' = IF FreeSent(x, y) THEN Send(us, "free", {j}) ELSE us
<1> SUFFICES Goal
  OBVIOUS
<1>1. TypeOK /\ event_job_action(j, x, y, ts, done)
  BY DEF Inv, Works
<1>2. Cancelled(ts)
  <2>1. Cancelled(to_sched)
    BY <1>1, ExtendsSelf, SMTT(20), ZenonT(60), SMTT(30) DEF TypeOK, Cancelled
  <2> QED
    BY <1>1, <2>1, CancelMore, SMTT(20), ZenonT(60), SMTT(30) DEF Works, Cancels
<1>3. x.alloc_pending => {j} \in SUBSET sent
  BY ZenonT(60), SMTT(20) DEF Works, Untouched, SameFlags, Inv, QueueFlags
<1>4. Cancelled(IF x.alloc_pending THEN Send(ts, "cancel", {j}) ELSE ts)
  BY <1>1, <1>2, <1>3, CancelMore, SMTT(20), ZenonT(60), SMTT(30)
<1>5. ASSUME x.state # "CLEANUP", Cancelled(to_sched') PROVE Goal
  BY <1>5 DEF FreeSent
<1> HIDE DEF Goal
<1>6. CASE ActionPriority(j, x, y, ts, done)
  BY <1>4, <1>5, <1>6, SMTT(20), ZenonT(60), SMTT(30) DEF ActionPriority
<1>7. CASE ActionSched(j, x, y, ts, done)
  <2>1. \A jb, q : Outranked(jb, q, sent) \in SUBSET sent
    BY DEF Outranked
  <2> QED
    BY <1>1, <1>2, <1>5, <1>7, <2>1, CancelMore, ZenonT(60), SMTT(30) DEF ActionSched
<1>8. CASE ActionCleanup(j, x, y, ts, done)
  <2> DEFINE us == IF x.alloc_pending THEN Send(ts, "cancel", {j}) ELSE ts
  <2>1. x.state = "CLEANUP"
    BY <1>8 DEF ActionCleanup
  <2>2. to_sched' = IF Frees(x, y) /\ ~ Housekeeping
                      THEN alloc_send_free_request(us, j)
                      ELSE us
    BY <1>8, Zenon DEF ActionCleanup, Frees
  <2> HIDE DEF us
  <2>3. to_sched' = IF FreeSent(x, y) THEN Send(us, "free", {j}) ELSE us
    BY <2>1, <2>2, SMTT(20), ZenonT(60), SMTT(30) DEF FreeSent, alloc_send_free_request
  <2> QED
    BY <1>4, <2>3, SMTT(20), ZenonT(60), SMTT(30) DEF us, Goal
<1>9. CASE ActionDepend(j, x, y, ts, done) \/ ActionRun(j, x, y, ts, done)
           \/ ActionInactive(j, x, y, ts, done)
  BY <1>2, <1>5, <1>9, SMTT(20), ZenonT(60), SMTT(30) DEF ActionDepend, ActionRun, ActionInactive
<1> QED
  BY <1>1, <1>6, <1>7, <1>8, <1>9, ZenonT(60) DEF event_job_action, Goal

\* It leaves the job in its state, and a job leaves alloc->sent in CLEANUP only.
LEMMA WorksSent ==
  ASSUME TypeOK, NEW j \in Job, NEW x \in StructJob, NEW y, NEW ts, NEW done,
         event_job_action(j, x, y, ts, done)
  PROVE  /\ job'[j].state = x.state
         /\ sent' = sent \/ (sent' = sent \ {j} /\ x.state = "CLEANUP")
<1> USE DEF TypeOK, StructJob
<1>1. CASE ActionDepend(j, x, y, ts, done)
  BY <1>1, SMTT(20), ZenonT(60), SMTT(30) DEF ActionDepend
<1>2. CASE ActionPriority(j, x, y, ts, done)
  BY <1>2, SMTT(20), ZenonT(60), SMTT(30) DEF ActionPriority
<1>3. CASE ActionSched(j, x, y, ts, done)
  BY <1>3, SMTT(20), ZenonT(60), SMTT(30) DEF ActionSched
<1>4. CASE ActionRun(j, x, y, ts, done)
  BY <1>4, SMTT(20), ZenonT(60), SMTT(30) DEF ActionRun
<1>5. CASE ActionCleanup(j, x, y, ts, done)
  BY <1>5, SMTT(20), ZenonT(60), SMTT(30) DEF ActionCleanup
<1>6. CASE ActionInactive(j, x, y, ts, done)
  BY <1>6, ZenonT(60), SMTT(30) DEF ActionInactive
<1> QED
  BY <1>1, <1>2, <1>3, <1>4, <1>5, <1>6, ZenonT(60) DEF event_job_action

-----------------------------------------------------------------------------
(* One alloc request for a job *)

\* Where an alloc request of job k can be: on its way to the scheduler, in its
\* queue, with R being committed, or being answered.
Requested(k, ts, fs, sq, sc) ==
  \/ Holds(ts, RequestsFor("alloc", k)) \/ Holds(fs, AnswersFor(k))
  \/ k \in sq \/ k \in sc

\* There is one of them, in one place.
Single(k, ts, fs, sq, sc) ==
  /\ AtMostOnce(ts, RequestsFor("alloc", k)) /\ AtMostOnce(fs, AnswersFor(k))
  /\ Holds(ts, RequestsFor("alloc", k)) =>
       ~ Holds(fs, AnswersFor(k)) /\ k \notin sq /\ k \notin sc
  /\ Holds(fs, AnswersFor(k)) => k \notin sq /\ k \notin sc
  /\ k \in sq => k \notin sc

\* The job manager waits for an answer while there is a request, as long as it
\* has not cancelled it on the way to CLEANUP or given the scheduler up.
Awaited(k, ts, fs, sq, sc) ==
  /\ k \in sent => Requested(k, ts, fs, sq, sc)
  /\ online /\ Requested(k, ts, fs, sq, sc) => k \in sent \/ job[k].state \in Ended

\* A scheduler that is not ready has no requests and gets none.
Service ==
  /\ sched # "ready" => /\ ~ online /\ to_sched = << >> /\ from_sched = << >>
                        /\ sched_queue = {} /\ sched_commit = {}
  /\ ~ online => sent = {}

SchedInv ==
  /\ Service
  /\ \A k \in Job : /\ Single(k, to_sched, from_sched, sched_queue, sched_commit)
                    /\ Awaited(k, to_sched, from_sched, sched_queue, sched_commit)

\* What SchedInv says of the next state.
LEMMA SchedNext ==
  ASSUME Service',
         \A k \in Job :
           /\ Single(k, to_sched', from_sched', sched_queue', sched_commit')
           /\ LET R == Requested(k, to_sched', from_sched', sched_queue', sched_commit')
              IN /\ k \in sent' => R
                 /\ online' /\ R => k \in sent' \/ job'[k].state \in Ended
  PROVE  SchedInv'
  BY SMTT(20), ZenonT(60), SMTT(30) DEF SchedInv, Single, Awaited, Requested, Holds, AtMostOnce,
     RequestsFor, AnswersFor, Ended, SchedRequest, SchedResponse

\* A step of the job manager that sends at most cancel and free requests.
Undisturbed ==
  /\ UNCHANGED <<from_sched, sched_queue, sched_commit, sched, online>>
  /\ Extends(to_sched, to_sched', {"cancel", "free"})
  /\ ~ online => to_sched' = to_sched
  /\ \A k \in Job : /\ job[k].state \in Ended => job'[k].state \in Ended
                    /\ k \in sent => k \in sent' \/ job'[k].state \in Ended
  /\ sent' \subseteq sent

\* It keeps SchedInv.
LEMMA UndisturbedSched ==
  ASSUME TypeOK, SchedInv, Undisturbed
  PROVE  SchedInv'
<1> DEFINE M(k) == RequestsFor("alloc", k)
<1>1. ASSUME NEW k \in Job
      PROVE  /\ Holds(to_sched', M(k)) <=> Holds(to_sched, M(k))
             /\ AtMostOnce(to_sched, M(k)) => AtMostOnce(to_sched', M(k))
  <2>1. /\ to_sched \in Seq(SchedRequest) /\ Extends(to_sched, to_sched', {"cancel", "free"})
        /\ "alloc" \notin {"cancel", "free"}
    BY DEF TypeOK, Undisturbed
  <2> QED
    BY <2>1, ExtendsHolds, ZenonT(60)
<1> HIDE DEF M
<1>2. /\ UNCHANGED <<from_sched, sched_queue, sched_commit, sched, online>>
      /\ sent' \subseteq sent /\ (~ online => to_sched' = to_sched)
  BY DEF Undisturbed
<1>3. Service'
  BY <1>2, SMTT(20), ZenonT(60), SMTT(30) DEF SchedInv, Service
<1>4. ASSUME NEW k \in Job
      PROVE  /\ Single(k, to_sched', from_sched', sched_queue', sched_commit')
             /\ Requested(k, to_sched', from_sched', sched_queue', sched_commit')
                  <=> Requested(k, to_sched, from_sched, sched_queue, sched_commit)
  BY <1>1, <1>2, ZenonT(60), SMTT(30) DEF SchedInv, Single, Requested, M
<1>5. ASSUME NEW k \in Job
      PROVE  LET R == Requested(k, to_sched', from_sched', sched_queue', sched_commit')
             IN /\ k \in sent' => R
                /\ online' /\ R => k \in sent' \/ job'[k].state \in Ended
  BY <1>2, <1>4, SMTT(20), ZenonT(60), SMTT(30) DEF SchedInv, Awaited, Undisturbed
<1> QED
  BY <1>3, <1>4, <1>5, SchedNext, SMTT(20), ZenonT(60), SMTT(30)

\* The event machinery takes such steps.
LEMMA MachineSched ==
  ASSUME Inv, LifeInv, SchedInv, NEW j \in Job, Process(j) \/ Act(j)
  PROVE  Undisturbed
<1>1. /\ UNCHANGED <<from_sched, sched_queue, sched_commit, sched, online>>
      /\ TypeOK /\ to_sched \in Seq(SchedRequest) /\ (~ online => sent = {})
  BY DEF Process, Act, scheduler, Inv, TypeOK, SchedInv, Service
<1>2. ASSUME NEW x \in StructJob, NEW y, NEW ts, NEW done, Works(j, x, y, ts, done)
      PROVE  Undisturbed
  <2>1. event_job_action(j, x, y, ts, done) /\ (job[j].state \in Ended => x.state \in Ended)
    BY <1>2, SMTT(20), ZenonT(60), SMTT(30) DEF Works, Follows
  <2>2. PICK us : /\ Cancelled(us)
                  /\ to_sched' = IF FreeSent(x, y) THEN Send(us, "free", {j}) ELSE us
    BY <1>2, WorksSends, SMTT(20), ZenonT(60), SMTT(30)
  <2>3. Extends(to_sched, us, {"cancel", "free"})
    BY <2>2, ExtendsMore, ZenonT(60), SMTT(30) DEF Cancelled
  <2>4. Extends(to_sched, Send(us, "free", {j}), {"cancel", "free"})
    BY <1>1, <2>3, ExtendsSend, SMTT(20), ZenonT(60), SMTT(30)
  <2>5. ~ online => to_sched' = to_sched
    BY <1>1, <2>2, ZenonT(60), SMTT(30) DEF FreeSent, Cancelled
  <2>6. /\ job'[j].state = x.state
        /\ sent' = sent \/ (sent' = sent \ {j} /\ x.state = "CLEANUP")
    BY <1>1, <2>1, WorksSent, ZenonT(60), SMTT(30)
  <2>7. \A k \in Job : k # j => job'[k] = job[k]
    BY <1>1, <2>1, ActionOthers, SMTT(20), ZenonT(60), SMTT(30) DEF Skips
  <2>8. Extends(to_sched, to_sched', {"cancel", "free"})
    BY <2>2, <2>3, <2>4, ZenonT(60), SMTT(30)
  <2> QED
    BY <1>1, <2>1, <2>5, <2>6, <2>7, <2>8, ZenonT(60), SMTT(30) DEF Undisturbed, Ended
<1>3. CASE Act(j)
  BY <1>2, <1>3, ActWorks, ZenonT(60), SMTT(30) DEF Inv, TypeOK
<1>4. CASE Process(j) /\ ~ EntryRefused(job[j], Head(event_queue[j]))
  BY <1>2, <1>4, ProcessWorks, SMTT(20), ZenonT(60), SMTT(30)
<1>5. CASE Process(j) /\ EntryRefused(job[j], Head(event_queue[j]))
  <2>1. UNCHANGED <<job, sent, to_sched>>
    BY <1>5, SMTT(20), ZenonT(60), SMTT(30) DEF Process
  <2> QED
    BY <1>1, <2>1, ExtendsSelf, ZenonT(60), SMTT(30) DEF Undisturbed
<1> QED
  BY <1>3, <1>4, <1>5, ZenonT(60), SMTT(30)

\* So does a step that leaves the jobs' states and alloc->sent alone.
LEMMA CalmSched ==
  ASSUME SchedInv, UNCHANGED <<from_sched, sched_queue, sched_commit, sched, online, sent>>,
         Cancelled(to_sched'), \A k \in Job : job'[k].state = job[k].state
  PROVE  Undisturbed
<1>1. Extends(to_sched, to_sched', {"cancel", "free"})
  BY ExtendsMore, SMTT(20), ZenonT(60), SMTT(30) DEF Cancelled
<1>2. ~ online => to_sched' = to_sched
  BY DEF SchedInv, Service, Cancelled
<1> QED
  BY <1>1, <1>2, SMTT(20), ZenonT(60), SMTT(30) DEF Undisturbed

\* The handlers that have no business with the scheduler.
LEMMA OtherSched ==
  ASSUME Inv, SchedInv, NEW j \in Job,
         \/ Submit(j) \/ RaiseRequest(j) \/ UrgencyRequest(j) \/ UpdateRequest(j)
         \/ SchedRaise(j) \/ ExecStart(j) \/ ExecException(j) \/ ExecAbort(j)
         \/ ExecFinish(j) \/ ExecRelease(j) \/ ExecError(j) \/ DependencyRemove(j)
         \/ PrologFinish(j) \/ EpilogFinish(j)
         \/ BatchTimeout \/ CommitDone \/ ExecHello \/ ExecUnload \/ UNCHANGED vars
  PROVE  Undisturbed
<1>1. UNCHANGED <<to_sched, from_sched, sched_queue, sched_commit, sched, online, sent>>
  <2> USE DEF channels, scheduler
  <2>1. CASE \/ Submit(j) \/ BatchTimeout \/ CommitDone \/ ExecHello \/ ExecUnload
             \/ UNCHANGED vars
    BY <2>1, ZenonT(60) DEF Submit, BatchTimeout, CommitDone, ExecHello, ExecUnload, manager, vars
  <2>2. CASE \/ RaiseRequest(j) \/ UrgencyRequest(j) \/ UpdateRequest(j) \/ DependencyRemove(j)
             \/ PrologFinish(j) \/ EpilogFinish(j) \/ SchedRaise(j)
    BY <2>2, ZenonT(60) DEF RaiseRequest, UrgencyRequest, UpdateRequest, DependencyRemove,
       PrologFinish, EpilogFinish, PostOnly, SchedRaise
  <2>3. CASE \/ ExecStart(j) \/ ExecException(j) \/ ExecAbort(j) \/ ExecFinish(j)
             \/ ExecRelease(j) \/ ExecError(j)
    BY <2>3, ZenonT(60) DEF ExecStart, ExecException, ExecAbort, ExecFinish, ExecRelease,
       ExecError, StartResponse, manager
  <2> QED
    BY <2>1, <2>2, <2>3, ZenonT(60), SMTT(30)
<1>2. Cancelled(to_sched')
  BY <1>1, ExtendsSelf, ZenonT(60), SMTT(30) DEF Inv, TypeOK, Cancelled
<1>3. ASSUME NEW k \in Job PROVE job'[k].state = job[k].state
  <2>0. job[k] \in StructJob /\ job \in [Job -> StructJob]
    BY DEF Inv, TypeOK
  <2>1. CASE Submit(j)
    <3>1. PICK u \in UserUrgency, n \in DependCount :
            job' = [job EXCEPT ![j] = [@ EXCEPT !.urgency = u,
                                                !.dependencies = n,
                                                !.hold_events = TRUE]]
      BY <2>1, ZenonT(60) DEF Submit
    <3> QED
      BY <2>0, <3>1, SMTT(20), ZenonT(60), SMTT(30) DEF StructJob
  <2>2. CASE CommitDone
    BY <2>0, <2>2, SMTT(20), ZenonT(60), SMTT(30) DEF CommitDone, StructJob
  <2>3. CASE \/ RaiseRequest(j) \/ UrgencyRequest(j) \/ UpdateRequest(j) \/ DependencyRemove(j)
             \/ PrologFinish(j) \/ EpilogFinish(j) \/ SchedRaise(j)
    BY <2>3, ZenonT(60) DEF RaiseRequest, UrgencyRequest, UpdateRequest, DependencyRemove,
       PrologFinish, EpilogFinish, PostOnly, SchedRaise
  <2>4. CASE \/ BatchTimeout \/ ExecHello \/ ExecUnload \/ ExecAbort(j) \/ UNCHANGED vars
    BY <2>4, ZenonT(60) DEF BatchTimeout, ExecHello, ExecUnload, ExecAbort, manager, vars
  <2>5. CASE ExecStart(j) \/ ExecException(j) \/ ExecFinish(j) \/ ExecRelease(j)
    <3>1. job' = job \/ job' = [job EXCEPT ![j].start_pending = FALSE]
      BY <2>5, ZenonT(60) DEF ExecStart, ExecException, ExecFinish, ExecRelease, StartResponse
    <3> QED
      BY <2>0, <3>1, SMTT(20), ZenonT(60), SMTT(30) DEF StructJob
  <2>6. CASE ExecError(j)
    BY <2>0, <2>6, ZenonT(60), SMTT(30) DEF ExecError, StructJob
  <2> QED
    BY <2>1, <2>2, <2>3, <2>4, <2>5, <2>6, ZenonT(60), SMTT(30)
<1> QED
  BY <1>1, <1>2, <1>3, CalmSched, ZenonT(60), SMTT(30)

\* The queue commands, a new priority and the end of housekeeping.
LEMMA CommandSched ==
  ASSUME Inv, SchedInv, NEW j \in Job,
         QueueStop \/ QueueStart \/ Reprioritize(j) \/ HousekeepingDone(j)
  PROVE  Undisturbed
<1>1. /\ UNCHANGED <<from_sched, sched_queue, sched_commit, sched, online, sent>>
      /\ TypeOK /\ to_sched \in Seq(SchedRequest) /\ job \in [Job -> StructJob]
  <2>1. UNCHANGED <<from_sched, sched_queue, sched_commit, sched, online, sent>>
    BY ZenonT(60) DEF QueueStop, QueueStart, Reprioritize, HousekeepingDone, scheduler
  <2> QED
    BY <2>1 DEF Inv, TypeOK
<1>2. Cancelled(to_sched)
  BY <1>1, ExtendsSelf, ZenonT(60), SMTT(30) DEF Cancelled
<1>3. CASE HousekeepingDone(j)
  <2>1. UNCHANGED job /\ to_sched' = alloc_send_free_request(to_sched, j)
    BY <1>3 DEF HousekeepingDone
  <2>2. Extends(to_sched, to_sched', {"cancel", "free"})
    BY <1>1, <2>1, ExtendsSelf, ExtendsSend, ZenonT(60), SMTT(20) DEF alloc_send_free_request
  <2>3. ~ online => to_sched' = to_sched
    BY <2>1 DEF alloc_send_free_request
  <2> QED
    BY <1>1, <2>1, <2>2, <2>3, ZenonT(60), SMTT(30) DEF Undisturbed
<1>4. CASE QueueStop
  <2> DEFINE J == {i \in active : ~ job[i].alloc_queued /\ job[i].alloc_pending}
  <2>1. J \in SUBSET sent
    BY DEF Inv, TypeOK, QueueFlags
  <2>2. to_sched' = Send(to_sched, "cancel", J)
    BY <1>4 DEF QueueStop
  <2> HIDE DEF J
  <2>3. Cancelled(to_sched')
    BY <1>1, <1>2, <2>1, <2>2, CancelMore, ZenonT(60), SMTT(30)
  <2>4. \A k \in Job : job'[k].state = job[k].state
    BY <1>1, <1>4, ZenonT(60), SMTT(30) DEF QueueStop, StructJob
  <2> QED
    BY <1>1, <2>3, <2>4, CalmSched, ZenonT(60), SMTT(30)
<1>5. CASE QueueStart
  <2>1. PICK J \in SUBSET sent : to_sched' = Send(to_sched, "cancel", J)
    BY <1>5, ZenonT(60) DEF QueueStart, Outranked
  <2>2. Cancelled(to_sched')
    BY <1>1, <1>2, <2>1, CancelMore, ZenonT(60), SMTT(30)
  <2>3. \A k \in Job : job'[k].state = job[k].state
    BY <1>1, <1>5, ZenonT(60), SMTT(30) DEF QueueStart, StructJob
  <2> QED
    BY <1>1, <2>2, <2>3, CalmSched, ZenonT(60), SMTT(30)
<1>6. CASE Reprioritize(j)
  <2>1. PICK p \in PluginPriority :
          LET r == [job[j] EXCEPT !.priority = Prioritized(job[j], p)]
          IN /\ job' = [job EXCEPT ![j] = r]
             /\ to_sched' = Send(to_sched, "cancel", CancelledBy(j, r))
    BY <1>6, ZenonT(60) DEF Reprioritize
  <2> DEFINE r == [job[j] EXCEPT !.priority = Prioritized(job[j], p)]
  <2>2. /\ job' = [job EXCEPT ![j] = r]
        /\ to_sched' = Send(to_sched, "cancel", CancelledBy(j, r))
    BY <2>1
  <2>3. r.state = job[j].state /\ (r.alloc_pending <=> j \in sent)
    BY <1>1, SMTT(20), ZenonT(60), SMTT(30) DEF StructJob, Inv, QueueFlags
  <2> HIDE DEF r
  <2>4. CancelledBy(j, r) \in SUBSET sent
    BY <2>3 DEF CancelledBy, Outranked
  <2>5. Cancelled(to_sched')
    BY <1>1, <1>2, <2>2, <2>4, CancelMore, ZenonT(60), SMTT(30)
  <2>6. \A k \in Job : job'[k].state = job[k].state
    BY <1>1, <2>2, <2>3, ZenonT(60), SMTT(30)
  <2> QED
    BY <1>1, <2>5, <2>6, CalmSched, ZenonT(60), SMTT(30)
<1> QED
  BY <1>3, <1>4, <1>5, <1>6, ZenonT(60), SMTT(30)

-----------------------------------------------------------------------------
(* Requests and answers *)

\* A job that waits for an answer is active, and in PRIORITY or SCHED.
LEMMA SentActive ==
  ASSUME Inv, LifeInv, NEW k \in sent
  PROVE  k \in Job /\ AllocPending(k) /\ job[k].state \notin Ended
  BY ZenonT(60), SMTT(30) DEF Inv, TypeOK, QueueFlags, LifeInv, Known, Fresh, EventsFit, AllocPending, Ended

\* check_cb sends a request for a job that has none.
LEMMA RequestSched ==
  ASSUME Inv, LifeInv, SchedInv, NEW j \in Job, AllocRequest(j)
  PROVE  SchedInv'
<1> DEFINE m == [type |-> "alloc", ids |-> {j}]
           Req(k) == Requested(k, to_sched, from_sched, sched_queue, sched_commit)
           Nxt(k) == Requested(k, to_sched', from_sched', sched_queue', sched_commit')
<1>1. /\ to_sched' = Append(to_sched, m) /\ m \in SchedRequest
      /\ UNCHANGED <<from_sched, sched_queue, sched_commit, sched, online>>
      /\ online /\ j \in queue /\ sent' = sent \cup {j}
  BY DEF AllocRequest, WorkAvailable, Send, scheduler, SchedRequest
<1>2. \A k \in Job : m \in RequestsFor("alloc", k) <=> k = j
  BY SMTT(20), ZenonT(60), SMTT(30) DEF RequestsFor, SchedRequest
<1> HIDE DEF m
<1>3. ASSUME NEW k \in Job
      PROVE  /\ Holds(to_sched', RequestsFor("alloc", k))
                  <=> Holds(to_sched, RequestsFor("alloc", k)) \/ k = j
             /\ AtMostOnce(to_sched, RequestsFor("alloc", k))
                /\ (k = j => ~ Holds(to_sched, RequestsFor("alloc", k)))
                  => AtMostOnce(to_sched', RequestsFor("alloc", k))
  BY <1>1, <1>2, AppendHolds, SMTT(20), SMTT(30), SMTT(60) DEF Inv, TypeOK
<1>4. \A k \in Job : job'[k].state = job[k].state
  BY ZenonT(60), SMTT(30) DEF AllocRequest, Inv, TypeOK, StructJob
<1>5. job[j].state \notin Ended /\ j \notin sent
  BY <1>1, SMTT(20), ZenonT(60), SMTT(30) DEF Inv, QueueFlags, LifeInv, EventsFit, Ended
<1>6. ~ Req(j)
  BY <1>1, <1>5, ZenonT(60), SMTT(30) DEF SchedInv, Awaited
<1>7. ASSUME NEW k \in Job
      PROVE  /\ Single(k, to_sched', from_sched', sched_queue', sched_commit')
             /\ Nxt(k) <=> Req(k) \/ k = j
  BY <1>1, <1>3, <1>6, ZenonT(60), SMTT(30) DEF SchedInv, Single, Requested
<1> HIDE DEF Req, Nxt
<1>8. ASSUME NEW k \in Job
      PROVE  /\ k \in sent' => Nxt(k)
             /\ online' /\ Nxt(k) => k \in sent' \/ job'[k].state \in Ended
  BY <1>1, <1>4, <1>7, ZenonT(60), SMTT(20) DEF SchedInv, Awaited, Req
<1>9. Service'
  BY <1>1, ZenonT(60), SMTT(30) DEF SchedInv, Service
<1> QED
  BY <1>7, <1>8, <1>9, SchedNext, ZenonT(60), SMTT(30) DEF Nxt

\* An answer is taken from its channel: nothing is left of the request.
LEMMA AnswerSched ==
  ASSUME TypeOK, SchedInv, NEW j \in Job, from_sched # << >>, Head(from_sched).id = j,
         from_sched' = Tail(from_sched), UNCHANGED <<sched_queue, sched_commit, sched>>,
         Extends(to_sched, to_sched', {"free"}),
         \A k \in Job : job'[k].state = job[k].state,
         \/ sent' = sent \ {j} /\ online' = online
         \/ sent' = {} /\ ~ online'
  PROVE  SchedInv'
<1> DEFINE Req(k) == Requested(k, to_sched, from_sched, sched_queue, sched_commit)
           Nxt(k) == Requested(k, to_sched', from_sched', sched_queue', sched_commit')
<1>1. from_sched \in Seq(SchedResponse) /\ to_sched \in Seq(SchedRequest)
  BY ZenonT(60), SMTT(30) DEF TypeOK
<1>2. \A k \in Job : Head(from_sched) \in AnswersFor(k) <=> k = j
  <2>1. Head(from_sched) \in SchedResponse
    BY <1>1
  <2> QED
    BY <2>1, SMTT(20), ZenonT(60), SMTT(30) DEF AnswersFor
<1>3. ASSUME NEW k \in Job
      PROVE  /\ AtMostOnce(from_sched', AnswersFor(k))
             /\ Holds(from_sched', AnswersFor(k)) <=> Holds(from_sched, AnswersFor(k)) /\ k # j
             /\ k = j => Holds(from_sched, AnswersFor(k))
  <2>1. AtMostOnce(from_sched, AnswersFor(k))
    BY DEF SchedInv, Single
  <2> QED
    BY <1>1, <1>2, <2>1, TailHolds, ZenonT(60), SMTT(30)
<1>4. ASSUME NEW k \in Job
      PROVE  /\ AtMostOnce(to_sched', RequestsFor("alloc", k))
             /\ Holds(to_sched', RequestsFor("alloc", k)) <=> Holds(to_sched, RequestsFor("alloc", k))
  <2>1. AtMostOnce(to_sched, RequestsFor("alloc", k))
    BY DEF SchedInv, Single
  <2>2. "alloc" \notin {"free"}
    BY ZenonT(60), SMTT(30)
  <2> QED
    BY <1>1, <2>1, <2>2, ExtendsHolds, ZenonT(60)
<1>5. ASSUME NEW k \in Job
      PROVE  /\ Single(k, to_sched', from_sched', sched_queue', sched_commit')
             /\ Nxt(k) <=> Req(k) /\ k # j
  <2>1. Single(k, to_sched, from_sched, sched_queue, sched_commit)
    BY DEF SchedInv
  <2>2. Single(k, to_sched', from_sched', sched_queue', sched_commit')
    BY <1>3, <1>4, <2>1, ZenonT(60), SMTT(20) DEF Single
  <2>3. Nxt(k) <=> Req(k) /\ k # j
    BY <1>3, <1>4, <2>1, ZenonT(60), SMTT(20) DEF Single, Requested
  <2> QED
    BY <2>2, <2>3, ZenonT(60), SMTT(30)
<1> HIDE DEF Req, Nxt
<1>6. sched = "ready" /\ (~ online => sent = {})
  BY DEF SchedInv, Service
<1>7. Service'
  <2>1. sched' = "ready"
    BY <1>6, ZenonT(60), SMTT(30)
  <2>2. ~ online' => sent' = {}
    BY <1>6, SMTT(20), SMTT(30), SMTT(60)
  <2> QED
    BY <2>1, <2>2, ZenonT(60), SMTT(30) DEF Service
<1>8. ASSUME NEW k \in Job
      PROVE  /\ k \in sent' => Nxt(k)
             /\ online' /\ Nxt(k) => k \in sent' \/ job'[k].state \in Ended
  BY <1>5, SMTT(20), ZenonT(60), SMTT(30) DEF SchedInv, Awaited, Req
<1> QED
  BY <1>5, <1>7, <1>8, SchedNext, ZenonT(60) DEF Nxt

\* interface_teardown takes every job from alloc->sent.
LEMMA TeardownSched ==
  ASSUME Inv, LifeInv, SchedInv, AllocTeardown
  PROVE  sent' = {} /\ ~ online' /\ \A k \in Job : job'[k].state = job[k].state
<1> DEFINE J == {i \in active : job[i].alloc_pending}
<1>1. \A k \in sent : k \in J
  BY SentActive, SMTT(20), ZenonT(60), SMTT(30) DEF AllocPending
<1>2. CASE online
  <2>1. RequeuePending(J) /\ ~ online'
    BY <1>2, ZenonT(60), SMTT(30) DEF AllocTeardown
  <2> HIDE DEF J
  <2>2. sent' = {}
    BY <1>1, <2>1, ZenonT(60) DEF RequeuePending
  <2>3. \A k \in Job : job'[k].state = job[k].state
    BY <2>1, ZenonT(60) DEF RequeuePending, Inv, TypeOK, StructJob
  <2> QED
    BY <2>1, <2>2, <2>3, SMTT(20), ZenonT(60), SMTT(30)
<1>3. CASE ~ online
  BY <1>3 DEF AllocTeardown, SchedInv, Service
<1> QED
  BY <1>2, <1>3, SMTT(20), ZenonT(60), SMTT(30)

\* alloc_response_cb, for every type of response.
LEMMA ResponseSched ==
  ASSUME Inv, LifeInv, SchedInv, NEW j \in Job,
         \/ AllocUnwanted(j) \/ AllocSuccess(j) \/ AllocExists(j)
         \/ AllocDeny(j) \/ AllocCancel(j) \/ AllocError(j)
  PROVE  SchedInv'
<1>1. TypeOK /\ to_sched \in Seq(SchedRequest) /\ job \in [Job -> StructJob]
  BY SMTT(20), ZenonT(60), SMTT(30) DEF Inv, TypeOK
<1>2. /\ from_sched # << >> /\ Head(from_sched).id = j /\ from_sched' = Tail(from_sched)
      /\ UNCHANGED <<sched_queue, sched_commit, sched>>
  <2>1. PICK t : Response(j, t)
    BY ZenonT(60) DEF AllocUnwanted, AllocSuccess, AllocExists, AllocDeny, AllocCancel, AllocError
  <2> QED
    BY <2>1 DEF Response, scheduler
<1>3. Extends(to_sched, to_sched', {"free"})
  <2>1. to_sched' = to_sched \/ to_sched' = Send(to_sched, "free", {j})
    BY ZenonT(60) DEF AllocUnwanted, AllocSuccess, AllocExists, AllocDeny, AllocCancel, AllocError
  <2> QED
    BY <1>1, <2>1, ExtendsSelf, ExtendsSend, ZenonT(60), SMTT(20)
<1>4. ~ AllocPending(j) => sent = sent \ {j}
  BY SentActive, ZenonT(60), SMTT(30)
<1>5. CASE AllocUnwanted(j)
  <2>1. sent' = sent \ {j} /\ UNCHANGED <<online, job>>
    BY <1>4, <1>5, ZenonT(60), SMTT(30) DEF AllocUnwanted
  <2> QED
    BY <1>1, <1>2, <1>3, <2>1, AnswerSched, ZenonT(60), SMTT(30)
<1>6. CASE AllocSuccess(j)
  <2>1. /\ sent' = sent \ {j} /\ UNCHANGED online
        /\ \A k \in Job : job'[k].state = job[k].state
    BY <1>1, <1>6 DEF AllocSuccess, StructJob
  <2> QED
    BY <1>1, <1>2, <1>3, <2>1, AnswerSched, ZenonT(60), SMTT(30)
<1>7. CASE AllocDeny(j)
  <2>1. /\ sent' = sent \ {j} /\ UNCHANGED online
        /\ job' = job \/ job' = [job EXCEPT ![j].alloc_pending = FALSE]
    <3>1. CASE AllocPending(j)
      BY <1>7, <3>1 DEF AllocDeny
    <3>2. CASE ~ AllocPending(j)
      BY <1>4, <1>7, <3>2 DEF AllocDeny
    <3> QED
      BY <3>1, <3>2
  <2>2. ASSUME NEW k \in Job PROVE job'[k].state = job[k].state
    <3>1. CASE job' = [job EXCEPT ![j].alloc_pending = FALSE]
      BY <1>1, <3>1, ZenonT(60) DEF StructJob
    <3> QED
      BY <2>1, <3>1
  <2> QED
    BY <1>1, <1>2, <1>3, <2>1, <2>2, AnswerSched, ZenonT(60), SMTT(30)
<1>8. CASE AllocCancel(j)
  <2>1. /\ sent' = sent \ {j} /\ UNCHANGED online
        /\ \/ RequeuePending({j}) \/ job' = job
           \/ job' = [job EXCEPT ![j].alloc_pending = FALSE]
    BY <1>4, <1>8, ZenonT(60), SMTT(30) DEF AllocCancel, RequeuePending
  <2>2. ASSUME NEW k \in Job PROVE job'[k].state = job[k].state
    <3>1. job[k] \in StructJob
      BY <1>1
    <3>2. CASE RequeuePending({j})
      BY <3>1, <3>2, ZenonT(60) DEF RequeuePending, StructJob
    <3>3. CASE job' = [job EXCEPT ![j].alloc_pending = FALSE]
      BY <1>1, <3>3, ZenonT(60) DEF StructJob
    <3> QED
      BY <2>1, <3>2, <3>3, ZenonT(60), SMTT(30)
  <2> QED
    BY <1>1, <1>2, <1>3, <2>1, <2>2, AnswerSched, ZenonT(60), SMTT(30)
<1>9. CASE AllocExists(j) \/ AllocError(j)
  <2>1. sent' = {} /\ ~ online' /\ \A k \in Job : job'[k].state = job[k].state
    BY <1>9, TeardownSched, ZenonT(60), SMTT(30) DEF AllocExists, AllocError
  <2> QED
    BY <1>1, <1>2, <1>3, <2>1, AnswerSched, ZenonT(60), SMTT(30)
<1> QED
  BY <1>5, <1>6, <1>7, <1>8, <1>9

-----------------------------------------------------------------------------
(* The scheduler *)

\* What is left in the channel when a request for job j has been received.
LEMMA ReceiveHolds ==
  ASSUME TypeOK, NEW j \in Job, NEW type, Receive(type, j), NEW t, NEW k \in Job
  PROVE  /\ t # type \/ k # j =>
              (Holds(to_sched', RequestsFor(t, k)) <=> Holds(to_sched, RequestsFor(t, k)))
         /\ AtMostOnce(to_sched, RequestsFor(t, k)) => AtMostOnce(to_sched', RequestsFor(t, k))
         /\ t = type /\ k = j => Holds(to_sched, RequestsFor(t, k))
         /\ t = type /\ k = j /\ AtMostOnce(to_sched, RequestsFor(t, k))
              => ~ Holds(to_sched', RequestsFor(t, k))
<1> DEFINE h == Head(to_sched)
           M == RequestsFor(t, k)
           m == [h EXCEPT !.ids = @ \ {j}]
<1>1. /\ to_sched \in Seq(SchedRequest) /\ to_sched # << >> /\ h \in SchedRequest
      /\ h.type = type /\ j \in h.ids
  BY DEF Receive, TypeOK
<1>2. /\ m \in SchedRequest /\ (h \in M <=> t = type /\ k \in h.ids)
      /\ m \in M <=> t = type /\ k \in h.ids /\ k # j
  BY <1>1, ZenonT(60), SMTT(30) DEF SchedRequest, RequestsFor
<1>3. CASE h.ids = {j}
  <2>1. to_sched' = Tail(to_sched)
    BY <1>3, ZenonT(60), SMTT(30) DEF Receive
  <2> HIDE DEF h, M, m
  <2>2. /\ Holds(to_sched, M) <=> h \in M \/ Holds(to_sched', M)
        /\ AtMostOnce(to_sched, M) => AtMostOnce(to_sched', M)
        /\ AtMostOnce(to_sched, M) /\ h \in M => ~ Holds(to_sched', M)
    BY <1>1, <2>1, TailHolds, ZenonT(60), SMTT(20), SMTT(30) DEF h
  <2> QED
    BY <1>1, <1>2, <1>3, <2>2, ZenonT(60), SMTT(30) DEF M
<1>4. CASE h.ids # {j}
  <2>1. to_sched' = [to_sched EXCEPT ![1] = m]
    <3>1. Head(to_sched) = to_sched[1]
      BY <1>1, SMTT(20), SMTT(30), SMTT(60)
    <3> QED
      BY <1>4, <3>1, Zenon DEF Receive
  <2> HIDE DEF h, M, m
  <2>2. /\ Holds(to_sched', M) <=> m \in M \/ Holds(Tail(to_sched), M)
        /\ AtMostOnce(to_sched, M) /\ (m \in M => h \in M) => AtMostOnce(to_sched', M)
    BY <1>1, <1>2, <2>1, HeadHolds, ZenonT(60), SMTT(20) DEF h
  <2>3. /\ Holds(to_sched, M) <=> h \in M \/ Holds(Tail(to_sched), M)
        /\ AtMostOnce(to_sched, M) /\ h \in M => ~ Holds(Tail(to_sched), M)
    BY <1>1, TailHolds, ZenonT(60), SMTT(30) DEF h
  <2> QED
    BY <1>1, <1>2, <2>2, <2>3, ZenonT(60), SMTT(30) DEF M
<1> QED
  BY <1>3, <1>4, ZenonT(60), SMTT(30)

\* What is in the channel when the scheduler has answered a request for job j.
LEMMA RespondHolds ==
  ASSUME TypeOK, NEW j \in Job, NEW type \in {"success", "deny", "cancel", "error"},
         Respond(type, j), NEW k \in Job
  PROVE  /\ Holds(from_sched', AnswersFor(k)) <=> Holds(from_sched, AnswersFor(k)) \/ k = j
         /\ AtMostOnce(from_sched, AnswersFor(k))
            /\ (k = j => ~ Holds(from_sched, AnswersFor(k)))
              => AtMostOnce(from_sched', AnswersFor(k))
<1> DEFINE m == [type |-> type, id |-> j]
<1>1. /\ from_sched \in Seq(SchedResponse) /\ from_sched' = Append(from_sched, m)
      /\ m \in SchedResponse /\ (m \in AnswersFor(k) <=> k = j)
  BY DEF TypeOK, Respond, SchedResponse, AnswersFor
<1> HIDE DEF m
<1> QED
  BY <1>1, AppendHolds, ZenonT(60), SMTT(30)

\* The scheduler passes requests on, but neither makes nor drops one.
LEMMA MovedSched ==
  ASSUME SchedInv, sched = "ready", UNCHANGED <<job, sent, online, sched>>,
         \A k \in Job :
           /\ Single(k, to_sched', from_sched', sched_queue', sched_commit')
           /\ Requested(k, to_sched', from_sched', sched_queue', sched_commit')
                <=> Requested(k, to_sched, from_sched, sched_queue, sched_commit)
  PROVE  SchedInv'
<1>1. Service'
  BY ZenonT(60), SMTT(30) DEF SchedInv, Service
<1>2. ASSUME NEW k \in Job
      PROVE  LET R == Requested(k, to_sched', from_sched', sched_queue', sched_commit')
             IN /\ k \in sent' => R
                /\ online' /\ R => k \in sent' \/ job'[k].state \in Ended
  BY DEF SchedInv, Awaited
<1> QED
  BY <1>1, <1>2, SchedNext, ZenonT(60), SMTT(30)

\* Every step of the scheduler keeps SchedInv.
LEMMA PartnerSched ==
  ASSUME TypeOK, SchedInv, NEW j \in Job,
         \/ SchedAllocCb(j) \/ SchedAllocError(j) \/ SchedCancelCb(j) \/ SchedFreeCb(j)
         \/ SchedTryAlloc(j) \/ SchedCommitDone(j)
  PROVE  SchedInv'
<1> DEFINE A(k) == RequestsFor("alloc", k)
           Goal(k) == /\ Single(k, to_sched', from_sched', sched_queue', sched_commit')
                      /\ Requested(k, to_sched', from_sched', sched_queue', sched_commit')
                           <=> Requested(k, to_sched, from_sched, sched_queue, sched_commit)
<1>1. UNCHANGED <<job, sent, online, sched>>
  BY ZenonT(60) DEF SchedAllocCb, SchedAllocError, SchedCancelCb, SchedFreeCb, Receive, SchedTryAlloc,
     SchedCommitDone, manager
<1>2. sched = "ready"
  BY DEF SchedAllocCb, SchedAllocError, SchedCancelCb, SchedFreeCb, Receive, SchedTryAlloc,
     SchedCommitDone, SchedInv, Service
<1>3. \A k \in Job : Single(k, to_sched, from_sched, sched_queue, sched_commit)
  BY DEF SchedInv
<1>4. CASE SchedAllocCb(j)
  <2>1. ASSUME NEW k \in Job
        PROVE  /\ AtMostOnce(to_sched', A(k))
               /\ Holds(to_sched', A(k)) <=> Holds(to_sched, A(k)) /\ k # j
               /\ k = j => Holds(to_sched, A(k))
    BY <1>3, <1>4, ReceiveHolds, ZenonT(60), SMTT(30) DEF SchedAllocCb, Single
  <2>2. sched_queue' = sched_queue \cup {j} /\ UNCHANGED <<from_sched, sched_commit>>
    BY <1>4, ZenonT(60), SMTT(30) DEF SchedAllocCb, Receive
  <2> HIDE DEF A
  <2>3. \A k \in Job : Goal(k)
    BY <1>3, <2>1, <2>2, ZenonT(60), SMTT(30) DEF Single, Requested, A
  <2> QED
    BY <1>1, <1>2, <2>3, MovedSched, ZenonT(60), SMTT(30)
<1>5. CASE SchedAllocError(j)
  <2>1. ASSUME NEW k \in Job
        PROVE  /\ AtMostOnce(to_sched', A(k))
               /\ Holds(to_sched', A(k)) <=> Holds(to_sched, A(k)) /\ k # j
               /\ k = j => Holds(to_sched, A(k))
    BY <1>3, <1>5, ReceiveHolds, ZenonT(60), SMTT(30) DEF SchedAllocError, Single
  <2>2. ASSUME NEW k \in Job
        PROVE  /\ AtMostOnce(from_sched', AnswersFor(k))
               /\ Holds(from_sched', AnswersFor(k)) <=> Holds(from_sched, AnswersFor(k)) \/ k = j
    BY <1>3, <1>5, <2>1, RespondHolds, ZenonT(60), SMTT(30) DEF SchedAllocError, Single
  <2>3. UNCHANGED <<sched_queue, sched_commit>>
    BY <1>5, ZenonT(60), SMTT(30) DEF SchedAllocError, Receive
  <2> HIDE DEF A
  <2>4. \A k \in Job : Goal(k)
    BY <1>3, <2>1, <2>2, <2>3, ZenonT(60), SMTT(30) DEF Single, Requested, A
  <2> QED
    BY <1>1, <1>2, <2>4, MovedSched, ZenonT(60), SMTT(30)
<1>6. CASE SchedCancelCb(j) \/ SchedFreeCb(j)
  <2>1. ASSUME NEW k \in Job
        PROVE  /\ AtMostOnce(to_sched', A(k))
               /\ Holds(to_sched', A(k)) <=> Holds(to_sched, A(k))
    <3>1. PICK type \in {"cancel", "free"} : Receive(type, j)
      BY <1>6, ZenonT(60), SMTT(30) DEF SchedCancelCb, SchedFreeCb
    <3>2. AtMostOnce(to_sched, A(k)) /\ "alloc" # type
      BY <1>3 DEF Single
    <3> QED
      BY <3>1, <3>2, ReceiveHolds, ZenonT(60), SMTT(30)
  <2>2. /\ UNCHANGED sched_commit
        /\ \/ UNCHANGED <<from_sched, sched_queue>>
           \/ /\ j \in sched_queue /\ sched_queue' = sched_queue \ {j}
              /\ Respond("cancel", j)
    BY <1>6, ZenonT(60), SMTT(30) DEF SchedCancelCb, SchedFreeCb, Receive
  <2> HIDE DEF A
  <2>3. CASE UNCHANGED <<from_sched, sched_queue>>
    BY <1>1, <1>2, <1>3, <2>1, <2>2, <2>3, MovedSched, ZenonT(60), SMTT(30) DEF Single, Requested, A
  <2>4. CASE /\ j \in sched_queue /\ sched_queue' = sched_queue \ {j}
             /\ Respond("cancel", j)
    <3>1. ASSUME NEW k \in Job
          PROVE  /\ AtMostOnce(from_sched', AnswersFor(k))
                 /\ Holds(from_sched', AnswersFor(k)) <=> Holds(from_sched, AnswersFor(k)) \/ k = j
      BY <1>3, <2>4, RespondHolds, ZenonT(60), SMTT(30) DEF Single
    <3>2. \A k \in Job : Goal(k)
      BY <1>3, <2>1, <2>2, <2>4, <3>1, ZenonT(60), SMTT(30) DEF Single, Requested, A
    <3> QED
      BY <1>1, <1>2, <3>2, MovedSched, ZenonT(60), SMTT(30)
  <2> QED
    BY <2>2, <2>3, <2>4, ZenonT(60), SMTT(30)
<1>7. CASE SchedTryAlloc(j) \/ SchedCommitDone(j)
  <2>1. UNCHANGED to_sched
    BY <1>7, ZenonT(60), SMTT(30) DEF SchedTryAlloc, SchedCommitDone
  <2>2. \/ /\ j \in sched_queue /\ sched_queue' = sched_queue \ {j}
           /\ sched_commit' = sched_commit \cup {j} /\ UNCHANGED from_sched
        \/ /\ j \in sched_queue /\ sched_queue' = sched_queue \ {j}
           /\ UNCHANGED sched_commit /\ Respond("deny", j)
        \/ /\ j \in sched_commit /\ sched_commit' = sched_commit \ {j}
           /\ UNCHANGED sched_queue /\ Respond("success", j)
    BY <1>7, ZenonT(60), SMTT(30) DEF SchedTryAlloc, SchedCommitDone
  <2>3. ASSUME NEW k \in Job, Respond("deny", j) \/ Respond("success", j),
               j \in sched_queue \/ j \in sched_commit
        PROVE  /\ AtMostOnce(from_sched', AnswersFor(k))
               /\ Holds(from_sched', AnswersFor(k)) <=> Holds(from_sched, AnswersFor(k)) \/ k = j
    BY <1>3, <2>3, RespondHolds, ZenonT(60), SMTT(30) DEF Single
  <2>4. \A k \in Job : Goal(k)
    <3>1. CASE /\ j \in sched_queue /\ sched_queue' = sched_queue \ {j}
               /\ sched_commit' = sched_commit \cup {j} /\ UNCHANGED from_sched
      BY <1>3, <2>1, <3>1, ZenonT(60), SMTT(30) DEF Single, Requested
    <3>2. CASE /\ j \in sched_queue /\ sched_queue' = sched_queue \ {j}
               /\ UNCHANGED sched_commit /\ Respond("deny", j)
      BY <1>3, <2>1, <2>3, <3>2, ZenonT(60), SMTT(30) DEF Single, Requested
    <3>3. CASE /\ j \in sched_commit /\ sched_commit' = sched_commit \ {j}
               /\ UNCHANGED sched_queue /\ Respond("success", j)
      BY <1>3, <2>1, <2>3, <3>3, ZenonT(60), SMTT(30) DEF Single, Requested
    <3> QED
      BY <2>2, <3>1, <3>2, <3>3, ZenonT(60), SMTT(30)
  <2> QED
    BY <1>1, <1>2, <2>4, MovedSched, ZenonT(60), SMTT(30)
<1> QED
  BY <1>4, <1>5, <1>6, <1>7, ZenonT(60), SMTT(30)

\* A state in which no channel holds anything, and the scheduler has no request.
LEMMA EmptySched ==
  ASSUME to_sched' = << >>, from_sched' = << >>, sched_queue' = {}, sched_commit' = {},
         sent' = {}, sched' # "ready" => ~ online'
  PROVE  SchedInv'
<1>1. Service'
  BY DEF Service
<1>2. ASSUME NEW k \in Job
      PROVE  /\ Single(k, to_sched', from_sched', sched_queue', sched_commit')
             /\ ~ Requested(k, to_sched', from_sched', sched_queue', sched_commit')
  BY DEF Single, Requested, Holds, AtMostOnce
<1> QED
  BY <1>1, <1>2, SchedNext, ZenonT(60), SMTT(30)

\* The scheduler comes and goes.
LEMMA ServiceSched ==
  ASSUME Inv, LifeInv, SchedInv, SchedHello \/ SchedReady \/ SchedGone
  PROVE  SchedInv'
<1>1. CASE SchedHello \/ SchedReady
  <2>1. /\ sched # "ready" /\ UNCHANGED <<channels, sched_queue, sched_commit, sent>>
        /\ sched' # "ready" => online' = online
    BY <1>1, ZenonT(60) DEF SchedHello, SchedReady, manager
  <2> QED
    BY <2>1, EmptySched, SMTT(20), SMTT(30), SMTT(60) DEF SchedInv, Service, channels
<1>2. CASE SchedGone
  <2>1. /\ to_sched' = << >> /\ from_sched' = << >> /\ sched_queue' = {} /\ sched_commit' = {}
        /\ AllocTeardown
    BY <1>2 DEF SchedGone
  <2> QED
    BY <2>1, TeardownSched, EmptySched, ZenonT(60), SMTT(30)
<1> QED
  BY <1>1, <1>2, ZenonT(60), SMTT(30)

\* Every step keeps SchedInv.
LEMMA SchedStep == Inv /\ LifeInv /\ SchedInv /\ [Next]_vars => SchedInv'
<1> SUFFICES ASSUME Inv, LifeInv, SchedInv, [Next]_vars PROVE SchedInv'
  OBVIOUS
<1>1. TypeOK /\ (Undisturbed => SchedInv')
  BY UndisturbedSched, ZenonT(60), SMTT(30) DEF Inv
<1>2. ASSUME NEW j \in Job, Handler(j) PROVE SchedInv'
  BY <1>1, <1>2, MachineSched, OtherSched, RequestSched, ResponseSched, ZenonT(60), SMTT(30)
     DEF Handler
<1>3. ASSUME NEW j \in Job, Partner(j) PROVE SchedInv'
  BY <1>1, <1>3, OtherSched, CommandSched, PartnerSched, ZenonT(60), SMTT(30) DEF Partner
<1>4. CASE SchedHello \/ SchedReady \/ SchedGone
  BY <1>4, ServiceSched, ZenonT(60), SMTT(30)
<1>5. CASE Job # {} /\ (Global \/ UNCHANGED vars) /\ ~ (SchedHello \/ SchedReady \/ SchedGone)
  <2>1. PICK j \in Job : TRUE
    BY <1>5
  <2> QED
    BY <1>1, <1>5, <2>1, OtherSched, CommandSched, ZenonT(60), SMTT(30) DEF Global
<1>6. CASE Job = {} /\ ~ (SchedHello \/ SchedReady \/ SchedGone)
  <2>1. UNCHANGED <<sched, online, from_sched, sched_queue, sched_commit, sent>>
    BY <1>6, ZenonT(60) DEF Next, Global, BatchTimeout, CommitDone, QueueStop, QueueStart, ExecHello,
       ExecUnload, scheduler, channels, vars, manager
  <2>2. to_sched' = to_sched
    <3>1. active = {} /\ sent = {}
      BY <1>6 DEF Inv, TypeOK
    <3>2. \A i \in active : FALSE
      BY <3>1, ZenonT(60), SMTT(30)
    <3> QED
      BY <1>6, <3>1, <3>2, ZenonT(60) DEF Next, Global, BatchTimeout, CommitDone, QueueStop,
         QueueStart, ExecHello, ExecUnload, Send, Outranked, scheduler, channels, vars, manager
  <2> QED
    BY <1>6, <2>1, <2>2, ZenonT(60), SMTT(30) DEF SchedInv, Service
<1> QED
  BY <1>2, <1>3, <1>4, <1>5, <1>6, ZenonT(60), SMTT(30) DEF Next

\* SchedInv holds from the start.
LEMMA SchedInit == Init => SchedInv
  BY DEF Init, SchedInv, Service, Single, Awaited, Requested, Holds, AtMostOnce

\* With the invariants of the event machinery, it is inductive.
LEMMA SchedInvariant == Spec => [](Inv /\ LifeInv /\ SchedInv)
<1>1. Init => Inv /\ LifeInv /\ SchedInv
  BY InvInit, LifeInit, SchedInit, ZenonT(60), SMTT(30)
<1>2. Inv /\ LifeInv /\ SchedInv /\ [Next]_vars => (Inv /\ LifeInv /\ SchedInv)'
  BY InvStep, LifeStep, SchedStep
<1> QED
  BY <1>1, <1>2, PTL DEF Spec

\* The scheduler never has two alloc requests for a job, whatever the order in
\* which cancels, reprioritizations, queue commands and responses cross, and
\* whenever the scheduler goes and comes back; and a job in alloc->sent has its
\* response coming: for every set of jobs, plugins and limits.
THEOREM OneRequestCorrect == Spec => []OneRequest
<1>1. Inv /\ SchedInv => OneRequest
  <2> SUFFICES ASSUME Inv, SchedInv, NEW k \in Job
               PROVE  /\ \A p, q \in Outstanding(k) : p = q
                      /\ k \in sent => Outstanding(k) # {}
    BY ZenonT(60), SMTT(20), SMTT(30) DEF OneRequest
  <2> DEFINE A == {i \in 1..Len(to_sched) : to_sched[i].type = "alloc" /\ k \in to_sched[i].ids}
             B == {i \in 1..Len(from_sched) : from_sched[i].id = k}
             Q == sched_queue \cap {k}
             C == sched_commit \cap {k}
  <2>1. \A i \in 1..Len(to_sched) : i \in A <=> to_sched[i] \in RequestsFor("alloc", k)
    <3>1. \A i \in 1..Len(to_sched) : to_sched[i] \in SchedRequest
      BY DEF Inv, TypeOK
    <3> QED
      BY <3>1, ZenonT(60), SMTT(30) DEF RequestsFor
  <2>2. \A i \in 1..Len(from_sched) : i \in B <=> from_sched[i] \in AnswersFor(k)
    <3>1. \A i \in 1..Len(from_sched) : from_sched[i] \in SchedResponse
      BY DEF Inv, TypeOK
    <3> QED
      BY <3>1, ZenonT(60), SMTT(30) DEF AnswersFor
  <2>3. /\ Single(k, to_sched, from_sched, sched_queue, sched_commit)
        /\ k \in sent => Requested(k, to_sched, from_sched, sched_queue, sched_commit)
    BY ZenonT(60), SMTT(30) DEF SchedInv, Awaited
  <2>4. /\ Holds(to_sched, RequestsFor("alloc", k)) <=> A # {}
        /\ Holds(from_sched, AnswersFor(k)) <=> B # {}
    BY <2>1, <2>2, ZenonT(60), SMTT(30) DEF Holds
  <2>5. /\ \A i, n \in A : i = n
        /\ \A i, n \in B : i = n
    BY <2>1, <2>2, <2>3, ZenonT(60), SMTT(30) DEF Single, AtMostOnce
  <2>6. /\ A # {} => B = {} /\ Q = {} /\ C = {}
        /\ B # {} => Q = {} /\ C = {}
        /\ Q # {} => C = {}
    <3> HIDE DEF A, B
    <3> QED
      BY <2>3, <2>4 DEF Single
  <2>7. k \in sent => A # {} \/ B # {} \/ Q # {} \/ C # {}
    <3> HIDE DEF A, B
    <3> QED
      BY <2>3, <2>4, ZenonT(60), SMTT(30) DEF Requested
  <2>8. Outstanding(k) = {<<"to_sched", i>> : i \in A} \cup {<<"from_sched", i>> : i \in B}
                           \cup {<<"sched_queue", n>> : n \in Q} \cup {<<"sched_commit", n>> : n \in C}
    BY DEF Outstanding
  <2>9. \A m, n \in Q : m = n
    OBVIOUS
  <2>10. \A m, n \in C : m = n
    OBVIOUS
  <2> HIDE DEF A, B, Q, C
  <2> QED
    BY <2>5, <2>6, <2>7, <2>8, <2>9, <2>10, ZenonT(60), SMTT(30)
<1> QED
  BY <1>1, SchedInvariant, PTL

=============================================================================
