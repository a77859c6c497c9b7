# Verification of flux-core: TLA+ models, TLC runs and TLAPS proofs

This directory holds TLA+ specifications of flux-core, the resource manager in
`src/`, with the TLC configurations that model-check them on small instances and
TLAPS proofs that hold for every instance. Every definition is written from the
C source; `PROJECT.json` maps it to the lines it stands for.

## 1. The system

A Flux instance is a tree of brokers. Each broker is a reactor that routes
messages; services are modules, each a thread with a reactor of its own. A
reactor runs one callback at a time, so there are no data races inside a module:
what is concurrent are the modules, the brokers, the processes they start, and
the messages between them. Requests and responses between two modules stay in
order. Events climb to rank 0, get a sequence number there, and go down to every
broker.

A job is submitted to job-ingest, which validates it, commits it to the KVS and
announces it to the job manager. The job manager takes it through its states,
asks the scheduler for resources (which the resource module has handed to the
scheduler), asks job-exec to run it, runs housekeeping after it and frees its
resources. job-exec launches one shell per rank and moves the job's KVS
namespace when it is over. job-list follows the job manager's journal, job-info
serves the eventlogs. The KVS keeps everything in the content service, and
kvs-watch tells clients about changes.

### Modules and the code they model

| Module | Models | Source |
|---|---|---|
| `JobManager` | jobs, their events, the queues to a scheduler and an exec service | `job-manager/{event,job,alloc,start,submit,raise,urgency,prioritize,update,queue,jobtap}.c`, `sched-simple`, `libschedutil` |
| `Housekeeping` | scripts after a job and the partial release of its ranks | `job-manager/housekeeping.c`, `libsubprocess/bulk-exec.c` |
| `Perilog` | prologs and epilogs of one job, on each rank or on one | `job-manager/plugins/perilog.c` |
| `DependencyAfter` | jobs that wait for other jobs or for a time | `job-manager/plugins/{dependency-after,begin-time}.c` |
| `Queues` | named queues: enable, start, stop, drain, idle, their saved state | `job-manager/{queue,drain,update,restart}.c`, jobs moved to another queue |
| `Waiters` | clients that wait for one job or for any | `job-manager/wait.c` |
| `JobList` | the journal, purging, job-list with its lists, statistics and waiters | `job-manager/{journal,purge}.c`, `job-list/*.c` |
| `JobInfo` | watches of eventlogs and of updated objects, lookups | `job-info/*.c` |
| `JobIngest` | the pipeline of worker processes and the batches of submissions | `job-ingest/*.c` |
| `JobExec` | one job in the execution service, from namespace to final release | `job-exec/*.c`, `libsubprocess/bulk-exec.c` |
| `Subprocess` | a caller, the subprocess server of a broker and its processes | `libsubprocess/{client,server,remote,local,subprocess}.c` |
| `Sdexec` | processes as systemd units: the proxy for systemd and the exec service above it | `sdexec/*.c`, `sdbus/*.c` |
| `LineBuffer` | lines cut from a stream, used by both | `libsubprocess`, `sdexec/channel.c` |
| `Resource` | drain, exclusion, monitor, inventory, acquire, the resource eventlog | `resource/*.c` |
| `Barrier` | one barrier on every broker of a tree | `barrier/barrier.c` |
| `Kvs` | one namespace on leader and followers: commits, fences, lookups, setroot | `kvs/{kvs,kvstxn,kvsroot,treq}.c` |
| `KvsStore` | what the KVS promises to those who write: the abstract specification | `doc/man3/flux_kvs_commit.rst`, as far as `Kvs` implements it |
| `KvsRefinement` | the mapping from `Kvs` to `KvsStore` | |
| `KvsDurable` | the states of a transaction, the object cache, SYNC and checkpoints | `kvs/{kvstxn,cache,kvs_checkpoint}.c` |
| `KvsWatch` | watchers, their lookups and the monitor of a namespace | `kvs-watch/kvs-watch.c` |
| `Content` | caches on two levels, the backing store, mapped files | `content/{cache,mmap}.c` |
| `ContentCheckpoint` | the checkpoint service | `content/checkpoint.c` |
| `BrokerState` | the state machines of the brokers, shutdown and quorum | `broker/{state_machine,shutdown}.c` |
| `Runat` | the lists of commands rc1, rc2, rc3, cleanup | `broker/runat.c` |
| `Groups` | group membership reduced over the tree | `broker/groups.c` |
| `Overlay` | hello, status, RPC tracking and events over the tree | `broker/{overlay,broker,publisher}.c`, `librouter/rpc_track.c` |
| `Modules` | loading and removing modules, the table of services | `broker/{modhash,module,modservice,service}.c` |
| `Tree` | queries on the tree of brokers | `broker/topology.c` |
| `MC...` | instances for TLC | |
| `BarrierProofs` | theorems on `Barrier` | |
| `JobManagerProofs`, `JobManagerEventProofs`, `JobManagerLifeProofs` | theorems on `JobManager`, each module building on the one before | |
| `JobManagerExecProofs`, `JobManagerSchedProofs`, `JobManagerLeakProofs` | theorems on `JobManager` and its partners, the exec service and the scheduler, from `JobManagerLifeProofs`; the last builds on the second | |
| `KvsProofs` | theorems on `Kvs` | |

Operators with a comment `Mutant:` are deliberately wrong versions of the
definition that follows them. No specification uses them; each shows that a
property can be broken by a plausible slip in the code.

### What makes it hard

Answers cross cancels; events are posted while an event is being processed;
services go away and come back with requests under way; counts, statuses and
memberships travel through the tree in batches while brokers come and go; roots,
resources and eventlogs are learnt in two ways that race each other; processes
crash with requests queued; a namespace is moved while it is being watched. The
hazards are listed, each at its line, in `PROJECT.json`.

## 2. How the modules are written

A step is one callback of a reactor, from beginning to end. Most modules keep
the state of a service in one record which a handler takes through the calls it
makes (`Info` and `InfoDone` in `JobInfo`, for example): an operator that models a
C function takes the record and returns it changed, in the order in which the
code makes its calls. Messages are sequences or sets, by what the code may rely
on. What other services do (marked external in the map) is modelled as far as
the code can see it.

The faults and requests that may happen are bounded by a *scenario*: a record
that the initial state picks from a constant set, with the requests that are
made, the processes that crash, the commits that fail and so on. TLC explores
all orders of everything a scenario allows. Several components share a run: the
initial state picks one of them (`running`) with one of its scenarios.

History variables (`hist` in their names) record what properties speak about; no
guard reads them. Where the code has a known weakness, a history field marks the
behaviours that met it, the property of the run leaves just these out, and a
stricter property without the exception is stated beside it (section 5).

### JobManager

`job[j]` is `struct job` with the fields that control anything; `event_queue[j]`
is `job->event_queue`; `active` and `inactive` are the two hashes; `queue` and
`sent` are the lists of `alloc.c`, as sets, since both are always sorted by
priority and job ID; `batch` and `commits` are the open event batch and those
being written. A handler only queues an event; `Process(j)` takes one entry
through `event_job_process_entry` (update, plugin callbacks, action), and every
handler waits for `Idle`, when nothing is left to process. `Act(j)` is a call of
`event_job_action` from a loop in a handler. Plugins do in a callback what the
jobtap interface allows: dependencies, a priority or none, prologs, epilogs.
Priorities are 0..9, urgencies hold, default and expedite; a job's resources are
one token; events without effect on control are left out. When the event that
a response of the scheduler posts cannot be processed (a plugin adds a prolog
past the counter's limit, or memory runs out), the code also tears the scheduler
interface down; `AllocSuccess` and `AllocDeny` leave this out, and the entry is
dropped. A teardown itself is modelled (`AllocTeardown`), after other errors.

### Barrier

One barrier name. Each rank has its `struct barrier` or none, a queue of messages
for its parent (`up`) and one for its module (`inbox`). `events` is the sequence
published by rank 0. The history field `who` of an entry names the clients its
count stands for. There are more clients than `NProcs`, since nothing in the code
keeps one more from entering.

### Kvs, KvsStore, KvsDurable

In `Kvs` a directory maps keys to the last request that wrote them and a root
reference is the directory. The leader applies transactions one at a time
(`kvstxn_process` with its merging and its fallback after a failed merge);
followers relay requests to it and learn roots from events and from getroot
answers. The ranks form a tree (`Parent`). A getroot goes to the tree parent's
KVS, which answers from its own root if it has one and otherwise asks its parent
first (`Serve`). `wire[r]` is what is on its way to rank r's broker and `inbox[r]`
what its KVS module has still to handle: a broker passes an event on to the
brokers below it when it gets it (`Deliver`), whether or not its own KVS has
handled it. `chan` holds what ranks have asked of their parents and of the leader.
`KvsStore` has the directory and the answers only; the property `Refines` of
`KvsRefinement` says that `Kvs` implements it, with the leader's root as the
directory and a request answered when its client has been told. `KvsDurable` looks
inside the leader: what is in the object cache, what waits to be written, what is on disk, and what a
restart after an exit or a crash finds.

### Content, ContentCheckpoint

The two levels of `Content` are the write-back cache of rank 0 and a
write-through cache below it; the backing module is loaded and unloaded, and
refuses stores. Entries, their waiters, the flush list and the batch of stores
under way are those of `cache.c`. Blobs are named by their contents.

### The broker

`BrokerState` composes the state machines of a chain of brokers with their rc
scripts, joins, disconnects, signals and `flux shutdown`. `Groups` and `Overlay`
model the messages between parent and child one by one, with brokers that crash,
are cut off and return with a new uuid. A hello is refused by a parent that shuts
down and for another version; the refusals of a rank that is no child of the
parent and of a user without the right are left out, since no broker of an
instance meets them. `Modules` has the threads of modules,
their handshake with the broker and the services they register.

### Services

`KvsWatch` follows a namespace through creation, commits and removal with
watchers of every mode, one of them without access to the namespace. `Resource`
gives each actor (administrator, scheduler,
groups, restart) a sequence of operations. `JobExec` is one job on one or two
ranks with its shells, barriers, kill timers and namespace. `JobInfo` moves
clients from watch to watch as the guest namespace appears and disappears;
requests the module sends to itself are a queue of their own. `JobIngest` has two
crews of workers with their processes, standard input and output, and the batch
with its timer, commit, announcement and cleanup. `JobList` runs a script of
events, each in the job manager's log, on its way to job-list, in its backlog
while it is paused, or seen. `Housekeeping` frees ranks to a scheduler that is
unloaded and loaded.

### Around the job manager

`Perilog` follows one job through a prolog and an epilog with their processes,
timers, cancels and drains. `DependencyAfter` keeps the two lists of
`dependency-after.c` with the cursors that its nested callbacks share. `Queues`
holds the flags of every queue, the copy in the KVS and what a restart makes of
it. `Waiters` has the requests, the counters and the zombies of `wait.c`.

### Processes

`Subprocess` has both ends of a remote process: the caller's object, the messages
between the brokers, the server's object and the process with its channels.
`Sdexec` puts two services and a bus in place of that: requests of a client, the
proxy's queue of calls, the calls and signals that cross the bus, units that
systemd starts, stops and forgets, and a bus that is lost and found again. An exec
request may be refused before there is a unit for it, whatever the reason.

## 3. Runs

Runs say `CHECK_DEADLOCK FALSE`: when the requests of a scenario are used up, the
system has nothing left to do. What must be true then is stated by the
properties (`...Quiet => ...`).

| Run | Checks |
|---|---|
| `job_life` | One job, all urgencies, a priority that may come late, dependencies, prologs and epilogs with a counter at its limit, a queue stop, an exception, an update, and a loss or refusal of the exec service |
| `job_alloc` | Two jobs, two priorities, a scheduler limited to one request, an exception, an update or reprioritization, a failing request, and a scheduler reload in which one job may not be reallocated |
| `job_resources` | Two jobs, housekeeping, prologs and epilogs, a queue stop, two exceptions |
| `job_live` | Termination under fairness, with a stop, an exception, an update and a scheduler reload |
| `barrier` | Three ranks in a chain, four clients, a barrier of three, an abort |
| `kvs` | A leader, an inner follower and a leaf, commits, one that cannot be applied, a fence across ranks, wait-version, lookup, removal of the namespace, a failing load or store, an expired root |
| `kvs_tree` | expected to fail: section 5 |
| `broker` | State machines of up to three brokers, groups, overlay, runat, modules; content caches with an unreliable backing store, durability of commits across crashes, checkpoints |
| `services` | kvs-watch, resource, job-exec |
| `jobs` | job-info, housekeeping, job-ingest, job-list |
| `manager` | perilog, dependencies, named queues, waiters, remote subprocesses, systemd units |
| `wait_surplus` | expected to fail: section 5 |

What the properties say of the code:

* `QueueFlags`: `alloc_queued` and `alloc_pending` agree with the two lists of
  `alloc.c`, inside every handler. `NoLostJob`: a job in SCHED of a started queue
  that is not held is in one of them. `OneRequest`: the scheduler never has two
  requests for a job, and one that waits for an answer has one coming.
  `FreeOnlyAllocated`: a free request names an allocated job. `NoLeak`: every
  allocation has an owner.
* `StartAfterProlog`, `ReleasedIdle`, `CleanupProgress`: a job is started when its
  prologs are over, its resources are let go when nothing runs any more, and in
  CLEANUP it waits for something that will come. `Terminates`: every job that is
  not held reaches INACTIVE.
* `NoEarlyExit`: a barrier releases nobody before nprocs clients have entered.
  `AllReleased`: when exactly nprocs have entered and none has aborted, all of
  them are released, unless another client enters first (section 5).
* `RootsAgree`, `NeverBack`, `ReadYourWrites`, `Refines`, `Settles`: the root of a
  rank, and the one a lookup walks from, is a version the leader published; while
  a rank keeps an incarnation of the namespace its root never goes back, except
  to a version 0 on a rank whose parent is not the leader; on the leader and the
  ranks next to it, a client that saw its commit succeed reads it; transactions are
  applied once, whole, in some order, and answered truly; every commit is answered
  and every removed root deleted. That fences, waits and lookups are answered is
  not claimed: they may wait for a version or a member that never comes.
* `ContentKept`: what was stored can be loaded, and a flush is answered when
  everything before it is in the backing store. `DurableKept`: an answered SYNC
  commit survives a crash, and
  the root and all it refers to can be loaded. `StorageSettles`: whoever waits is
  answered, except a flush after a store was refused or the backing module left.
* `CommandsInOrder`: rc scripts run in order down and up the tree, and within each
  the commands run once, in order, and the first error is reported.
  `BrokersExit`: when rank 0 has exited, or its parent has cut it off, a broker
  exits, except one whose hello nobody answered and one that lost its parent in
  QUORUM (section 5). `GroupsAgree`: rank 0's members are those that joined and are
  connected, ranks apart whose child was lost with an update of theirs still
  queued at its parent. `OverlayKept`: every request is answered
  once though hops are lost, no event is skipped, statuses agree.
  `ModuleRequestsAnswered`: what reached a module's queue is answered.
* `WatchKept`: values in the order of commits, none missed, and every watch ends.
  `ResourceKept`: the scheduler's resources are the module's once all is
  delivered (an expiration apart whose update was dropped, section 5), and drains
  survive a restart. `JobEnds`, `JobAccounted`: a job always
  comes to its final release, with its responses in order, its namespace moved,
  and nodes drained on which a shell was given up.
* `InfoStreams`: clients of job-info see each event and each update once and in
  order. `RanksFreedOnce`: each rank is freed to the scheduler once, after its
  script. `SubmitsAnswered`: a submit is answered once, and the answer agrees with
  the KVS and the job manager. `ListKept`: job-list's jobs, lists and counts follow
  from the events, except for jobs whose purge it missed and states it does not
  revert; a list-id request is answered at most once, with a job that has reached the
  state asked for, or with the ENOENT that the KVS gave; those never answered are
  those for a state not reached and those that a lookup dropped (section 5).
* `PerilogKept`: a job starts only after a prolog that succeeded, a rank is given
  back with its processes ended or drained, one epilog follows a job that started
  or whose prolog failed, and every job ends unless its prolog or epilog hangs
  without a timeout. `DependenciesKept`: a dependency is
  released when its condition holds, or the job ends with an exception.
  `QueuesKept`: jobs of a stopped queue are not offered to the scheduler and those of
  a started one are not left out, jobs excepted, in both directions, whose queue a
  restart or a change of configuration started or stopped without touching them;
  drain and idle are answered when nothing is left,
  and a restart restores what the administrator said. `WaitAnswered`: the counters of `wait.c` are
  what they count, and between two restarts each result is given once.
* `SubprocessKept`: output comes whole and in order before the end of its stream, a
  process fails only for a cause, and when nothing is under way every kill has been
  answered and no main process outlives the caller's disconnect (children it left
  in the background may). `SdexecKept`: the
  responses to an exec request are in order and complete, input is delivered in
  order, and no unit is left behind.

### Bounds

Two jobs are needed for the order of queues and for cancels on behalf of
another; two or three ranks in a chain give a leaf, an inner rank and a root;
two blobs, two transactions or two workers meet in one cache, merge or crew.
Every kind of fault has a budget in each scenario, mostly one, since what one
fault leaves behind is there to be met by everything else; the scenarios combine
the faults that touch the same state. Queues of messages need no bound: they are
bounded by the requests. Limits of the code are set low so that they are reached
(`PerilogMax`, `FlushBatchLimit`, `MaxBacklog`, `PurgeBatch`).

### Fairness

`Terminates` assumes weak fairness of every handler of the reactor (a message or
timer that is ready is dispatched), of the scheduler's and the exec service's
steps (they answer), of their hello (an unloaded module is loaded again), of
`QueueStart` and of the plugins that hold a job back. `AllReleased`, `Settles`,
`StorageSettles` and `BrokersExit` assume weak fairness of the handlers, of
messages and of timers, and that scripts end; never that a user acts or that
something fails. The other components are checked by invariants of the states in
which nothing is left to be done.

## 4. Proofs

`tlapm` checks every step, with Z3 and Zenon for the leaves and LS4 for the
temporal ones.

* `BarrierProofs!TypeCorrect` (`Spec => []TypeOK`) and `BarrierProofs!Safety`
  (`Spec => []NoEarlyExit`), for every tree, every finite set of clients and
  every nprocs. `NoEarlyExit` speaks of answers, and is kept only because of
  what is under way. The invariant `IInv` adds: an event that was heard was
  published (`Sequenced`); the clients a count stands for have entered
  (`CountedEntered`); no client stands for two counts, in a barrier, in a
  queue upward or in an inbox (`CountedOnce`); a count is the number of clients
  it stands for (`CountsExact`); and an exit with no error, wherever it is,
  means that nprocs clients have entered (`ExitsFull`). Then a rank whose count
  reaches nprocs has nprocs distinct clients behind it.
* `JobManagerProofs!TypeCorrect` (`Spec => []TypeOK`) and
  `JobManagerProofs!FlagsCorrect` (`Spec => []QueueFlags`), for every finite set
  of jobs, every behaviour of plugins and every limit. `Inv == TypeOK /\
  QueueFlags` is inductive. First come lemmas on the operators (`UpdateType`: an
  accepted event leaves the alloc flags alone; `ActionType`, `ActionFlags`: so
  `event_job_action` keeps flags and lists together), then one lemma for each
  group of handlers.
* `JobManagerProofs!StartCorrect` (`Spec => StartAfterProlog`), an action
  property: only `ActionRun` ever sends a start request, under conditions on the
  counter and the queue that still hold when the entry is dequeued.
* `JobManagerLifeProofs!NoLostJobCorrect` (`Spec => []NoLostJob`), for every
  finite set of jobs and every behaviour of plugins, scheduler and exec service.
  `NoLostJob` only speaks of states in which no event is queued, so the invariant
  `LifeInv` must say of a job in the middle of its events what those events will
  do: which of them may be queued in which state (`EventsFit`), that resources
  are let go once and only by a job that nothing uses (`FreedQuiet`), and that a
  job in SCHED that no alloc queue knows has a `priority`, `alloc` or `exception`
  to come (`NotLost`). `JobManagerEventProofs` proves what one event does
  (`UpdateFacts`), what the action of the new state does (`LiveLife`,
  `CleanupLife`, `InactiveLife`), and that dispatching an event keeps the job's invariant
  (`ProcessWorks`); `JobManagerLifeProofs` adds the handlers that post events
  (`LifeStep`).
* `JobManagerExecProofs!ReleasedCorrect` (`Spec => []ReleasedIdle`) and
  `JobManagerExecProofs!CleanupCorrect` (`Spec => []CleanupProgress`), under the
  assumption `MaxRequest["exec"] = 0`, that the exec service is not unloaded and
  answers no start request with an error. `ExecInv` ties `start_pending` to what
  the exec service holds for the job. The assumption is needed: on an error,
  `start.c` forgets `start_pending` for jobs whose shells may still run.
* `JobManagerSchedProofs!OneRequestCorrect` (`Spec => []OneRequest`), through
  every cancel, failed request, unload and reload of the scheduler. `OneRequest`
  looks for requests and responses in four places. `SchedInv` says that a
  job's request is in at most one place, and there once; that a job in `sent`
  has one; and that as long as the interface is up a request that is anywhere
  belongs to a job in `sent` or to one that has ended, since only then does the
  job manager send no second one. `Service` adds that a scheduler which is not
  ready holds no request and has none on its way. The lemmas on channels
  (`AppendHolds`, `TailHolds`) follow a message through a queue.
* `JobManagerLeakProofs!NoLeakCorrect` (`Spec => []NoLeak`), with or without
  housekeeping, under the assumption `MaxRequest["sched"] = 0`, that the scheduler
  is not unloaded. `NoLeak` is not inductive: a job that still has its resources
  but has posted the `free` event owns them no longer, and must have handed them to
  housekeeping or to a free request; that is what `Kept` in `LeakInv` adds. The
  assumption is needed: a free posted between the hello and the ready of a
  scheduler that comes back is dropped (section 5).
* `KvsProofs!RootsAgreeCorrect` (`Spec => []RootsAgree`) and
  `KvsProofs!NeverBackCorrect` (`Spec => NeverBack`), for every tree of followers
  and every number of requests, keys, creations of the namespace, faults and
  expiries. A root comes to a rank by three ways (its own transaction on the
  leader, a setroot event, a getroot answer of its parent), so `Inv` says of every
  message under way, to a broker or within it to its KVS, that it carries a
  version in `log` or the empty version 0 of an incarnation that was created
  (`BoxOK`). `setroot` refuses an older version but takes a version 0 whatever
  it holds. That a rank next to the leader never goes back therefore rests on
  `FitsBox` and `FitsWire`: when a message with version 0 is on its way to such a
  rank, the rank holds no later version of the incarnation, and no message before
  it, in the KVS's queue or on the wire, carries one. This is kept because the
  leader answers with version 0 only as long as it has published nothing of the
  incarnation (`FreshOK`), and answers and events share one way, in order. For a
  rank further down nothing of the kind holds, and `NeverBack` says there only
  that version 0 is the one older version it can go back to.

Assumptions on constants are the `ASSUME`s of the modules: no broker is its own
parent, sets are finite, job IDs and bounds are naturals, the leader is not one of
the followers, the parent of a follower is one of the ranks, every KVS request is
made on one of the ranks, and `PerilogMax`, the
range of the counter of prologs and epilogs, is not zero.

Only model-checked:

* the liveness properties, and the fairness in the refinement of `KvsStore`
  (fairness and `ENABLED` are out of the prover's reach);
* the steps of that refinement too (`Refines`): what a merged transaction does is a
  concatenation and a fold over its operations, and equating it with its parts is
  an induction over data;
* `ReadYourWrites`: it would need an invariant that follows each request through
  relays, counted fences, the ready queue, merges and fallbacks;
* `FreeOnlyAllocated`: it holds only when priorities are there at once and when no
  job in housekeeping is refused by a new scheduler (section 5), and `job_alloc`
  chooses its constants so;
* the invariants of the other modules, several of which are written with recursive
  operators.

## 5. Disagreements between the code and what is said of it

Two runs are expected to fail; their findings in `PROJECT.json` quote what is said.

| Run | Property | What happens |
|---|---|---|
| `kvs_tree` | `ReadYourWritesAnywhere` | A leaf two hops below the leader has two getroots in flight, for two requests made before it knew the root. With the first answer, version 0, it serves a commit, sees the event of version 1 and answers its client. The second is answered by the inner follower, whose broker has passed that event on but whose KVS has not handled it: version 0 again, and `setroot` takes a version 0 whatever it holds. The client no longer reads its commit. |
| `wait_surplus` | `EnoughJobs` | `wait_rpc` returns from the branch that keeps a request for one job before it compares waiters with waitable jobs: a request for any job that can no longer be answered waits for ever. |

Others were met while modelling. TLC refutes the property named when it is put in
the place of the run's properties (with the scenario named, where there is one);
the passing runs leave just these behaviours out.

* Job manager: a new scheduler that cannot reallocate a job in housekeeping is later
  asked to free it (`FreeOnlyAllocated`); an RPC error for one start request
  makes the job manager forget that other jobs run, whose resources are freed
  under them (`ReleasedIdle`) or which stay in CLEANUP (`CleanupProgress`); loss of
  the scheduler puts a job that is back in PRIORITY on the alloc queue. A job that
  frees its resources between the hello and the ready of a new scheduler: the free
  request is dropped and the scheduler keeps the resources (`NoLeak`).
* Barrier: counts reported before an abort complete the barrier for clients that
  enter after it; a batch that takes the count past nprocs, when a client more than
  nprocs enters, releases nobody, since `barrier_update` tests for equality
  (`ReleasedAnyway`).
* KVS: a commit on a follower can be answered before the follower has the root
  (`AnswerHasCommit`); a namespace that is removed and created again may take
  commits meant for the first (`Refines` with `MaxCreates = 2`); a setroot event of
  the removed incarnation that is still under way sets the root of the new one,
  since `setroot_event_cb` looks at the name of the namespace only (this is why
  `NeverBack` speaks of one incarnation); a follower that
  missed a setroot while its root was expired stays behind
  (`EventuallyConsistent`).
* Content: an assertion of `cache.c` fails when a store is refused
  (`AssertsHold`), a flush then waits for ever (`FlushAnswers`), and a blob mapped
  from two files is lost with one of them (`MappedFound`). In `KvsDurable` two
  namespaces that share an object which cannot be stored (`MCSharedScenarios`)
  leave a root that cannot be loaded (`RootLoadable`). The answer to a
  checkpoint-get is kept as if it had been put (`GetNewest`).
* Broker: a broker cut off before it has joined waits for ever (`OrphanExits`);
  the LEAVEs of a lost subtree and its JOINs under way leave rank 0 wrong
  (`GroupsExact`); a command pushed to a running runat entry may be skipped
  (`RunsEach` with `LateScenarios`); a module misses events published between its
  subscription and its start (`EventsReachModules`).
* kvs-watch: the assertion called safe in `watcher_respond` is not (`AssertSafe`), an
  error may overtake values of earlier roots (`ErrorsInOrder`), and a WAITCREATE
  watch may be told ENOENT (`WaitsForKey`).
* resource: a drain is acted on before it is in the eventlog (`CommitFirst`),
  a drain of a rank that was excluded for a while is lost (`DrainSticky`,
  `ExcludedNotDrained`). The inventory has one slot for a commit of R: an update
  that comes while the first commit is in flight takes it, its event is not posted
  and the scheduler is not told of the new expiration (`UpdateTold`).
* job-exec: shells given up may produce output after the final release
  (`EndOfStream`), a job whose namespace was not checkpointed is not started again
  after a restart although the comment says so (`ReattachCreates`), an event may be
  logged into the namespace that is moved (`EventlogQuiesced`), a barrier abort
  does not reach shells not launched yet (`BarrierAborted`).
* job-info: a client that joins an update-watch as the last one cancels is told
  ENODATA although the job goes on (`UpdateUntilClean`), a cancel may be answered
  twice (`EndsOnce`), and a guest watch of a job that ends before it starts gets no
  events (`GuestComplete`).
* housekeeping: frees sent between hello and ready are lost (`FreesArrive`).
* job-ingest: a change of configuration stops workers with requests in their
  queues, and the lines of the old and the new process are taken as answers to the
  requests in the queue, so that a job gets the verdict of another
  (`ResultsMatch`); with batch-count changed from N to 0 a partial batch is never flushed
  (`NoSubmitWaits`), from 0 to N the timer flushes a batch that is not there
  (`NoCrash`).
* job-list: a list-id request is dropped when the job becomes known but has not
  reached the state, or waits for a job that was purged meanwhile
  (`ListIdAlways`); a purge is missed while job-list is paused (`PurgeForgets`);
  the job manager takes a job back to PRIORITY on some events on which job-list
  does not (`StateAgrees`); a jobspec update of a running job is seen only after
  a reload (`DurationKept`).
* perilog: the epilog-start that a failed prolog posts before CLEANUP is not
  counted, so that the job need not wait for its epilog, although the comment says
  that CLEANUP waits; a prolog that times out and then exits with status 0 raises
  no exception (doc/man5/flux-config-job-manager.rst says it does); when one rank
  cannot start its process the timer is never armed; an exception before the first
  process is there arms no kill timer.
* dependencies: the same dependency given twice is released once
  (`DependenciesStrict`); the address of a freed job may be taken for that of a new
  one; a restart only warns of a dependency that can no longer be satisfied.
* queues: a restart puts jobs on the alloc queue before it restores which queues
  are stopped (`StoppedStaysStopped`), and leaves out those of a queue that it
  then restores as started, until it is started again; a change of configuration forgets what was
  set; a queue update is posted after the feasibility check although the job may
  run by then.
* wait: the header says that completion info is consumed by the first waiter, but a
  restart makes the result of every waitable job available again
  (`WaitDestructive`); the loop of `restart.c` over inactive jobs advances
  the cursor of the active ones.
* subprocess: `local_channel_flush` may loop for ever on a channel nobody reads;
  a write to a channel the process has closed kills the process, though the
  comment in `server.c` says it is ignored; kill requests for a process that has
  exited but is still known are dropped; closing a channel loses output that was
  not read.
* sdexec: a kill request is never answered (`KillsAnswered`); requests made between
  connect and AddMatch are sent again from the backlog (`StartedOnce`); a start
  that crosses a loss of the bus leaves a unit nobody owns; a blocking write to a
  unit's input can stop the module (`NeverStuck`); `started` is sent before exec
  can fail (`StartedMeansExecuted`).

## 6. Not modelled

The components marked `not_modelled` in `PROJECT.json`, with the reason: front
ends, encoders, containers and third-party code have no state that a model would
show anything about; storage backends are input and output.
In the modelled components: payloads, formats, annotations and logging; errors of
the C library; more than one namespace, barrier name, key or job where they do not
meet; the recovery mode of the broker; fences with mismatched flags.

## 7. Running

    tlc -workers 2 -config Jobs.cfg MCJobs
    tlapm BarrierProofs.tla
    tlapm JobManagerProofs.tla
    tlapm JobManagerEventProofs.tla
    tlapm JobManagerLifeProofs.tla
    tlapm JobManagerExecProofs.tla
    tlapm JobManagerSchedProofs.tla
    tlapm JobManagerLeakProofs.tla
    tlapm KvsProofs.tla
