----------------------------- MODULE KvsDurable -----------------------------
(***************************************************************************)
(* How the KVS leader makes its roots durable (src/modules/kvs): the       *)
(* states of a transaction, the cache of objects that it shares with other *)
(* namespaces, FLUX_KVS_SYNC, the checkpoint timer, and a restart from the *)
(* checkpoint after an orderly exit or after a crash.                      *)
(*                                                                         *)
(* The content service below is the one of rank 0 with its backing store   *)
(* loaded (module Content), reduced to what a client on rank 0 sees: what  *)
(* is held in memory, what waits to be written, what is on disk.           *)
(*                                                                         *)
(* A directory is the set of the values in it; a value is an object of its *)
(* own.  Objects are named by content, so equal directories of different   *)
(* namespaces are one object.                                              *)
(***************************************************************************)
EXTENDS Naturals, Sequences, FiniteSets, SequencesExt, TLC

CONSTANTS KVals,
          KNames, Primary,       \* namespaces
          KTxns, TxOf,           \* [KTxns -> [ns, val, sync]]
          Period,                \* the transaction of the checkpoint timer
          NoRef,
          DurableScenarios,      \* what clients commit, and how many faults, crashes, exits
                                 \* and expiries of the checkpoint timer there may be
          DiskBatchLimit         \* the flush_batch_limit of the content cache

KBlobs == (SUBSET KVals) \cup KVals

Reach(ref) == {ref} \cup ref     \* a directory and the values in it

VARIABLES phase,      \* "up", "leaving" (the KVS has exited, content has not) or "down"
          kroot,      \* [KNames -> [ref, seq]]
          objects,    \* [KBlobs -> "none", "loading", "valid", "dirty"]: the KVS cache
          kready,     \* [KNames -> Seq(KTxns)]: the ready lists
          ktxn,       \* [KTxns -> [st, wait, err, new]]
          kanswer,    \* [KTxns -> "off", "idle", "sent", "ok", "err", "lost" in a crash]
          lastSeq,    \* last_checkpoint_seq
          toContent, fromContent,
          mem,        \* the blobs in the content cache
          writing,    \* the queue of the backing store: blobs and checkpoints
          dirtyList,  \* the flush list of the content cache
          dirtied,    \* its dirty blobs
          flushers,   \* transactions whose content.flush waits
          flushErr,   \* flush_errno is set
          stored,     \* the blobs on disk
          ckpt,       \* the checkpoint on disk
          budget      \* [refusals, faults, crashes, exits, periods]: how many are left,
                      \* and failed: a write has been refused

content_side == <<mem, writing, dirtyList, dirtied, flushers, flushErr, stored, ckpt>>
kvs_side == <<kroot, objects, kready, ktxn, kanswer, lastSeq>>
durable_vars == <<phase, kvs_side, toContent, fromContent, content_side, budget>>

Fresh == [st |-> "idle", wait |-> {}, err |-> FALSE, new |-> {}]

(* mod_main and store_initial_rootdir: the empty directory is stored, and    *)
(* the primary namespace starts from the checkpoint if there is one.         *)
Started(cp, disk) ==
    /\ phase' = "up"
    /\ kroot' = [n \in KNames |-> IF n = Primary /\ cp.ref # NoRef THEN cp ELSE [ref |-> {}, seq |-> 0]]
    /\ objects' = [b \in KBlobs |-> IF b = {} THEN "valid" ELSE "none"]
    /\ kready' = [n \in KNames |-> <<>>]
    /\ lastSeq' = 0
    /\ toContent' = <<>> /\ fromContent' = <<>>
    /\ mem' = {{}} /\ dirtied' = {{}} /\ writing' = <<[op |-> "store", b |-> {}]>>
    /\ dirtyList' = <<>> /\ flushers' = {} /\ flushErr' = FALSE
    /\ stored' = disk /\ ckpt' = cp

DurableInit(s) ==
    /\ phase = "up"
    /\ kroot = [n \in KNames |-> [ref |-> {}, seq |-> 0]]
    /\ objects = [b \in KBlobs |-> IF b = {} THEN "valid" ELSE "none"]
    /\ kready = [n \in KNames |-> <<>>]
    /\ ktxn = [t \in KTxns |-> Fresh]
    /\ kanswer = [t \in KTxns |-> IF t \in s.txns THEN "idle" ELSE "off"]
    /\ lastSeq = 0
    /\ toContent = <<>> /\ fromContent = <<>>
    /\ mem = {{}} /\ dirtied = {{}} /\ writing = <<[op |-> "store", b |-> {}]>>
    /\ dirtyList = <<>> /\ flushers = {} /\ flushErr = FALSE
    /\ stored = {} /\ ckpt = [ref |-> NoRef, seq |-> 0]
    /\ budget = s.budget

-----------------------------------------------------------------------------
(* Transactions *)

InCache(b) == objects[b] \in {"valid", "dirty"}        \* cache_entry_get_valid

Namespace(t) == TxOf[t].ns

Publishes(t) == t # Period                  \* not KVSTXN_INTERNAL_FLAG_NO_PUBLISH

IsHead(t) == kready[Namespace(t)] # <<>> /\ Head(kready[Namespace(t)]) = t

(* The reactor runs a transaction that is ready before anything else. *)
Runs(t) == phase = "up" /\ IsHead(t) /\ ktxn[t].wait = {} /\ ktxn[t].st \in {"init", "keys"}

KvsIdle == phase = "up" /\ \A t \in KTxns : ~Runs(t)

(* kvstxn_mgr_add_transaction, for a commit and for checkpoint_cb *)
Enqueue(t) ==
    /\ kready' = [kready EXCEPT ![Namespace(t)] = Append(@, t)]
    /\ ktxn' = [ktxn EXCEPT ![t] = [Fresh EXCEPT !.st = "init"]]

CommitRequest(t) ==
    /\ KvsIdle
    /\ kanswer[t] = "idle"
    /\ Enqueue(t)
    /\ kanswer' = [kanswer EXCEPT ![t] = "sent"]
    /\ UNCHANGED <<phase, kroot, objects, lastSeq, toContent, fromContent, content_side, budget>>

CheckpointTimer ==
    /\ KvsIdle
    /\ lastSeq # kroot[Primary].seq
    /\ budget.periods > 0
    /\ ktxn[Period].st \in {"idle", "done"}
    /\ budget' = [budget EXCEPT !.periods = @ - 1]
    /\ Enqueue(Period)
    /\ lastSeq' = kroot[Primary].seq
    /\ UNCHANGED <<phase, kroot, objects, kanswer, toContent, fromContent, content_side>>

(* The end of kvstxn_apply: the root is replaced, or an error is published, *)
(* and the transaction leaves the ready list.                               *)
TxnEnd(t, ok) ==
    /\ kroot' = IF ok /\ Publishes(t)
                THEN [kroot EXCEPT ![Namespace(t)] = [ref |-> ktxn[t].new, seq |-> @.seq + 1]]
                ELSE kroot
    /\ kanswer' = IF t = Period THEN kanswer
                  ELSE [kanswer EXCEPT ![t] = IF ok THEN "ok" ELSE "err"]
    /\ kready' = [kready EXCEPT ![Namespace(t)] = Tail(@)]
    /\ ktxn' = [ktxn EXCEPT ![t].st = "done"]

(* KVSTXN_STATE_LOAD_ROOT with the root directory not in the cache: load *)
LoadRoot(t) ==
    LET r == kroot[Namespace(t)].ref
    IN /\ Runs(t) /\ ktxn[t].st = "init" /\ ~ktxn[t].err
       /\ ~InCache(r)
       /\ objects' = [objects EXCEPT ![r] = "loading"]
       /\ toContent' = IF objects[r] = "none" THEN Append(toContent, [op |-> "load", b |-> r])
                       ELSE toContent
       /\ ktxn' = [ktxn EXCEPT ![t].wait = {r}]
       /\ UNCHANGED <<phase, kroot, kready, kanswer, lastSeq, fromContent, content_side, budget>>

(* The content.store requests for the objects of S *)
Stores(t, new, S) ==
    LET all == <<[op |-> "store", b |-> new], [op |-> "store", b |-> TxOf[t].val]>>
    IN SelectSeq(all, LAMBDA m : m.b \in S)

(* KVSTXN_STATE_APPLY_OPS and _STORE (store_cache, kvstxn_cache_cb): objects *)
(* that are not valid in the cache are stored and waited for.  An entry that *)
(* was being loaded becomes valid, which ends the wait of others for it.     *)
StoreObjects(t) ==
    LET new == kroot[Namespace(t)].ref \cup {TxOf[t].val}
        S == {b \in {TxOf[t].val, new} : ~InCache(b)}
    IN /\ Runs(t) /\ ktxn[t].st = "init" /\ ~ktxn[t].err
       /\ InCache(kroot[Namespace(t)].ref)
       /\ t # Period
       /\ objects' = [b \in KBlobs |-> IF b \in S THEN "dirty" ELSE objects[b]]
       /\ toContent' = toContent \o Stores(t, new, S)
       /\ ktxn' = [u \in KTxns |-> IF u = t THEN [ktxn[t] EXCEPT !.new = new, !.wait = S, !.st = "keys"]
                                   ELSE [ktxn[u] EXCEPT !.wait = @ \ S]]
       /\ UNCHANGED <<phase, kroot, kready, kanswer, lastSeq, fromContent, content_side, budget>>

(* KVSTXN_STATE_LOAD_ROOT of a transaction without operations *)
KeepRoot(t) ==
    /\ Runs(t) /\ ktxn[t].st = "init" /\ ~ktxn[t].err
    /\ InCache(kroot[Namespace(t)].ref)
    /\ t = Period
    /\ ktxn' = [ktxn EXCEPT ![t].new = kroot[Namespace(t)].ref, ![t].st = "keys"]
    /\ UNCHANGED <<phase, kroot, objects, kready, kanswer, lastSeq, toContent, fromContent,
                   content_side, budget>>

(* KVSTXN_STATE_SYNC_CHECKPOINT: the request for a checkpoint of the new root *)
CheckpointOf(t) ==
    [op |-> "put", t |-> t, ref |-> ktxn[t].new,
     seq |-> kroot[Primary].seq + IF Publishes(t) THEN 1 ELSE 0]

(* Mutant: the checkpoint is taken without flushing the content cache. *)
GenerateKeysUnflushed(t) ==
    /\ Runs(t) /\ ktxn[t].st = "keys" /\ ~ktxn[t].err
    /\ IF TxOf[t].sync
       THEN /\ ktxn' = [ktxn EXCEPT ![t].st = "checkpoint"]
            /\ toContent' = Append(toContent, CheckpointOf(t))
            /\ UNCHANGED <<kroot, kanswer, kready>>
       ELSE TxnEnd(t, TRUE) /\ UNCHANGED toContent
    /\ UNCHANGED <<phase, objects, lastSeq, fromContent, content_side, budget>>

(* KVSTXN_STATE_GENERATE_KEYS: FLUX_KVS_SYNC goes on to content.flush *)
GenerateKeys(t) ==
    /\ Runs(t) /\ ktxn[t].st = "keys" /\ ~ktxn[t].err
    /\ IF TxOf[t].sync
       THEN /\ ktxn' = [ktxn EXCEPT ![t].st = "flush"]
            /\ toContent' = Append(toContent, [op |-> "flush", t |-> t])
            /\ UNCHANGED <<kroot, kanswer, kready>>
       ELSE TxnEnd(t, TRUE) /\ UNCHANGED toContent
    /\ UNCHANGED <<phase, objects, lastSeq, fromContent, content_side, budget>>

(* aux_errnum was set by kvstxn_wait_error_cb *)
Fails(t) ==
    /\ Runs(t) /\ ktxn[t].err
    /\ TxnEnd(t, FALSE)
    /\ UNCHANGED <<phase, objects, lastSeq, toContent, fromContent, content_side, budget>>

(* content_load_completion, content_store_completion (an entry whose store   *)
(* failed is destroyed), and kvstxn_apply_cb for the flush and the           *)
(* checkpoint, which comes after the flush.                                  *)
ContentResponse ==
    LET m == Head(fromContent)
        Woken(err) == [t \in KTxns |-> IF m.b \in ktxn[t].wait
                                       THEN [ktxn[t] EXCEPT !.wait = @ \ {m.b}, !.err = @ \/ err]
                                       ELSE ktxn[t]]
    IN /\ KvsIdle
       /\ fromContent # <<>>
       /\ fromContent' = Tail(fromContent)
       /\ \/ /\ m.op \in {"load", "store"}
             /\ objects' = [objects EXCEPT ![m.b] =
                               IF m.op = "load" /\ InCache(m.b) THEN @
                               ELSE IF m.ok THEN "valid" ELSE "none"]
             /\ ktxn' = Woken(~m.ok)
             /\ UNCHANGED <<kroot, kready, kanswer, toContent>>
          \/ /\ m.op = "flush" /\ m.ok
             /\ ktxn' = [ktxn EXCEPT ![m.t].st = "checkpoint"]
             /\ toContent' = Append(toContent, CheckpointOf(m.t))
             /\ UNCHANGED <<objects, kroot, kready, kanswer>>
          \/ /\ m.op = "put" \/ (m.op = "flush" /\ ~m.ok)
             /\ TxnEnd(m.t, m.ok)
             /\ UNCHANGED <<objects, toContent>>
       /\ UNCHANGED <<phase, lastSeq, content_side, budget>>

(* cache_expire_entries: what no transaction refers to is dropped *)
ExpireObjects ==
    LET held == UNION {{kroot[Namespace(t)].ref, ktxn[t].new} :
                         t \in {u \in KTxns : ktxn[u].st \in {"keys", "flush", "checkpoint"}}}
        S == {b \in KBlobs \ held : objects[b] = "valid"}
    IN /\ KvsIdle
       /\ S # {}
       /\ objects' = [b \in KBlobs |-> IF b \in S THEN "none" ELSE objects[b]]
       /\ UNCHANGED <<phase, kroot, kready, ktxn, kanswer, lastSeq, toContent, fromContent,
                      content_side, budget>>

-----------------------------------------------------------------------------
(* The content service *)

Writes == SelectSeq(writing, LAMBDA w : w.op = "store")

(* A store is written back, or listed while the batch is full. *)
ContentStore(b) ==
    /\ mem' = mem \cup {b}
    /\ IF b \in mem THEN UNCHANGED <<writing, dirtyList, dirtied>>
       ELSE /\ dirtied' = dirtied \cup {b}
            /\ IF Len(Writes) < DiskBatchLimit
               THEN writing' = Append(writing, [op |-> "store", b |-> b]) /\ UNCHANGED dirtyList
               ELSE dirtyList' = Append(dirtyList, b) /\ UNCHANGED writing

ContentRequest ==
    LET m == Head(toContent)
        Answer(ok) == fromContent' = Append(fromContent, m @@ [ok |-> ok])
    IN /\ phase # "down"
       /\ toContent # <<>>
       /\ toContent' = Tail(toContent)
       /\ \/ /\ m.op = "load"
             /\ Answer(m.b \in mem \cup stored)
             /\ mem' = IF m.b \in stored THEN mem \cup {m.b} ELSE mem
             /\ UNCHANGED <<writing, dirtyList, dirtied, flushers, budget>>
          \/ /\ m.op = "store"
             /\ \/ Answer(TRUE) /\ ContentStore(m.b) /\ UNCHANGED budget
                \/ /\ budget.refusals > 0
                   /\ Answer(FALSE)
                   /\ budget' = [budget EXCEPT !.refusals = @ - 1]
                   /\ UNCHANGED <<mem, writing, dirtyList, dirtied>>
             /\ UNCHANGED flushers
          \/ /\ m.op = "flush"
             /\ IF dirtied = {} \/ (flushErr /\ Writes = <<>>)
                THEN Answer(dirtied = {}) /\ UNCHANGED flushers
                ELSE flushers' = flushers \cup {m.t} /\ UNCHANGED fromContent
             /\ UNCHANGED <<mem, writing, dirtyList, dirtied, budget>>
          \/ /\ m.op = "put"
             /\ writing' = Append(writing, m)
             /\ UNCHANGED <<mem, dirtyList, dirtied, flushers, fromContent, budget>>
       /\ UNCHANGED <<phase, kvs_side, flushErr, stored, ckpt>>

(* Answers to the flush requests that wait *)
FlushAnswer(ok) ==
    /\ flushers' = {}
    /\ fromContent' = IF flushers = {} THEN fromContent ELSE
          fromContent \o SetToSeq({[op |-> "flush", t |-> t, ok |-> ok] : t \in flushers})

(* The backing store writes a blob, or refuses to; the next listed blob is   *)
(* taken up.                                                                 *)
BackingWrite ==
    LET m == Head(writing)
        refill == IF dirtyList = <<>> THEN Tail(writing)
                  ELSE Append(Tail(writing), [op |-> "store", b |-> Head(dirtyList)])
    IN /\ phase # "down"
       /\ writing # <<>> /\ m.op = "store"
       /\ writing' = refill
       /\ dirtyList' = IF dirtyList = <<>> THEN <<>> ELSE Tail(dirtyList)
       /\ \/ /\ stored' = stored \cup {m.b}
             /\ dirtied' = dirtied \ {m.b}
             /\ flushErr' = FALSE
             /\ IF dirtied' = {} THEN FlushAnswer(TRUE) ELSE UNCHANGED <<flushers, fromContent>>
             /\ UNCHANGED budget
          \/ /\ budget.faults > 0
             /\ budget' = [budget EXCEPT !.faults = @ - 1, !.failed = TRUE]
             /\ flushErr' = TRUE
             /\ FlushAnswer(FALSE)
             /\ UNCHANGED <<stored, dirtied>>
       /\ UNCHANGED <<phase, kvs_side, toContent, mem, ckpt>>

BackingCheckpoint ==
    LET m == Head(writing)
    IN /\ phase # "down"
       /\ writing # <<>> /\ m.op = "put"
       /\ writing' = Tail(writing)
       /\ ckpt' = [ref |-> m.ref, seq |-> m.seq]
       /\ fromContent' = IF phase = "up" THEN Append(fromContent, [op |-> "put", t |-> m.t, ok |-> TRUE])
                         ELSE fromContent
       /\ UNCHANGED <<phase, kvs_side, toContent, mem, dirtyList, dirtied, flushers, flushErr, stored,
                      budget>>

(* The content cache drops its clean blobs. *)
ContentDrop ==
    /\ phase # "down"
    /\ mem # dirtied
    /\ mem' = dirtied
    /\ UNCHANGED <<phase, kvs_side, toContent, fromContent, writing, dirtyList, dirtied, flushers,
                   flushErr, stored, ckpt, budget>>

-----------------------------------------------------------------------------
(* Exit, crash and restart *)

Unanswered(t) == kanswer[t] = "sent"

(* The end of mod_main: what has not completed gets ENOSYS, and the root is  *)
(* checkpointed.                                                             *)
KvsExit ==
    /\ KvsIdle
    /\ budget.exits > 0
    /\ budget' = [budget EXCEPT !.exits = @ - 1]
    /\ phase' = "leaving"
    /\ kanswer' = [t \in KTxns |-> IF Unanswered(t) THEN "err" ELSE kanswer[t]]
    /\ writing' = Append(writing, [op |-> "put", ref |-> kroot[Primary].ref, seq |-> kroot[Primary].seq])
    /\ ktxn' = [t \in KTxns |-> Fresh]
    /\ kready' = [n \in KNames |-> <<>>]
    /\ flushers' = {} /\ toContent' = <<>> /\ fromContent' = <<>>
    /\ UNCHANGED <<kroot, objects, lastSeq, mem, dirtyList, dirtied, flushErr, stored, ckpt>>

Lost ==
    /\ phase' = "down"
    /\ ktxn' = [t \in KTxns |-> Fresh]
    /\ kready' = [n \in KNames |-> <<>>]
    /\ mem' = {} /\ writing' = <<>> /\ dirtyList' = <<>> /\ dirtied' = {}
    /\ flushers' = {} /\ flushErr' = FALSE /\ toContent' = <<>> /\ fromContent' = <<>>
    /\ UNCHANGED <<kroot, objects, lastSeq, stored, ckpt>>

(* The instance stops once the content cache has been flushed (etc/rc3). *)
InstanceExit ==
    /\ phase = "leaving"
    /\ writing = <<>> /\ dirtied = {}
    /\ Lost
    /\ UNCHANGED <<kanswer, budget>>

KvsCrash ==
    /\ phase = "up"
    /\ budget.crashes > 0
    /\ budget' = [budget EXCEPT !.crashes = @ - 1]
    /\ kanswer' = [t \in KTxns |-> IF Unanswered(t) THEN "lost" ELSE kanswer[t]]
    /\ Lost

KvsRestart ==
    /\ phase = "down"
    /\ Started(ckpt, stored)
    /\ UNCHANGED <<ktxn, kanswer, budget>>

DurableWork ==
    \/ \E t \in KTxns : LoadRoot(t) \/ StoreObjects(t) \/ KeepRoot(t) \/ GenerateKeys(t) \/ Fails(t)
    \/ ContentResponse \/ ContentRequest \/ BackingWrite \/ BackingCheckpoint
    \/ InstanceExit \/ KvsRestart

DurableNext ==
    \/ DurableWork
    \/ \E t \in KTxns : CommitRequest(t)
    \/ CheckpointTimer \/ ExpireObjects \/ ContentDrop \/ KvsExit \/ KvsCrash

DurableSpec == (\E s \in DurableScenarios : DurableInit(s)) /\ [][DurableNext]_durable_vars
               /\ WF_durable_vars(DurableWork)

-----------------------------------------------------------------------------
(* Properties *)

(* flux-kvs(1): FLUX_KVS_SYNC "flush pending content and checkpoints": once  *)
(* a SYNC commit has been answered, its value is in the checkpointed root,   *)
(* and every object reachable from that root is on disk: no crash loses it.  *)
SyncDurable ==
    /\ \A t \in KTxns : (kanswer[t] = "ok" /\ TxOf[t].sync) =>
          ckpt.ref # NoRef /\ TxOf[t].val \in ckpt.ref
    /\ (ckpt.ref # NoRef /\ phase # "leaving") => Reach(ckpt.ref) \subseteq stored

(* What a published root refers to can be loaded from the content service by *)
(* any rank, whatever the caches have dropped since.                         *)
RootLoadable ==
    phase = "up" => \A n \in KNames : Reach(kroot[n].ref) \subseteq
        mem \cup stored \cup {b \in KBlobs : \E i \in DOMAIN toContent : toContent[i] = [op |-> "store", b |-> b]}

\* What was synced survives, and what the checkpoint names can be loaded.
DurableKept == SyncDurable /\ RootLoadable

(* Every commit is answered, whatever stops or restarts, and the checkpoint  *)
(* that the timer asked for is taken, unless the backing store refused a     *)
(* write.                                                                    *)
DurableSettles ==
    []<>(budget.failed \/
         /\ \A t \in KTxns : ~Unanswered(t)
         /\ (phase = "up" /\ lastSeq = kroot[Primary].seq /\ lastSeq > 0) => ckpt.seq = lastSeq)
=============================================================================
