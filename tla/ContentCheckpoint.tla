-------------------------- MODULE ContentCheckpoint -------------------------
(***************************************************************************)
(* The checkpoint service of rank 0 (src/modules/content/checkpoint.c): a  *)
(* value that is kept in a hash while no backing store is loaded, and put  *)
(* to the backing store and fetched from it while one is.  Values grow:    *)
(* the KVS checkpoints one version after the other, and waits for each.    *)
(***************************************************************************)
EXTENDS Naturals, Sequences, FiniteSets

CONSTANTS Puts,               \* the values that are put, a set of positive numbers
          Gets,               \* checkpoint-get requests
          CkScenarios         \* sets of [puts, gets, loads]

VARIABLES hash,       \* struct checkpoint_data [id, val, dirty, busy]; id 0: not there
          orphans,    \* ids of data that a flush holds after the hash has replaced it
          hashDirty,  \* hash_dirty
          ckBacking,  \* content_cache_backing_loaded
          ckModule,   \* the backing module: "out", "in", "leaving"
          ckDisk,     \* the value in the backing store
          ckTo, ckFrom,
          putAns,     \* [Puts -> "off", "idle", "sent", "ok", "err"]
          getAns,     \* [Gets -> [st, val, from]]; from: what was put when it was sent
          ckBudget    \* [loads, ids]

ck_vars == <<hash, orphans, hashDirty, ckBacking, ckModule, ckDisk, ckTo, ckFrom, putAns, getAns, ckBudget>>

CheckpointInit(s) ==
    /\ hash = [id |-> 0, val |-> 0, dirty |-> FALSE, busy |-> FALSE]
    /\ orphans = {} /\ hashDirty = 0
    /\ ckBacking = FALSE /\ ckModule = "out" /\ ckDisk = 0
    /\ ckTo = <<>> /\ ckFrom = <<>>
    /\ putAns = [v \in Puts |-> IF v \in s.puts THEN "idle" ELSE "off"]
    /\ getAns = [g \in Gets |-> [st |-> IF g \in s.gets THEN "idle" ELSE "off", val |-> 0, from |-> 0]]
    /\ ckBudget = [loads |-> s.loads, ids |-> 0]

(* checkpoint_data_update: the data replaced is freed, and no longer counts  *)
(* as dirty, unless a flush holds it.                                        *)
DataUpdate(v) ==
    /\ hash' = [id |-> ckBudget.ids + 1, val |-> v, dirty |-> TRUE, busy |-> FALSE]
    /\ orphans' = IF hash.busy THEN orphans \cup {hash.id} ELSE orphans
    /\ hashDirty' = hashDirty + 1 - IF hash.dirty /\ ~hash.busy THEN 1 ELSE 0
    /\ ckBudget' = [ckBudget EXCEPT !.ids = @ + 1]

(* A request for content-backing goes to the module or is refused. *)
ToBacking(m) ==
    IF ckModule = "out" THEN ckFrom' = Append(ckFrom, [m EXCEPT !.ok = FALSE]) /\ UNCHANGED ckTo
    ELSE ckTo' = Append(ckTo, m) /\ UNCHANGED ckFrom

CkMsg(op, who, v) == [op |-> op, who |-> who, val |-> v, ok |-> TRUE]

(* content_checkpoint_put_request *)
CheckpointPut(v) ==
    /\ putAns[v] = "idle" /\ \A u \in Puts : u < v => putAns[u] # "sent" /\ putAns[u] # "idle"
    /\ DataUpdate(v)
    /\ IF ckBacking
       THEN putAns' = [putAns EXCEPT ![v] = "sent"] /\ ToBacking(CkMsg("put", v, v))
       ELSE putAns' = [putAns EXCEPT ![v] = "ok"] /\ UNCHANGED <<ckTo, ckFrom>>
    /\ UNCHANGED <<ckBacking, ckModule, ckDisk, getAns>>

NewestPut == LET ok == {v \in Puts : putAns[v] = "ok"} IN
             IF ok = {} THEN 0 ELSE CHOOSE v \in ok : \A u \in ok : u <= v

(* content_checkpoint_get_request *)
CheckpointGet(g) ==
    /\ getAns[g].st = "idle"
    /\ IF ckBacking
       THEN /\ getAns' = [getAns EXCEPT ![g] = [st |-> "sent", val |-> 0, from |-> NewestPut]]
            /\ ToBacking(CkMsg("get", g, 0))
       ELSE /\ getAns' = [getAns EXCEPT ![g] = [st |-> IF hash.id = 0 THEN "err" ELSE "ok",
                                                val |-> hash.val, from |-> NewestPut]]
            /\ UNCHANGED <<ckTo, ckFrom>>
    /\ UNCHANGED <<hash, orphans, hashDirty, ckBacking, ckModule, ckDisk, putAns, ckBudget>>

(* checkpoint_flush_continuation, with checkpoint_data_decref *)
FlushDone(m) ==
    IF m.who \in orphans
    THEN orphans' = orphans \ {m.who} /\ hashDirty' = hashDirty - 1 /\ UNCHANGED hash
    ELSE /\ hash' = [hash EXCEPT !.busy = FALSE, !.dirty = @ /\ ~m.ok]
         /\ hashDirty' = IF m.ok THEN hashDirty - 1 ELSE hashDirty
         /\ UNCHANGED orphans

(* checkpoint_put_continuation, checkpoint_get_continuation (the value is    *)
(* kept, as if it had been put) and checkpoint_flush_continuation            *)
CheckpointResponse ==
    LET m == Head(ckFrom)
    IN /\ ckFrom # <<>> /\ m.op \in {"put", "get", "flush"}
       /\ ckFrom' = Tail(ckFrom)
       /\ \/ /\ m.op = "put"
             /\ putAns' = [putAns EXCEPT ![m.who] = IF m.ok THEN "ok" ELSE "err"]
             /\ UNCHANGED <<hash, orphans, hashDirty, getAns, ckBudget>>
          \/ /\ m.op = "get"
             /\ getAns' = [getAns EXCEPT ![m.who].st = IF m.ok THEN "ok" ELSE "err", ![m.who].val = m.val]
             /\ IF m.ok THEN DataUpdate(m.val) ELSE UNCHANGED <<hash, orphans, hashDirty, ckBudget>>
             /\ UNCHANGED putAns
          \/ m.op = "flush" /\ FlushDone(m) /\ UNCHANGED <<putAns, getAns, ckBudget>>
       /\ UNCHANGED <<ckBacking, ckModule, ckDisk, ckTo>>

(* The backing module loads and asks to be registered; at the end it asks to *)
(* be unregistered, and requests that it leaves behind are refused.          *)
CkModuleLoad ==
    /\ ckModule = "out" /\ ckBudget.loads > 0
    /\ ckBudget' = [ckBudget EXCEPT !.loads = @ - 1]
    /\ ckModule' = "in"
    /\ ckFrom' = Append(ckFrom, CkMsg("register", 0, 0))
    /\ UNCHANGED <<hash, orphans, hashDirty, ckBacking, ckDisk, ckTo, putAns, getAns>>

(* content_register_backing_request, with checkpoints_flush *)
CkRegister ==
    /\ ckFrom # <<>> /\ Head(ckFrom).op = "register"
    /\ ckFrom' = Tail(ckFrom)
    /\ ckBacking' = TRUE
    /\ IF hashDirty > 0 /\ hash.dirty /\ ~hash.busy
       THEN ckTo' = Append(ckTo, CkMsg("flush", hash.id, hash.val)) /\ hash' = [hash EXCEPT !.busy = TRUE]
       ELSE UNCHANGED <<ckTo, hash>>
    /\ UNCHANGED <<orphans, hashDirty, ckModule, ckDisk, putAns, getAns, ckBudget>>

CkModuleUnload ==
    /\ ckModule = "in" /\ ckBacking
    /\ ckModule' = "leaving"
    /\ ckFrom' = Append(ckFrom, CkMsg("unregister", 0, 0))
    /\ UNCHANGED <<hash, orphans, hashDirty, ckBacking, ckDisk, ckTo, putAns, getAns, ckBudget>>

CkUnregister ==
    /\ ckFrom # <<>> /\ Head(ckFrom).op = "unregister"
    /\ ckBacking' = FALSE
    /\ ckModule' = "out"
    /\ ckFrom' = Tail(ckFrom) \o [i \in DOMAIN ckTo |-> [ckTo[i] EXCEPT !.ok = FALSE]]
    /\ ckTo' = <<>>
    /\ UNCHANGED <<hash, orphans, hashDirty, ckDisk, putAns, getAns, ckBudget>>

(* checkpoint_get_cb and checkpoint_put_cb of the backing module *)
CkServe ==
    LET m == Head(ckTo)
    IN /\ ckModule = "in" /\ ckTo # <<>>
       /\ ckTo' = Tail(ckTo)
       /\ IF m.op = "get"
          THEN /\ ckFrom' = Append(ckFrom, [m EXCEPT !.ok = ckDisk > 0, !.val = ckDisk])
               /\ UNCHANGED ckDisk
          ELSE ckDisk' = m.val /\ ckFrom' = Append(ckFrom, m)
       /\ UNCHANGED <<hash, orphans, hashDirty, ckBacking, ckModule, putAns, getAns, ckBudget>>

CheckpointWork == CheckpointResponse \/ CkRegister \/ CkUnregister \/ CkServe

CheckpointNext ==
    \/ CheckpointWork \/ CkModuleLoad \/ CkModuleUnload
    \/ \E v \in Puts : CheckpointPut(v)
    \/ \E g \in Gets : CheckpointGet(g)

CheckpointSpec == (\E s \in CkScenarios : CheckpointInit(s)) /\ [][CheckpointNext]_ck_vars
                  /\ WF_ck_vars(CheckpointWork)

-----------------------------------------------------------------------------
(* Properties *)

(* "the latest checkpoint written to the content backing store" (flux-dump): *)
(* a get returns no older value than the newest put that had been answered   *)
(* when it was sent, though the backing store was loaded or unloaded         *)
(* meanwhile.                                                                *)
GetNewest == \A g \in Gets : getAns[g].st = "ok" => getAns[g].val >= getAns[g].from

(* Puts and gets are answered, and a checkpoint that was put before the      *)
(* backing store was loaded reaches it.                                      *)
CheckpointSettles ==
    []<>(/\ \A v \in Puts : putAns[v] # "sent"
         /\ \A g \in Gets : getAns[g].st # "sent"
         /\ ckModule = "in" => ckDisk >= NewestPut)
=============================================================================
