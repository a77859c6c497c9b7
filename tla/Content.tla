------------------------------ MODULE Content -------------------------------
(***************************************************************************)
(* The content service (src/modules/content): a write-back cache of blobs  *)
(* on rank 0 in front of a backing store module that comes and goes, a     *)
(* write-through cache on a rank below it, and files mapped into the cache *)
(* of rank 0.  A blob is named by its hash, so a blob is its own name.     *)
(*                                                                         *)
(* Each cache is a record c that a handler takes through its calls; the    *)
(* messages it sends and the answers it gives are collected in the record  *)
(* and leave with the step (Finish).  Messages between two parties stay in *)
(* order.                                                                  *)
(***************************************************************************)
EXTENDS Naturals, Sequences, FiniteSets, SequencesExt

CONSTANTS Blobs,
          Files, BlobOf,      \* [Files -> Blobs]: the blob in a file that may be mapped
          Clients, Ask,       \* [Clients -> [rank, op, blob]]: client requests
          Peer,               \* the cache of rank 1 as a client of rank 0
          NoFile,
          ContentScenarios,   \* sets of [ask, faults, loads, maps]: the requests that clients
                              \* send, how often a store fails and the backing module is
                              \* loaded, and which files are mapped
          FlushBatchLimit     \* flush_batch_limit

Levels == {0, 1}

VARIABLES cache,      \* [Levels -> struct content_cache]
          backing,    \* the flag of rank 0: a backing module is registered
          module,     \* the backing module: "out", "in" or "leaving"
          disk,       \* the blobs in the backing store
          net,        \* the queues up, down, toB and fromB between the parties
          mapped,     \* the files in the hash of tags
          mmcache,    \* [Blobs -> Files \cup {NoFile}]: mm->cache
          altered,    \* the mapped files whose content has changed
          ctold,       \* [Clients -> "off", "idle", "sent", "ok", "err"]
          owed,       \* history: [Clients -> the blobs a flush answers for]
          aborted,    \* an assertion has failed
          left        \* [faults, loads, maps]: what may still happen; failed and reloaded:
                      \* a store has failed, the module has been loaded twice

content_vars == <<cache, backing, module, disk, net, mapped, mmcache, altered, ctold, owed,
                  aborted, left>>

-----------------------------------------------------------------------------
(* The state of a cache *)

NoEntry == [st |-> "none", eph |-> FALSE, loading |-> FALSE, storing |-> FALSE,
            loads |-> {}, stores |-> {}, reg |-> NoFile]

(* ent: the hash of entries; flush: the list of dirties not being stored;   *)
(* waiters: flush_requests; errno: flush_errno is set.  The other fields    *)
(* are what the running handler sends.                                      *)
NewCache == [ent |-> [b \in Blobs |-> NoEntry], flush |-> <<>>, waiters |-> {}, errno |-> FALSE,
             out |-> <<>>, reply |-> <<>>, ok |-> {}, err |-> {}, assert |-> FALSE]

ContentInit(s) ==
    /\ cache = [r \in Levels |-> NewCache]
    /\ backing = FALSE
    /\ module = "out"
    /\ disk = {}
    /\ net = [up |-> <<>>, down |-> <<>>, toB |-> <<>>, fromB |-> <<>>]
    /\ mapped = {}
    /\ mmcache = [b \in Blobs |-> NoFile]
    /\ altered = {}
    /\ ctold = [q \in Clients |-> IF q \in s.ask THEN "idle" ELSE "off"]
    /\ owed = [q \in Clients |-> {}]
    /\ aborted = FALSE
    /\ left = [faults |-> s.faults, loads |-> s.loads, maps |-> s.maps,
               failed |-> FALSE, first |-> TRUE, reloaded |-> FALSE]

Valid(e) == e.st \in {"clean", "dirty"}

Dirties(c) == {b \in Blobs : c.ent[b].st = "dirty"}          \* acct_dirty

Storing(c) == {b \in Blobs : c.ent[b].storing}               \* flush_batch_count

(* request_list_respond_raw and request_list_respond_error *)
Respond(c, op, b, who, good) ==
    [c EXCEPT !.ok = IF good THEN @ \cup (who \ {Peer}) ELSE @,
              !.err = IF good THEN @ ELSE @ \cup (who \ {Peer}),
              !.reply = IF Peer \in who
                        THEN Append(@, [op |-> op, b |-> b, good |-> good, eph |-> c.ent[b].eph])
                        ELSE @]

(* cache_entry_remove of the blobs of S, with its assertions *)
EntryRemove(c, S) ==
    IF \E b \in S : LET e == c.ent[b] IN e.loads # {} \/ e.stores # {} \/ e.st = "dirty"
    THEN [c EXCEPT !.assert = TRUE]
    ELSE [c EXCEPT !.ent = [b \in Blobs |-> IF b \in S THEN NoEntry ELSE @[b]]]

(* flush_list_append *)
FlushAppend(c, b) == [c EXCEPT !.flush = Append(SelectSeq(@, LAMBDA x : x # b), b)]

(* cache_store *)
CacheStore(c, r, b) ==
    IF c.ent[b].storing THEN c
    ELSE IF r = 0 /\ Cardinality(Storing(c)) >= FlushBatchLimit THEN FlushAppend(c, b)
    ELSE [c EXCEPT !.ent[b].storing = TRUE, !.out = Append(@, [op |-> "store", b |-> b])]

(* cache_flush: entries of the flush list are stored up to the batch limit. *)
CacheFlush(c, r) ==
    FoldLeft(LAMBDA d, b :
                IF Cardinality(Storing(d)) >= FlushBatchLimit THEN [d EXCEPT !.flush = Append(@, b)]
                ELSE CacheStore(d, r, b),
             [c EXCEPT !.flush = <<>>], c.flush)

(* flush_respond *)
FlushRespond(c) ==
    IF Dirties(c) = {} THEN [c EXCEPT !.ok = @ \cup c.waiters, !.waiters = {}]
    ELSE [c EXCEPT !.err = @ \cup c.waiters, !.waiters = {}]

(* cache_resume_flush *)
ResumeFlush(c, r) ==
    IF Dirties(c) = {} \/ (r = 0 /\ ~backing) THEN FlushRespond(c) ELSE CacheFlush(c, r)

(* cache_load *)
CacheLoad(c, b) ==
    IF c.ent[b].loading THEN c
    ELSE [c EXCEPT !.ent[b].loading = TRUE, !.out = Append(@, [op |-> "load", b |-> b])]

-----------------------------------------------------------------------------
(* Requests and responses *)

(* content_load_request: the blob is cached, mapped, asked for upstream or   *)
(* of the backing store, or not there.                                      *)
LoadEntry(c, r, b) ==
    IF c.ent[b].st # "none" THEN c
    ELSE IF r = 0 /\ mmcache[b] # NoFile
    THEN [c EXCEPT !.ent[b] = [NoEntry EXCEPT !.st = "clean", !.eph = TRUE, !.reg = mmcache[b]]]
    ELSE IF r = 0 /\ ~backing THEN c
    ELSE [c EXCEPT !.ent[b].st = "invalid"]

LoadRequest(c, r, b, q) ==
    LET d == LoadEntry(c, r, b)
        e == d.ent[b]
    IN IF e.st = "none" THEN Respond(d, "load", b, {q}, FALSE)
       ELSE IF e.st = "invalid" THEN [CacheLoad(d, b) EXCEPT !.ent[b].loads = @ \cup {q}]
       ELSE Respond(d, "load", b, {q}, e.reg = NoFile \/ e.reg \notin altered)

(* Mutant: an ephemeral entry is taken for a stored one. *)
StoreEntryEphemeral(c, b) == c

(* content_store_request: an entry that is only mapped is replaced *)
StoreEntry(c, b) == IF c.ent[b].eph THEN EntryRemove(c, {b}) ELSE c

(* an entry that is not valid is filled, and answers the loads that wait,    *)
Fill(c, b) ==
    IF Valid(c.ent[b]) THEN c
    ELSE LET d == [c EXCEPT !.ent[b].st = "dirty"]
         IN [Respond(d, "load", b, d.ent[b].loads, TRUE) EXCEPT !.ent[b].loads = {}]

(* and a dirty one is written through (rank 1) or back (rank 0).             *)
StoreRequest(c, r, b, q) ==
    LET d == Fill(StoreEntry(c, b), b)
    IN IF d.ent[b].st = "dirty" /\ r > 0
       THEN [CacheStore(d, r, b) EXCEPT !.ent[b].stores = @ \cup {q}]
       ELSE IF d.ent[b].st = "dirty"
       THEN Respond(IF backing THEN CacheStore(d, r, b) ELSE FlushAppend(d, b), "store", b, {q}, TRUE)
       ELSE Respond(d, "store", b, {q}, TRUE)

(* content_flush_request *)
FlushRequest(c, r, q) ==
    IF r = 0 /\ ~backing THEN [c EXCEPT !.err = @ \cup {q}]
    ELSE IF Dirties(c) = {} THEN [c EXCEPT !.ok = @ \cup {q}]
    ELSE LET d == CacheFlush(c, r)
         IN IF Storing(d) = {} /\ d.errno THEN [d EXCEPT !.err = @ \cup {q}]
            ELSE [d EXCEPT !.waiters = @ \cup {q}]

(* Mutant: local requests that wait for a load that fails are forgotten. *)
LoadDoneSilent(c, m) ==
    LET d == [c EXCEPT !.ent[m.b].loading = FALSE, !.ent[m.b].loads = {}]
        loads == c.ent[m.b].loads
    IN IF ~m.good THEN EntryRemove(Respond(d, "load", m.b, loads \cap {Peer}, FALSE), {m.b})
       ELSE IF Valid(d.ent[m.b]) THEN d
       ELSE Respond([d EXCEPT !.ent[m.b].st = "clean", !.ent[m.b].eph = m.eph], "load", m.b, loads, TRUE)

(* cache_load_continuation: a store may have filled the entry meanwhile.     *)
LoadDone(c, m) ==
    LET d == [c EXCEPT !.ent[m.b].loading = FALSE]
        e == d.ent[m.b]
    IN IF ~m.good
       THEN EntryRemove([Respond(d, "load", m.b, e.loads, FALSE) EXCEPT !.ent[m.b].loads = {}], {m.b})
       ELSE IF Valid(e) THEN d
       ELSE [Respond([d EXCEPT !.ent[m.b].st = "clean", !.ent[m.b].eph = m.eph],
                     "load", m.b, e.loads, TRUE) EXCEPT !.ent[m.b].loads = {}]

(* cache_store_continuation: a store that failed answers the requests for    *)
(* it and every flush request, and its entry stays dirty.                    *)
StoreDone(c, r, m) ==
    LET e == c.ent[m.b]
        d == [c EXCEPT !.ent[m.b].storing = FALSE, !.ent[m.b].stores = {}]
        dirty_clear == [Respond(d, "store", m.b, e.stores, TRUE) EXCEPT
                          !.ent[m.b].st = "clean", !.errno = FALSE]
        failed == [Respond(d, "store", m.b, e.stores, FALSE) EXCEPT
                          !.err = @ \cup c.waiters, !.waiters = {}, !.errno = TRUE]
    IN ResumeFlush(IF m.good THEN dirty_clear ELSE failed, r)

-----------------------------------------------------------------------------
(* Steps *)

(* A region that is not mapped and that no entry refers to is freed, and its *)
(* hashes with it (content_mmap_region_decref).                              *)
RegionRemove(mm, files, c) ==
    [b \in Blobs |-> IF mm[b] \notin files /\ \A x \in Blobs : c.ent[x].reg # mm[b]
                     THEN NoFile ELSE mm[b]]

(* The broker answers for a backing module that is not there. *)
NoService(msgs) == [i \in DOMAIN msgs |->
                      [op |-> msgs[i].op, b |-> msgs[i].b, good |-> FALSE, eph |-> FALSE]]

(* A handler at rank r has left its cache as c and the queues as n: its      *)
(* messages go out, clients are told, and those of S that are not have to    *)
(* wait.                                                                     *)
Finish(r, done, n, S) == \E c \in {done} :
    /\ cache' = [cache EXCEPT ![r] = [c EXCEPT !.out = <<>>, !.reply = <<>>, !.ok = {}, !.err = {}]]
    /\ aborted' = c.assert
    /\ ctold' = [q \in Clients |-> IF q \in c.ok THEN "ok" ELSE IF q \in c.err THEN "err"
                                  ELSE IF q \in S THEN "sent" ELSE ctold[q]]
    /\ mmcache' = IF r = 0 THEN RegionRemove(mmcache, mapped, c) ELSE mmcache
    /\ net' = IF r = 1 THEN [n EXCEPT !.up = @ \o c.out]
              ELSE IF module = "out"
              THEN [n EXCEPT !.down = @ \o c.reply, !.fromB = @ \o NoService(c.out)]
              ELSE [n EXCEPT !.down = @ \o c.reply, !.toB = @ \o c.out]

(* A client's request arrives. *)
Handled(q, c) ==
    LET r == Ask[q].rank
    IN CASE Ask[q].op = "load" -> LoadRequest(c, r, Ask[q].blob, q)
         [] Ask[q].op = "store" -> StoreRequest(c, r, Ask[q].blob, q)
         [] Ask[q].op = "flush" -> FlushRequest(c, r, q)

CacheRequest(q) ==
    LET r == Ask[q].rank
        c == Handled(q, cache[r])
    IN /\ ~aborted
       /\ ctold[q] = "idle"
       /\ Finish(r, c, net, {q})
       /\ owed' = IF Ask[q].op = "flush" THEN [owed EXCEPT ![q] = Dirties(cache[r])] ELSE owed
       /\ UNCHANGED <<backing, module, disk, mapped, altered, left>>

(* Rank 0 handles a request from rank 1. *)
UpRequest ==
    /\ ~aborted
    /\ net.up # <<>>
    /\ LET m == Head(net.up)
       IN Finish(0, IF m.op = "load" THEN LoadRequest(cache[0], 0, m.b, Peer)
                    ELSE StoreRequest(cache[0], 0, m.b, Peer), [net EXCEPT !.up = Tail(@)], {})
    /\ UNCHANGED <<backing, module, disk, mapped, altered, owed, left>>

(* Rank 1 handles a response from rank 0. *)
DownResponse ==
    /\ ~aborted
    /\ net.down # <<>>
    /\ LET m == Head(net.down)
       IN Finish(1, IF m.op = "load" THEN LoadDone(cache[1], m) ELSE StoreDone(cache[1], 1, m),
                 [net EXCEPT !.down = Tail(@)], {})
    /\ UNCHANGED <<backing, module, disk, mapped, altered, owed, left>>

(* Rank 0 handles a response of the backing module or of the broker for it. *)
BackingResponse ==
    /\ ~aborted
    /\ net.fromB # <<>>
    /\ LET m == Head(net.fromB)
       IN /\ m.op \in {"load", "store"}
          /\ Finish(0, IF m.op = "load" THEN LoadDone(cache[0], m) ELSE StoreDone(cache[0], 0, m),
                    [net EXCEPT !.fromB = Tail(@)], {})
    /\ UNCHANGED <<backing, module, disk, mapped, altered, owed, left>>

(* content_dropcache_request and cache_purge: clean entries are dropped. *)
Purge(r) ==
    /\ ~aborted
    /\ \E S \in SUBSET {b \in Blobs : cache[r].ent[b].st = "clean"} :
        /\ S # {}
        /\ Finish(r, EntryRemove(cache[r], S), net, {})
    /\ UNCHANGED <<backing, module, disk, mapped, altered, owed, left>>

-----------------------------------------------------------------------------
(* The backing module *)

(* mod_main of the backing module, up to its register-backing request *)
ModuleLoad ==
    /\ ~aborted
    /\ module = "out" /\ left.loads > 0
    /\ module' = "in"
    /\ left' = [left EXCEPT !.loads = @ - 1, !.first = FALSE, !.reloaded = ~left.first]
    /\ net' = [net EXCEPT !.fromB = Append(@, [op |-> "register"])]
    /\ UNCHANGED <<cache, backing, disk, mapped, mmcache, altered, ctold, owed, aborted>>

(* content_register_backing_request *)
Register ==
    /\ ~aborted
    /\ net.fromB # <<>> /\ Head(net.fromB).op = "register"
    /\ backing' = TRUE
    /\ Finish(0, CacheFlush(cache[0], 0), [net EXCEPT !.fromB = Tail(@)], {})
    /\ UNCHANGED <<module, disk, mapped, altered, owed, left>>

(* The module leaves its reactor and asks to be unregistered. *)
ModuleUnload ==
    /\ ~aborted
    /\ module = "in" /\ backing
    /\ module' = "leaving"
    /\ net' = [net EXCEPT !.fromB = Append(@, [op |-> "unregister"])]
    /\ UNCHANGED <<cache, backing, disk, mapped, mmcache, altered, ctold, owed, aborted, left>>

(* content_unregister_backing_request; the module is then gone, and the      *)
(* broker answers the requests it had not taken.                             *)
Unregister ==
    /\ ~aborted
    /\ net.fromB # <<>> /\ Head(net.fromB).op = "unregister"
    /\ backing' = FALSE
    /\ module' = "out"
    /\ Finish(0, [cache[0] EXCEPT !.err = cache[0].waiters, !.waiters = {}],
              [net EXCEPT !.fromB = Tail(@) \o NoService(net.toB), !.toB = <<>>], {})
    /\ UNCHANGED <<disk, mapped, altered, owed, left>>

(* load_cb and store_cb of the backing module; a store may fail. *)
BackingServe ==
    /\ ~aborted
    /\ module = "in" /\ backing /\ net.toB # <<>>
    /\ LET m == Head(net.toB)
           Reply(good) == net' = [net EXCEPT !.toB = Tail(@), !.fromB =
                              Append(@, [op |-> m.op, b |-> m.b, good |-> good, eph |-> FALSE])]
       IN \/ m.op = "load" /\ Reply(m.b \in disk) /\ UNCHANGED <<disk, left>>
          \/ m.op = "store" /\ Reply(TRUE) /\ disk' = disk \cup {m.b} /\ UNCHANGED left
          \/ /\ m.op = "store" /\ left.faults > 0
             /\ Reply(FALSE)
             /\ left' = [left EXCEPT !.faults = @ - 1, !.failed = TRUE]
             /\ UNCHANGED disk
    /\ UNCHANGED <<cache, backing, module, mapped, mmcache, altered, ctold, owed, aborted>>

-----------------------------------------------------------------------------
(* Mapped files *)

(* region_cache_add: a hash that is already there is left alone. *)
RegionAdd(mm, F) ==
    [b \in Blobs |-> IF mm[b] = NoFile /\ \E f \in F : BlobOf[f] = b
                     THEN CHOOSE f \in F : BlobOf[f] = b ELSE mm[b]]

(* content_mmap_add_cb; each file is mapped once. *)
MmapAdd(f) ==
    /\ ~aborted
    /\ f \in left.maps
    /\ left' = [left EXCEPT !.maps = @ \ {f}]
    /\ mapped' = mapped \cup {f}
    /\ mmcache' = RegionAdd(mmcache, {f})
    /\ UNCHANGED <<cache, backing, module, disk, net, altered, ctold, owed, aborted>>

(* content_mmap_remove_cb, with plug_cache_holes *)
MmapRemove(f) ==
    /\ ~aborted
    /\ f \in mapped
    /\ mapped' = mapped \ {f}
    /\ mmcache' = RegionAdd(RegionRemove(mmcache, mapped', cache[0]), mapped')
    /\ UNCHANGED <<cache, backing, module, disk, net, altered, ctold, owed, aborted, left>>

(* Somebody writes to a mapped file. *)
FileChange(f) ==
    /\ ~aborted
    /\ f \in mapped \ altered
    /\ altered' = altered \cup {f}
    /\ UNCHANGED <<cache, backing, module, disk, net, mapped, mmcache, ctold, owed, aborted, left>>

ContentWork == UpRequest \/ DownResponse \/ BackingResponse \/ BackingServe \/ Register \/ Unregister

ContentNext ==
    \/ ContentWork
    \/ \E q \in Clients : CacheRequest(q)
    \/ \E r \in Levels : Purge(r)
    \/ ModuleLoad \/ ModuleUnload
    \/ \E f \in Files : MmapAdd(f) \/ MmapRemove(f) \/ FileChange(f)

(* Messages are handled. *)
ContentFairness == WF_content_vars(ContentWork)

ContentSpec == (\E s \in ContentScenarios : ContentInit(s)) /\ [][ContentNext]_content_vars /\ ContentFairness

-----------------------------------------------------------------------------
(* Properties *)

(* "after a store RPC returns, the entry may be loaded from any rank"        *)
(* (cache.c): a blob whose store was answered with success, at either rank,  *)
(* is in the cache of rank 0 as more than a mapped file, or on disk; and an  *)
(* entry that rank 0 may drop, because it is clean, is on disk.              *)
StoredIsKept ==
    /\ \A q \in Clients : (Ask[q].op = "store" /\ ctold[q] = "ok") =>
        LET b == Ask[q].blob
        IN b \in disk \/ (Valid(cache[0].ent[b]) /\ ~cache[0].ent[b].eph)
    /\ \A b \in Blobs : (cache[0].ent[b].st = "clean" /\ ~cache[0].ent[b].eph) => b \in disk

(* A flush that succeeds on rank 0 tells the truth: what was dirty when it   *)
(* was asked for is in the backing store, whatever was stored, refused or    *)
(* unloaded meanwhile; on rank 1, it has reached rank 0.                     *)
FlushTrue ==
    \A q \in Clients : (Ask[q].op = "flush" /\ ctold[q] = "ok") =>
        \A b \in owed[q] : b \in disk \/ (Ask[q].rank = 1 /\ Valid(cache[0].ent[b]))

\* What was acknowledged is kept, and a flush says the truth.
ContentKept == StoredIsKept /\ FlushTrue

(* Loads and stores are answered, whether the backing module answers,        *)
(* refuses or leaves; so are flushes, unless a store was refused or the      *)
(* module left before.                                                       *)
ContentAnswers ==
    []<>(aborted \/ \A q \in Clients : ctold[q] = "sent" =>
            Ask[q].op = "flush" /\ (left.failed \/ left.reloaded))

(* The assertions of cache_entry_remove: "assert (!e->dirty)" (cache.c:319). *)
AssertsHold == ~aborted

(* "If there is a problem with the backing store, we must return error here" *)
(* (content_flush_request, cache.c:923): every flush request is answered.    *)
FlushAnswers == []<>(\A q \in Clients : Ask[q].op = "flush" => ctold[q] # "sent")

(* Unmapping walks the tags to "restore any missing cache entries"           *)
(* (mmap.c:40): the blob of a mapped file is found.                          *)
MappedFound == \A f \in mapped : mmcache[BlobOf[f]] # NoFile
=============================================================================
