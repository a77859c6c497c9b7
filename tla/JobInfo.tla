------------------------------ MODULE JobInfo ------------------------------
(***************************************************************************)
(* The job-info module (src/modules/job-info): clients follow the main     *)
(* eventlog of a job (watch.c), an eventlog of its guest namespace, which  *)
(* is created, removed and copied to the main namespace while they do      *)
(* (guest_watch.c), or the job's R or jobspec as it is updated (update.c). *)
(*                                                                         *)
(* guest_watch.c and update.c send requests to the module itself: self is  *)
(* the queue of these requests and of the responses to them.  The KVS and  *)
(* kvs-watch answer in their own time; the job is a sequence of steps of   *)
(* the job manager and of job-exec (see JobExec).                          *)
(***************************************************************************)
EXTENDS Integers, Sequences, FiniteSets, SequencesExt

CONSTANTS InfoClients,   \* [id -> [kind, role, wait]]: kind is "main", "guest", "update" or
                         \* "current" (a lookup with FLUX_JOB_LOOKUP_CURRENT),
                         \* role "owner" (of the instance), "user" (of the job) or "other",
                         \* wait the flag FLUX_JOB_EVENT_WATCH_WAITCREATE
          InfoScenarios  \* sets of [job, asks, cancels, leaves, evicts, unloads]: the steps of
                         \* the job, the clients that ask, cancel and disconnect

VARIABLES ji,     \* struct info_ctx: [w, g, u, gen, self, look, kv, kin, lru, up]
          iout,   \* [clients -> Seq]: the responses of each client
          jb,     \* [log, ns, guest, copy]: the job in the KVS
          ihist,  \* history: [rejoined, twice, floor]
          ileft   \* what may still happen

info_vars == <<ji, iout, jb, ihist, ileft>>

-----------------------------------------------------------------------------
(* Requests are named by client and purpose: a watch by a client ("self"),  *)
(* by guest_watch.c ("wait", "watch") or by update.c (its generation);      *)
(* lookups by a client ("current"), guest_watch.c ("log", "main") and       *)
(* update.c ("look").  look holds those sent to the KVS: [w, allow].        *)
Asking == DOMAIN InfoClients
Generations == <<"1", "2", "3">>
WatchIds == (Asking \X {"self", "wait", "watch"}) \cup ({"uc"} \X Range(Generations))
Role(w) == IF w[1] = "uc" THEN "owner" ELSE InfoClients[w[1]].role
IsGuest(w) == w[2] = "watch"
WaitCreate(w) == w[2] \in {"self", "watch"} /\ InfoClients[w[1]].wait

Event(i) == [v |-> i, e |-> "none"]
Error(e) == [v |-> 0, e |-> e]

NoCtx == [st |-> "none", canceled |-> FALSE, cancel |-> FALSE, allow |-> FALSE, sent |-> 0]
NoStream == [on |-> FALSE, pos |-> 0, stop |-> FALSE]
NoGuest == [st |-> "none", canceled |-> FALSE, cancel |-> FALSE, started |-> FALSE, offset |-> 0]
NoUpdate == [st |-> "none", list |-> <<>>, obj |-> -1, initial |-> 0, seen |-> 0, canceled |-> FALSE]

InfoInit(s) ==
    /\ ji = [w |-> [w \in WatchIds |-> NoCtx], g |-> [c \in Asking |-> NoGuest],
             u |-> NoUpdate, gen |-> 1, self |-> <<>>, look |-> {}, kv |-> [w \in WatchIds |-> NoStream],
             kin |-> [w \in WatchIds |-> <<>>], lru |-> FALSE, up |-> TRUE]
    /\ iout = [c \in Asking |-> <<>>]
    /\ jb = [log |-> <<>>, ns |-> "none", guest |-> 0, copy |-> -1]
    /\ ihist = [rejoined |-> {}, twice |-> {}, floor |-> [c \in Asking |-> 0]]
    /\ ileft = [job |-> s.job, asks |-> s.asks, cancels |-> s.cancels, leaves |-> s.leaves,
                evicts |-> s.evicts, unloads |-> s.unloads, asked |-> {}, ended |-> {}]

(* A handler takes the module and the responses of the clients through its  *)
(* calls.                                                                   *)
Info == [m |-> ji, out |-> iout, h |-> ihist]
InfoDone(new) == \E x \in {new} : ji' = x.m /\ iout' = x.out /\ ihist' = x.h

(* Names of the events l[1] .. l[n]. *)
Seen(n) == {jb.log[i] : i \in 1 .. n}
Updates(n) == Cardinality({i \in 1 .. n : jb.log[i] = "update"})

TellClient(x, c, m) == [x EXCEPT !.out[c] = Append(@, m)]
SendSelf(x, t, w, m) == [x EXCEPT !.m.self = Append(@, [t |-> t, w |-> w, m |-> m])]
Ask(x, t, w) == SendSelf(x, t, w, Error("none"))
Generation(x) == <<"uc", Generations[x.m.gen]>>

-----------------------------------------------------------------------------
(* watch.c *)

Answer(x, w, m) ==
    IF w[2] \in {"self", "current"} THEN TellClient(x, w[1], m) ELSE SendSelf(x, "rsp", w, m)
Tells(x, w, ms) ==
    IF w[2] = "self" THEN [x EXCEPT !.out[w[1]] = @ \o ms]
    ELSE [x EXCEPT !.m.self = @ \o [i \in DOMAIN ms |-> [t |-> "rsp", w |-> w, m |-> ms[i]]]]

(* zlist_remove: the future goes with the watch. *)
WatchDestroy(x, w) ==
    [x EXCEPT !.m.w[w] = NoCtx, !.m.kv[w] = NoStream, !.m.kin[w] = <<>>,
              !.m.look = {l \in @ : l.w # w}]

WatchError(x, w, e) == WatchDestroy(Answer(x, w, Error(e)), w)

WatchKey(x, w) ==
    [x EXCEPT !.m.w[w].st = "watch", !.m.kv[w] = [NoStream EXCEPT !.on = TRUE]]

CheckEventlog(x, w) == [x EXCEPT !.m.w[w].st = "check",
                                   !.m.look = @ \cup {[w |-> w, allow |-> FALSE]}]

(* eventlog_allow_lru: the owner of the job is known, and the client is not *)
(* allowed to read it.                                                      *)
Denied(x, w) == x.m.lru /\ Role(w) = "other"

Watch(x, w) ==
    LET allow == Role(w) = "owner" \/ (x.m.lru /\ Role(w) = "user")
        y == [x EXCEPT !.m.w[w] = [NoCtx EXCEPT !.allow = allow]]
    IN IF Denied(x, w) THEN Answer(x, w, Error("EPERM"))
       ELSE IF IsGuest(w) /\ ~allow THEN CheckEventlog(y, w) ELSE WatchKey(y, w)

Allowed(x, w) == [x EXCEPT !.m.lru = TRUE, !.m.w[w].allow = TRUE]

CheckContinuation(x, w, found) ==
    IF ~found THEN WatchError(x, w, "ENOENT")
    ELSE IF Role(w) = "other" THEN WatchError([x EXCEPT !.m.lru = TRUE], w, "EPERM")
    ELSE IF x.m.w[w].canceled
    THEN WatchDestroy(IF x.m.w[w].cancel THEN Answer(Allowed(x, w), w, Error("ENODATA")) ELSE Allowed(x, w), w)
    ELSE WatchKey(Allowed(x, w), w)

(* The events of a response; "when watching the main job eventlog, we       *)
(* return ENODATA back to the user when the eventlog has reached the end".  *)
SendEvents(x, w, upto) ==
    LET from == x.m.w[w].sent
        ends == {i \in from + 1 .. upto : ~IsGuest(w) /\ jb.log[i] = "clean"}
        last == IF ends = {} THEN upto ELSE CHOOSE i \in ends : TRUE
        y == Tells(x, w, [i \in 1 .. last - from |-> Event(from + i)])
    IN IF ends = {} THEN [y EXCEPT !.m.w[w].sent = last] ELSE WatchError(y, w, "ENODATA")

WatchContinuation(x, w, m) ==
    LET ctx == x.m.w[w]
    IN IF m.e # "none"
       THEN IF m.e = "ENODATA" /\ ctx.canceled /\ ~ctx.cancel THEN WatchDestroy(x, w)
            ELSE WatchError(x, w, m.e)
       ELSE IF ctx.canceled THEN IF ctx.cancel THEN WatchError(x, w, "ENODATA") ELSE WatchDestroy(x, w)
       ELSE IF ~ctx.allow /\ Role(w) = "other" THEN WatchError([x EXCEPT !.m.lru = TRUE], w, "EPERM")
       ELSE SendEvents(IF ctx.allow THEN x ELSE Allowed(x, w), w, m.v)

(* send_kvs_watch_cancel *)
KvsWatchCancel(x, w, cancel) ==
    IF x.m.w[w].st = "none" THEN x
    ELSE [x EXCEPT !.m.w[w].canceled = TRUE, !.m.w[w].cancel = cancel,
                   !.m.kv[w].stop = x.m.kv[w].on]

-----------------------------------------------------------------------------
(* guest_watch.c *)

GuestDestroy(x, c) == [x EXCEPT !.m.g[c] = [NoGuest EXCEPT !.st = "gone"]]
GuestError(x, c, e) == GuestDestroy(TellClient(x, c, Error(e)), c)

(* A stream that was canceled ends with ENODATA, that of a client that is   *)
(* gone without a word.                                                     *)
GuestCanceled(x, c) == IF x.m.g[c].cancel THEN GuestError(x, c, "ENODATA") ELSE GuestDestroy(x, c)

GuestWatch(x, c) == Ask([x EXCEPT !.m.g[c].st = "lookup"], "lookup", <<c, "log">>)
WaitGuestNamespace(x, c) == Ask([x EXCEPT !.m.g[c].st = "wait"], "watch", <<c, "wait">>)
GuestNamespaceWatch(x, c) == Ask([x EXCEPT !.m.g[c].st = "watch"], "watch", <<c, "watch">>)
MainNamespaceLookup(x, c) == Ask([x EXCEPT !.m.g[c].st = "main"], "lookup", <<c, "main">>)

GetMainEventlogContinuation(x, c, m) ==
    IF m.e # "none" THEN GuestError(x, c, m.e)
    ELSE IF x.m.g[c].canceled THEN GuestCanceled(x, c)
    ELSE IF "release" \in Seen(m.v) THEN MainNamespaceLookup(x, c)
    ELSE IF "start" \in Seen(m.v) THEN GuestNamespaceWatch([x EXCEPT !.m.g[c].started = TRUE], c)
    ELSE WaitGuestNamespace(x, c)

(* Once the job has started the watch of the main eventlog is canceled, and *)
(* its end begins the watch of the guest namespace.                         *)
WaitGuestNamespaceContinuation(x, c, m) ==
    LET gw == x.m.g[c]
        y == [x EXCEPT !.m.g[c].started = @ \/ jb.log[m.v] = "start"]
    IN IF m.e # "none"
       THEN IF m.e # "ENODATA" \/ ~gw.started THEN GuestError(x, c, m.e)
            ELSE IF gw.canceled THEN GuestCanceled(x, c)
            ELSE GuestNamespaceWatch(x, c)
       ELSE IF gw.canceled THEN GuestCanceled(x, c)
       ELSE IF y.m.g[c].started THEN Ask(y, "cancel", <<c, "wait">>) ELSE y

(* Mutant: what was sent from the guest namespace is not counted. *)
GuestEventUncounted(x, c, m) == TellClient(x, c, m)

GuestEvent(x, c, m) == [TellClient(x, c, m) EXCEPT !.m.g[c].offset = @ + 1]

(* "The fallthrough to the primary KVS namespace fixes two racy scenarios": *)
(* the namespace was removed before it was watched, or its last events were *)
(* missed as it was removed.                                                *)
GuestNamespaceWatchContinuation(x, c, m) ==
    IF m.e = "ENOTSUP" THEN IF x.m.g[c].canceled THEN GuestCanceled(x, c) ELSE MainNamespaceLookup(x, c)
    ELSE IF m.e # "none" THEN GuestError(x, c, m.e)
    ELSE IF x.m.g[c].canceled THEN GuestCanceled(x, c)
    ELSE GuestEvent(x, c, m)

(* A lookup that fails is reported though the client canceled and was told  *)
(* so (twice).                                                              *)
MainNamespaceLookupContinuation(x, c, m) ==
    LET gw == x.m.g[c]
        y == [x EXCEPT !.out[c] = @ \o [i \in 1 .. m.v - gw.offset |-> Event(gw.offset + i)]]
    IN IF m.e # "none"
       THEN GuestError([x EXCEPT !.h.twice = IF gw.cancel THEN @ \cup {c} ELSE @], c, m.e)
       ELSE IF gw.canceled THEN GuestDestroy(x, c)
       ELSE GuestError(y, c, "ENODATA")

(* send_eventlog_watch_cancel *)
GuestWatchCancel(x, c, cancel) ==
    LET gw == x.m.g[c]
        y == [x EXCEPT !.m.g[c].cancel = cancel, !.m.g[c].canceled = TRUE]
    IN IF gw.canceled \/ gw.st \in {"none", "gone"} THEN x
       ELSE IF gw.st \in {"wait", "watch"} THEN Ask(y, "cancel", <<c, gw.st>>)
       ELSE IF gw.st = "main" /\ cancel THEN TellClient(y, c, Error("ENODATA"))
       ELSE y

-----------------------------------------------------------------------------
(* update.c: one update_ctx serves all the clients of a job and key *)

TellAll(x, m) ==
    [x EXCEPT !.out = [c \in Asking |-> IF c \in Range(x.m.u.list) THEN Append(@[c], m) ELSE @[c]]]

UpdateDestroy(x) == [x EXCEPT !.m.u = NoUpdate, !.m.gen = @ + 1]
UpdateError(x, e) == UpdateDestroy(TellAll(x, Error(e)))

UpdateWatch(x, c) ==
    LET u == x.m.u
        y == [x EXCEPT !.m.u.list = Append(@, c),
                       !.h.rejoined = IF u.canceled THEN @ \cup {c} ELSE @]
    IN IF u.st = "none"
       THEN Ask([x EXCEPT !.m.u = [NoUpdate EXCEPT !.st = "lookup", !.list = <<c>>]],
                "lookup", <<"uc", "look">>)
       ELSE IF u.obj = -1 THEN y
       ELSE IF InfoClients[c].role = "other" THEN TellClient(x, c, Error("EPERM"))
       ELSE TellClient(y, c, Event(u.obj))

(* lookup_continuation: the object with the updates so far, to each client  *)
(* that may read it.                                                        *)
LookupContinuation(x, m) ==
    LET n == Updates(m.v)
        barred == {c \in Range(x.m.u.list) : InfoClients[c].role = "other"}
        y == [x EXCEPT !.m.u.obj = n, !.m.u.initial = n,
                       !.m.u.list = SelectSeq(@, LAMBDA c : c \notin barred),
                       !.out = [c \in Asking |-> IF c \in barred THEN Append(@[c], Error("EPERM")) ELSE @[c]]]
    IN IF m.e # "none" THEN UpdateError(x, m.e)
       ELSE IF x.m.u.list = <<>> THEN UpdateDestroy(x)
       ELSE IF y.m.u.list = <<>> THEN UpdateDestroy(y)
       ELSE IF "clean" \in Seen(m.v) THEN UpdateError(TellAll(y, Event(n)), "ENODATA")
       ELSE Ask([TellAll(y, Event(n)) EXCEPT !.m.u.st = "watch"], "watch", Generation(x))

(* "don't apply update events that we've already applied from initial       *)
(* lookup"                                                                  *)
IsNew(u) == u.seen > u.initial

EventlogContinuation(x, m) ==
    LET y == [x EXCEPT !.m.u.seen = @ + 1]
    IN IF m.e # "none" THEN UpdateError(x, m.e)
       ELSE IF x.m.u.list = <<>> THEN UpdateDestroy(x)
       ELSE IF jb.log[m.v] # "update" THEN x
       ELSE IF IsNew(y.m.u) THEN TellAll([y EXCEPT !.m.u.obj = @ + 1], Event(y.m.u.obj + 1))
       ELSE y

(* update_watch_cancel, eventlog_watch_cancel *)
UpdateWatchCancel(x, c, cancel) ==
    LET here == c \in Range(x.m.u.list)
        y == [x EXCEPT !.m.u.list = SelectSeq(@, LAMBDA d : d # c)]
        z == IF here /\ cancel THEN TellClient(y, c, Error("ENODATA")) ELSE y
    IN IF y.m.u.list = <<>> /\ y.m.u.st = "watch" /\ ~y.m.u.canceled
       THEN Ask([z EXCEPT !.m.u.canceled = TRUE], "cancel", Generation(x)) ELSE z

-----------------------------------------------------------------------------
(* The reactor *)

(* lookup: the eventlog and the key are looked up together.  "Special       *)
(* optimization": the object of an update-watch answers for the KVS.        *)
Lookup(x, w) ==
    IF Denied(x, w) THEN Answer(x, w, Error("EPERM"))
    ELSE IF w[2] = "current" /\ x.m.lru /\ x.m.u.obj # -1 THEN Answer(x, w, Event(x.m.u.obj))
    ELSE [x EXCEPT !.m.look = @ \cup {[w |-> w, allow |-> x.m.lru]}]

(* A response to a request whose future is gone is dropped. *)
SelfResponse(x, w, m) ==
    LET Waits(st) == w[1] \in Asking /\ x.m.g[w[1]].st = st
    IN IF w[2] = "log" /\ Waits("lookup") THEN GetMainEventlogContinuation(x, w[1], m)
       ELSE IF w[2] = "wait" /\ Waits("wait") THEN WaitGuestNamespaceContinuation(x, w[1], m)
       ELSE IF w[2] = "watch" /\ Waits("watch") THEN GuestNamespaceWatchContinuation(x, w[1], m)
       ELSE IF w[2] = "main" /\ Waits("main") THEN MainNamespaceLookupContinuation(x, w[1], m)
       ELSE IF w[2] = "look" /\ x.m.u.st = "lookup" THEN LookupContinuation(x, m)
       ELSE IF w = Generation(x) /\ x.m.u.st = "watch" THEN EventlogContinuation(x, m)
       ELSE x

SelfMessage ==
    /\ ji.up /\ ji.self # <<>>
    /\ LET h == Head(ji.self)
           x == [Info EXCEPT !.m.self = Tail(@)]
       IN InfoDone(CASE h.t = "lookup" -> Lookup(x, h.w)
                     [] h.t = "watch" -> Watch(x, h.w)
                     [] h.t = "cancel" -> KvsWatchCancel(x, h.w, TRUE)
                     [] h.t = "rsp" -> SelfResponse(x, h.w, h.m))
    /\ UNCHANGED <<jb, ileft>>

(* info_lookup_continuation, once the KVS has answered *)
LookupDone(l) ==
    /\ ji.up /\ l \in ji.look /\ l.w \notin WatchIds
    /\ LET x == [Info EXCEPT !.m.look = @ \ {l}]
           y == [x EXCEPT !.m.lru = @ \/ ~l.allow]
       IN InfoDone(IF jb.log = <<>> THEN Answer(x, l.w, Error("ENOENT"))
                   ELSE IF ~l.allow /\ Role(l.w) = "other" THEN Answer(y, l.w, Error("EPERM"))
                   ELSE IF l.w[2] = "current" THEN Answer(y, l.w, Event(Updates(Len(jb.log))))
                   ELSE IF l.w[2] # "main" THEN Answer(y, l.w, Event(Len(jb.log)))
                   ELSE IF jb.copy < 1 THEN Answer(y, l.w, Error("ENOENT"))
                   ELSE Answer(y, l.w, Event(jb.copy)))
    /\ UNCHANGED <<jb, ileft>>

CheckDone(l) ==
    /\ ji.up /\ l \in ji.look /\ l.w \in WatchIds
    /\ InfoDone(CheckContinuation([Info EXCEPT !.m.look = @ \ {l}], l.w, jb.log # <<>>))
    /\ UNCHANGED <<jb, ileft>>

(* owner_lru: other jobs push this one out. *)
LruEvict ==
    /\ ji.lru /\ ileft.evicts > 0
    /\ ileft' = [ileft EXCEPT !.evicts = @ - 1]
    /\ ji' = [ji EXCEPT !.lru = FALSE]
    /\ UNCHANGED <<iout, jb, ihist>>

(* kvs-watch: a key with appended values; the watch of a removed namespace  *)
(* fails, perhaps before its last values were sent.                         *)
Present(w) == IF IsGuest(w) THEN IF jb.ns = "up" THEN jb.guest ELSE 0 ELSE Len(jb.log)

KvsValue(w) ==
    /\ ji.up /\ ji.kv[w].on
    /\ \E k \in ji.kv[w].pos + 1 .. Present(w) :
          ji' = [ji EXCEPT !.kv[w].pos = k, !.kin[w] = Append(@, Event(k))]
    /\ UNCHANGED <<iout, jb, ihist, ileft>>

KvsEnd(w) ==
    /\ ji.up /\ ji.kv[w].on
    /\ \E e \in (IF ji.kv[w].stop THEN {"ENODATA"} ELSE {})
                \cup (IF IsGuest(w) /\ jb.ns = "gone" THEN {"ENOTSUP"} ELSE {})
                \cup (IF Present(w) = 0 /\ ji.kv[w].pos = 0 /\ jb.ns # "gone" /\ ~WaitCreate(w)
                      THEN {"ENOENT"} ELSE {}) :
          ji' = [ji EXCEPT !.kv[w].on = FALSE, !.kin[w] = Append(@, Error(e))]
    /\ UNCHANGED <<iout, jb, ihist, ileft>>

WatchResponse(w) ==
    /\ ji.up /\ ji.kin[w] # <<>>
    /\ InfoDone(WatchContinuation([Info EXCEPT !.m.kin[w] = Tail(@)], w, Head(ji.kin[w])))
    /\ UNCHANGED <<jb, ileft>>

(* What the clients of update-watch have been told before c asks. *)
CurrentAsked(c) ==
    LET told == UNION {Range(iout[d]) : d \in {d \in Asking : InfoClients[d].kind = "update"}}
    IN [Info EXCEPT !.h.floor[c] = Max({0} \cup {m.v : m \in told})]

(* Clients ask, cancel and disconnect. *)
ClientAsks(c) ==
    /\ ji.up /\ c \in ileft.asks
    /\ ileft' = [ileft EXCEPT !.asks = @ \ {c}, !.asked = @ \cup {c}]
    /\ InfoDone(CASE InfoClients[c].kind = "main" -> Watch(Info, <<c, "self">>)
                  [] InfoClients[c].kind = "guest" -> GuestWatch(Info, c)
                  [] InfoClients[c].kind = "update" -> UpdateWatch(Info, c)
                  [] InfoClients[c].kind = "current" -> Lookup(CurrentAsked(c), <<c, "current">>))
    /\ UNCHANGED jb

ClientEnds(c, cancel) ==
    /\ ji.up /\ c \in (IF cancel THEN ileft.cancels ELSE ileft.leaves) \cap ileft.asked
    /\ ileft' = [ileft EXCEPT !.cancels = @ \ {c}, !.leaves = @ \ {c}, !.ended = @ \cup {c}]
    /\ InfoDone(CASE InfoClients[c].kind = "main" -> KvsWatchCancel(Info, <<c, "self">>, cancel)
                  [] InfoClients[c].kind = "guest" -> GuestWatchCancel(Info, c, cancel)
                  [] InfoClients[c].kind = "update" -> UpdateWatchCancel(Info, c, cancel))
    /\ UNCHANGED jb

(* info_ctx_destroy: whoever still waits is told ENOSYS. *)
InfoUnload ==
    /\ ji.up /\ ileft.unloads > 0
    /\ ileft' = [ileft EXCEPT !.unloads = @ - 1]
    /\ LET open == {c \in Asking : ji.w[<<c, "self">>].st # "none" \/ ji.g[c].st \notin {"none", "gone"}
                                     \/ c \in Range(ji.u.list)}
       IN iout' = [c \in Asking |-> IF c \in open THEN Append(iout[c], Error("ENOSYS")) ELSE iout[c]]
    /\ ihist' = [ihist EXCEPT !.twice = @ \cup {c \in Asking : ji.g[c].st = "main" /\ ji.g[c].cancel}]
    /\ ji' = [ji EXCEPT !.up = FALSE]
    /\ UNCHANGED jb

(* The job manager posts events; job-exec creates the guest namespace       *)
(* before the job starts, and before the last release copies and removes    *)
(* it.                                                                      *)
JobStep ==
    /\ ileft.job # <<>>
    /\ ileft' = [ileft EXCEPT !.job = Tail(@)]
    /\ LET s == Head(ileft.job)
       IN jb' = CASE s = "create" -> [jb EXCEPT !.ns = "up"]
                  [] s = "append" -> [jb EXCEPT !.guest = @ + 1]
                  [] s = "copy" -> [jb EXCEPT !.copy = jb.guest]
                  [] s = "remove" -> [jb EXCEPT !.ns = "gone"]
                  [] OTHER -> [jb EXCEPT !.log = Append(@, s)]
    /\ UNCHANGED <<ji, iout, ihist>>

InfoNext ==
    \/ SelfMessage \/ JobStep \/ LruEvict \/ InfoUnload
    \/ \E l \in ji.look : LookupDone(l) \/ CheckDone(l)
    \/ \E w \in WatchIds : KvsValue(w) \/ KvsEnd(w) \/ WatchResponse(w)
    \/ \E c \in Asking : ClientAsks(c) \/ \E cancel \in BOOLEAN : ClientEnds(c, cancel)

-----------------------------------------------------------------------------
(* Properties *)

InfoQuiet ==
    /\ ji.up /\ ji.self = <<>> /\ ji.look = {}
    /\ \A w \in WatchIds :
          /\ ji.kin[w] = <<>>
          /\ ji.kv[w].on => /\ ~ji.kv[w].stop /\ ~(IsGuest(w) /\ jb.ns = "gone")
                            /\ IF Present(w) = 0 THEN WaitCreate(w) ELSE ji.kv[w].pos = Present(w)

Asked(c) == c \in ileft.asked
Got(c) == SelectSeq(iout[c], LAMBDA m : m.e = "none")
Ended(c) == iout[c] # <<>> /\ Last(iout[c]).e # "none"
Finished == "clean" \in Range(jb.log)

(* "This code handles all of the tricky / racy things related to reading an *)
(* eventlog from the guest namespace" (guest_watch.c): a client sees the    *)
(* events of its eventlog once each and in order, wherever the guest        *)
(* namespace was as they were read; a stream that ends by itself has sent   *)
(* them all, every stream ends when the job is clean or the client cancels, *)
(* and one that goes on is not behind.  A job that ends before it starts is *)
(* left out: those who wait for the start get ENODATA and no events.        *)
EventStreams ==
    \A c \in Asking : (InfoClients[c].kind \in {"main", "guest"} /\ Asked(c)) =>
        LET guest == InfoClients[c].kind = "guest"
            all == IF ~guest THEN Len(jb.log) ELSE IF jb.ns = "gone" THEN jb.copy ELSE jb.guest
        IN /\ \A i \in DOMAIN Got(c) : Got(c)[i].v = i
           /\ c \notin ihist.twice =>
                \A i \in DOMAIN iout[c] : iout[c][i].e # "none" => i = Len(iout[c])
           /\ (Ended(c) /\ Last(iout[c]).e = "ENODATA" /\ c \notin ileft.ended) =>
                (Finished \/ (guest /\ jb.ns = "gone")) /\ ("start" \in Range(jb.log) => Len(Got(c)) = all)
           /\ InfoQuiet /\ c \notin ileft.ended =>
                /\ Finished => Ended(c)
                /\ (~Ended(c) /\ ("start" \in Range(jb.log) \/ ~guest)) => Len(Got(c)) = all
           /\ InfoQuiet /\ c \in ileft.ended => ~(ji.w[<<c, "self">>].st # "none")
                                               /\ ji.g[c].st \in {"none", "gone"}

(* Each update reaches every client of a job's update-watch once: a client  *)
(* gets the object as it is and then each change of it, though clients come *)
(* and go and updates happen between the lookup and the watch of the        *)
(* eventlog.  It is told ENODATA when it cancels or the job is clean; a     *)
(* client that joins as the last one's cancel is under way is left out.     *)
(* A lookup of the current object, which the update-watch may answer, gets  *)
(* one not older than any client had been told of when it asked.            *)
UpdateStreams ==
    /\ \A c \in Asking : (InfoClients[c].kind = "current" /\ Asked(c)) =>
          /\ \A m \in Range(Got(c)) : m.v >= ihist.floor[c]
          /\ Len(iout[c]) = IF \E l \in ji.look : l.w = <<c, "current">> THEN 0 ELSE 1
    /\ \A c \in Asking : (InfoClients[c].kind = "update" /\ Asked(c)) =>
          /\ \A i \in DOMAIN Got(c) : Got(c)[i].v = Got(c)[1].v + i - 1
          /\ \A i \in DOMAIN iout[c] : iout[c][i].e # "none" => i = Len(iout[c])
          /\ (Ended(c) /\ Last(iout[c]).e = "ENODATA" /\ c \notin ileft.ended \cup ihist.rejoined) => Finished
          /\ (InfoQuiet /\ c \notin ileft.ended /\ ~Ended(c)) =>
                ~Finished /\ Last(iout[c]).v = Updates(Len(jb.log))
    /\ InfoQuiet /\ ji.u.st # "none" => ji.u.list # <<>>

\* Both kinds of stream.
InfoStreams == EventStreams /\ UpdateStreams

(* The same, of a client that joins at any moment. *)
UpdateUntilClean ==
    \A c \in Asking : (InfoClients[c].kind = "update" /\ c \notin ileft.ended /\ Ended(c)
                        /\ Last(iout[c]).e = "ENODATA") => Finished

(* A client that waits for the guest eventlog of a job gets what one that   *)
(* asks later gets, also when the job ends before it starts.                *)
GuestComplete ==
    \A c \in Asking : (InfoClients[c].kind = "guest" /\ c \notin ileft.ended /\ Ended(c)
                        /\ Last(iout[c]).e = "ENODATA") => jb.copy < 1 \/ Len(Got(c)) = jb.copy

(* One error ends a stream. *)
EndsOnce == ihist.twice = {}
=============================================================================
