------------------------------ MODULE KvsWatch ------------------------------
(***************************************************************************)
(* The kvs-watch module (src/modules/kvs-watch/kvs-watch.c): clients watch *)
(* a key of a namespace.  The module follows the setroot events of the     *)
(* namespace and looks the key up in the KVS at each root that changes it; *)
(* the lookups of a watcher are answered in any order and their results    *)
(* are passed on in the order of the commits.                              *)
(*                                                                         *)
(* The KVS (src/modules/kvs) is the history of the namespace's roots: it   *)
(* is never behind an event that was delivered.                            *)
(***************************************************************************)
EXTENDS Integers, Sequences, FiniteSets, SequencesExt

CONSTANTS Watchers,        \* [id -> [mode, watch, waitcreate, may]]: requests, with mode one of
                           \* "plain", "full", "uniq", "append"; may: its credentials are
                           \* those of the owner of the instance or of the namespace
          WatchScenarios   \* sets of [exists, ops, watchers, cancels, leaves]: whether the
                           \* namespace is there, what is then done to it (a sequence), the
                           \* requests that are made, canceled, and dropped with their client

VARIABLES nsm,    \* struct ns_monitor of the namespace, or NoMonitor
          wch,    \* [DOMAIN Watchers -> record]: struct watcher
          got,    \* [DOMAIN Watchers -> Seq]: the responses of each watcher
          kv,     \* [st, hist]: the namespace in the KVS, and the key's value at each root
          kevq,   \* events on their way to the module
          wbad,   \* history: an assertion of the module failed
          wleft   \* what may still happen

watch_vars == <<nsm, wch, got, kv, kevq, wbad, wleft>>

NoValue == <<>>
NoError == "none"
NoMonitor == [up |-> FALSE]
NoCommit == [seq |-> -1, keys |-> FALSE]

(* keys: whether the commit changed the key; getroot: "none", "sent" or     *)
(* what it returns.                                                         *)
NewMonitor == [up |-> TRUE, watchers |-> <<>>, commit |-> NoCommit, fatal |-> FALSE,
               errnum |-> FALSE, getroot |-> "sent", root |-> -1]

(* initseq: initial_rootseq; sent: initial_rpc_sent; lookups: futures in    *)
(* the order of the commits.                                                *)
NewWatcher == [st |-> "new", rootseq |-> -1, canceled |-> FALSE, mute |-> FALSE,
               responded |-> FALSE, sent |-> FALSE, finished |-> FALSE, initseq |-> 0,
               prev |-> NoValue, offset |-> 0, lookups |-> <<>>]

WatchInit(s) ==
    /\ nsm = NoMonitor
    /\ wch = [w \in DOMAIN Watchers |-> NewWatcher]
    /\ got = [w \in DOMAIN Watchers |-> <<>>]
    /\ kv = [st |-> IF s.exists THEN "there" ELSE "absent", hist |-> <<NoValue>>]
    /\ kevq = <<>> /\ wbad = FALSE /\ wleft = s

(* A handler takes what it may change through its calls. *)
Monitor == [n |-> nsm, w |-> wch, got |-> got, bad |-> wbad]

Handled(new) ==
    \E x \in {new} : nsm' = x.n /\ wch' = x.w /\ got' = x.got /\ wbad' = x.bad

-----------------------------------------------------------------------------
(* Responses to watchers *)

(* A response carries a value, or an error that ends the stream; at: the    *)
(* root it tells of (-1 when it is about none).                             *)
WatchReply(x, w, val, err, at) ==
    [x EXCEPT !.got[w] = Append(@, [val |-> val, err |-> err, at |-> at])]

(* watcher_cleanup: a watcher is destroyed once its lookups have completed,  *)
(* the monitor with its last watcher.                                       *)
WatcherCleanup(x, w) ==
    LET y == IF x.w[w].lookups # <<>> THEN x
             ELSE [x EXCEPT !.n.watchers = SelectSeq(@, LAMBDA v : v # w), !.w[w].st = "gone"]
    IN IF y.n.watchers = <<>> /\ y.n.getroot = "none" THEN [y EXCEPT !.n = NoMonitor] ELSE y

WatchFail(x, w, err, at) ==
    [(IF x.w[w].mute THEN x ELSE WatchReply(x, w, NoValue, err, at)) EXCEPT !.w[w].finished = TRUE]

(* lookupat, process_lookup_response: the first lookup names the namespace, *)
(* the others a root.                                                       *)
ProcessLookup(x, w) ==
    [x EXCEPT !.w[w].lookups = Append(@, [initial |-> ~x.w[w].sent, at |-> x.n.commit.seq,
                                          st |-> "sent", val |-> NoValue, err |-> NoError]),
              !.w[w].sent = TRUE, !.w[w].rootseq = x.n.commit.seq]

WatcherRespond(x, w) ==
    LET v == x.w[w]
        Ends(err) == WatcherCleanup(WatchFail(x, w, err, -1), w)
    IN IF v.finished THEN WatcherCleanup(x, w)
       ELSE IF v.canceled THEN Ends("ENODATA")
       ELSE IF x.n.fatal THEN Ends("ENOTSUP")
       ELSE IF x.n.errnum /\ Watchers[w].waitcreate /\ ~v.responded
       THEN [x EXCEPT !.n.errnum = FALSE]
       ELSE IF x.n.errnum THEN Ends("ENOTSUP")
       ELSE IF x.n.commit = NoCommit THEN [x EXCEPT !.bad = TRUE]     \* the assertion
       ELSE IF x.n.commit.seq <= v.rootseq THEN x
       ELSE IF ~Watchers[w].may THEN Ends("EPERM")
       ELSE IF v.rootseq = -1 \/ Watchers[w].mode = "full" \/ x.n.commit.keys
       THEN ProcessLookup(x, w)
       ELSE x

WatcherRespondNs(x) == FoldLeft(WatcherRespond, x, x.n.watchers)

-----------------------------------------------------------------------------
(* Lookups *)

(* handle_compare_response, handle_append_response, handle_normal_response; *)
(* the offset into an appended value is its length.                         *)
HandleValue(x, w, f) ==
    LET v == x.w[w]
        mode == Watchers[w].mode
        Sent(val) == [WatchReply(x, w, val, NoError, f.at) EXCEPT
                         !.w[w].responded = TRUE,
                         !.w[w].prev = IF mode \in {"full", "uniq"} THEN f.val ELSE @,
                         !.w[w].offset = IF mode = "append" THEN Len(f.val) ELSE @]
    IN CASE mode = "plain" \/ ~v.responded -> Sent(f.val)
         [] mode \in {"full", "uniq"} /\ v.responded -> IF v.prev = f.val THEN x ELSE Sent(f.val)
         [] mode = "append" /\ v.responded ->
               IF Len(f.val) < v.offset THEN WatchFail(x, w, "EINVAL", f.at)
               ELSE Sent(SubSeq(f.val, v.offset + 1, Len(f.val)))

HandleInitial(x, w, f) ==
    IF f.err # NoError THEN WatchFail(x, w, "ENOTSUP", -1)
    ELSE IF f.val = NoValue /\ Watchers[w].waitcreate /\ ~x.w[w].responded
    THEN [x EXCEPT !.w[w].initseq = f.at]
    ELSE IF f.val = NoValue THEN WatchFail(x, w, "ENOENT", f.at)
    ELSE [HandleValue(x, w, f) EXCEPT !.w[w].initseq = f.at]

HandleNext(x, w, f) ==
    IF f.val = NoValue THEN WatchFail(x, w, "ENOENT", f.at)
    ELSE IF f.at <= x.w[w].initseq \/ x.w[w].mute THEN x
    ELSE HandleValue(x, w, f)

(* handle_lookup_response *)
HandleLookup(x, w, f) ==
    IF f.initial THEN HandleInitial(x, w, f) ELSE HandleNext(x, w, f)

(* One turn of the loop of lookup_continuation: a lookup that has been      *)
(* popped.  WAITCREATE without WATCH ends with the first value.             *)
PopLookup(x, w, f) ==
    LET y == IF x.w[w].finished THEN x ELSE HandleLookup(x, w, f)
    IN [y EXCEPT !.w[w].finished = @ \/ (y.w[w].responded /\ ~Watchers[w].watch)]

(* Mutant: results are passed on as they come. *)
ContinuationAny(x, w) ==
    LET ready == SelectSeq(x.w[w].lookups, LAMBDA f : f.st = "ready")
        Pop(y, f) == PopLookup(y, w, f)
        z == FoldLeft(Pop, [x EXCEPT !.w[w].lookups = SelectSeq(@, LAMBDA f : f.st # "ready")], ready)
    IN IF z.w[w].finished THEN WatcherCleanup(z, w) ELSE z

(* lookup_continuation: those at the head of the list that are ready *)
Continuation(x, w) ==
    LET all == x.w[w].lookups
        n == CHOOSE k \in 0 .. Len(all) : /\ \A i \in 1 .. k : all[i].st = "ready"
                                          /\ k = Len(all) \/ all[k + 1].st # "ready"
        Pop(y, f) == PopLookup(y, w, f)
        z == FoldLeft(Pop, [x EXCEPT !.w[w].lookups = SubSeq(@, n + 1, Len(@))], SubSeq(all, 1, n))
    IN IF z.w[w].finished THEN WatcherCleanup(z, w) ELSE z

-----------------------------------------------------------------------------
(* Requests and events *)

Running == ~wbad

(* lookup_cb, namespace_monitor *)
WatchRequest(w) ==
    LET m == IF nsm.up THEN nsm ELSE NewMonitor
        x == [Monitor EXCEPT !.n = [m EXCEPT !.watchers = Append(@, w)], !.w[w].st = "listed"]
    IN /\ Running /\ w \in wleft.watchers
       /\ wleft' = [wleft EXCEPT !.watchers = @ \ {w}]
       /\ Handled(IF m.commit # NoCommit THEN WatcherRespond(x, w) ELSE x)
       /\ UNCHANGED <<kv, kevq>>

WatcherCancel(x, w, cancel) ==
    WatcherRespond([x EXCEPT !.w[w].canceled = TRUE, !.w[w].mute = ~cancel], w)

(* cancel_cb *)
CancelRequest(w) ==
    /\ Running /\ w \in wleft.cancels /\ wch[w].st = "listed"
    /\ wleft' = [wleft EXCEPT !.cancels = @ \ {w}]
    /\ Handled(WatcherCancel(Monitor, w, TRUE))
    /\ UNCHANGED <<kv, kevq>>

(* disconnect_cb *)
WatcherLeaves(w) ==
    /\ Running /\ w \in wleft.leaves /\ wch[w].st = "listed"
    /\ wleft' = [wleft EXCEPT !.leaves = @ \ {w}]
    /\ Handled(WatcherCancel(Monitor, w, FALSE))
    /\ UNCHANGED <<kv, kevq>>

(* setroot_cb *)
SetrootCb(x, e) ==
    IF ~x.n.up \/ (x.n.commit # NoCommit /\ e.seq <= x.n.commit.seq) THEN x
    ELSE WatcherRespondNs([x EXCEPT !.n.commit = [seq |-> e.seq, keys |-> e.keys]])

(* namespace_created_cb *)
CreatedCb(x, e) ==
    IF ~x.n.up \/ x.n.commit # NoCommit THEN x
    ELSE WatcherRespondNs([x EXCEPT !.n.commit = [seq |-> e.seq, keys |-> FALSE]])

(* removed_cb *)
RemovedCb(x) == IF ~x.n.up THEN x ELSE WatcherRespondNs([x EXCEPT !.n.fatal = TRUE])

WatchEvent ==
    LET e == Head(kevq)
    IN /\ Running /\ kevq # <<>> /\ kevq' = Tail(kevq)
       /\ Handled(CASE e.k = "setroot" -> SetrootCb(Monitor, e)
                    [] e.k = "created" -> CreatedCb(Monitor, e)
                    [] e.k = "removed" -> RemovedCb(Monitor))
       /\ UNCHANGED <<kv, wleft>>

(* namespace_getroot_continuation *)
GetrootContinuation(x) ==
    LET y == [x EXCEPT !.n.getroot = "none"]
    IN IF y.n.watchers = <<>> THEN [y EXCEPT !.n = NoMonitor]
       ELSE IF y.n.commit # NoCommit THEN y
       ELSE IF y.n.root = -1 THEN WatcherRespondNs([y EXCEPT !.n.errnum = TRUE])
       ELSE WatcherRespondNs([y EXCEPT !.n.commit = [seq |-> y.n.root, keys |-> FALSE]])

GetrootResponse ==
    /\ Running /\ nsm.up /\ nsm.getroot = "served"
    /\ Handled(GetrootContinuation(Monitor))
    /\ UNCHANGED <<kv, kevq, wleft>>

LookupResponse(w, i) ==
    /\ Running /\ i \in DOMAIN wch[w].lookups /\ wch[w].lookups[i].st = "served"
    /\ Handled(Continuation([Monitor EXCEPT !.w[w].lookups[i].st = "ready"], w))
    /\ UNCHANGED <<kv, kevq, wleft>>

-----------------------------------------------------------------------------
(* The KVS *)

LatestSeq == Len(kv.hist) - 1

GetrootServed ==
    /\ nsm.up /\ nsm.getroot = "sent"
    /\ nsm' = [nsm EXCEPT !.getroot = "served", !.root = IF kv.st = "there" THEN LatestSeq ELSE -1]
    /\ UNCHANGED <<wch, got, kv, kevq, wbad, wleft>>

(* kvs.lookup-plus: the first lookup is at the root the KVS has then. *)
LookupServed(w, i) ==
    LET f == wch[w].lookups[i]
        at == IF f.initial THEN LatestSeq ELSE f.at
        err == IF f.initial /\ kv.st # "there" THEN "ENOTSUP" ELSE NoError
    IN /\ i \in DOMAIN wch[w].lookups /\ f.st = "sent"
       /\ wch' = [wch EXCEPT ![w].lookups[i] = [f EXCEPT !.st = "served", !.at = at,
                                                        !.val = kv.hist[at + 1], !.err = err]]
       /\ UNCHANGED <<nsm, got, kv, kevq, wbad, wleft>>

(* The next operation on the namespace: it is created or removed, or a       *)
(* commit sets, appends to or unlinks the key or changes another one.       *)
NamespaceOp ==
    LET op == Head(wleft.ops)
        old == kv.hist[Len(kv.hist)]
        next == Len(kv.hist)
        new == CASE op = "set" -> <<next>>
                 [] op = "append" -> IF old = NoValue THEN <<next>> ELSE Append(old, next)
                 [] op = "unlink" -> NoValue
                 [] OTHER -> old
    IN /\ wleft.ops # <<>>
       /\ wleft' = [wleft EXCEPT !.ops = Tail(@)]
       /\ \/ /\ op = "create" /\ kv' = [kv EXCEPT !.st = "there"]
             /\ kevq' = Append(kevq, [k |-> "created", seq |-> 0, keys |-> FALSE])
          \/ /\ op = "remove" /\ kv' = [kv EXCEPT !.st = "removed"]
             /\ kevq' = Append(kevq, [k |-> "removed", seq |-> 0, keys |-> FALSE])
          \/ /\ op \notin {"create", "remove"} /\ kv' = [kv EXCEPT !.hist = Append(@, new)]
             /\ kevq' = Append(kevq, [k |-> "setroot", seq |-> next, keys |-> op # "other"])
       /\ UNCHANGED <<nsm, wch, got, wbad>>

WatchNext ==
    \/ \E w \in DOMAIN Watchers :
          \/ WatchRequest(w) \/ CancelRequest(w) \/ WatcherLeaves(w)
          \/ \E i \in 1 .. Len(kv.hist) : LookupServed(w, i) \/ LookupResponse(w, i)
    \/ WatchEvent \/ GetrootServed \/ GetrootResponse \/ NamespaceOp

-----------------------------------------------------------------------------
(* Properties *)

WatchQuiet ==
    /\ kevq = <<>>
    /\ nsm.up => nsm.getroot = "none"
    /\ \A w \in DOMAIN Watchers : wch[w].lookups = <<>>

Values(w) == SelectSeq(got[w], LAMBDA r : r.err = NoError)

(* "Responses are always returned to the watcher in commit order"           *)
(* (watcher_respond): the values that a watcher gets belong to later and    *)
(* later roots, though their lookups return in any order; nothing follows   *)
(* an error.                                                                *)
WatchInOrder ==
    \A w \in DOMAIN Watchers :
        /\ \A i, j \in DOMAIN Values(w) : i < j => Values(w)[i].at < Values(w)[j].at
        /\ \A i \in DOMAIN got[w] : got[w][i].err # NoError => i = Len(got[w])

(* What the watcher shows its user: the last value, or with APPEND all that *)
(* came.                                                                    *)
Shown(w) ==
    LET vals == Values(w)
    IN IF vals = <<>> THEN NoValue
       ELSE IF Watchers[w].mode = "append" THEN FlattenSeq([i \in DOMAIN vals |-> vals[i].val])
       ELSE Last(vals).val

(* No change is missed: once the lookups have returned, a watcher that is   *)
(* still there has been shown the value its key has now, whether the change *)
(* came before, during or after its first lookup; one that has been shown   *)
(* nothing waits for the key or the namespace to be created.                *)
WatchCurrent ==
    WatchQuiet /\ Running =>
        \A w \in DOMAIN Watchers : (wch[w].st = "listed" /\ kv.st = "there") =>
            /\ Shown(w) = Last(kv.hist)
            /\ Shown(w) = NoValue => Watchers[w].waitcreate

(* Every watcher comes to its end: canceled, "callers should wait for the   *)
(* future to be fulfilled with an ENODATA error" (flux_kvs_lookup.rst), and *)
(* in a namespace that was removed each has got an error but one that came  *)
(* later and waits for the namespace to return.  One whose credentials do   *)
(* not allow it has got no value, and is there no longer than the namespace *)
(* is unknown.  The monitor of a namespace lives exactly as long as it has  *)
(* watchers, whichever of them leave.                                       *)
WatchEnds ==
    WatchQuiet /\ Running =>
        /\ nsm.up => nsm.watchers # <<>>
        /\ \A w \in DOMAIN Watchers :
            /\ wch[w].canceled => wch[w].st = "gone"
            /\ ~Watchers[w].may => Values(w) = <<>> /\ (kv.st = "there" => wch[w].st # "listed")
            /\ kv.st = "removed" /\ wch[w].st = "listed" => Watchers[w].waitcreate /\ got[w] = <<>>
            /\ wch[w].st = "gone" /\ ~wch[w].mute /\ Watchers[w].watch => Last(got[w]).err # NoError

(* Watchers are served: they are current while they are there, and they end *)
(* when they should.                                                        *)
WatchesServed == WatchCurrent /\ WatchEnds

\* Watchers are told everything, in order, until their end.
WatchKept == WatchInOrder /\ WatchesServed

(* "This assert is safe, only potential case is if namespace removed before *)
(* initial getroot or a setroot received" (watcher_respond).                *)
AssertSafe == ~wbad

(* "if we got some setroots before the initial rpc returned, toss them"     *)
(* (handle_lookup_response): also an error tells of a later root than the   *)
(* values before it.                                                        *)
ErrorsInOrder ==
    \A w \in DOMAIN Watchers : \A i, j \in DOMAIN got[w] :
        (i < j /\ got[w][j].at # -1) => got[w][i].at < got[w][j].at

(* "If a KVS key does not exist, wait for it to exist before returning"     *)
(* (flux_kvs_lookup.rst, FLUX_KVS_WAITCREATE): no such watcher is told that *)
(* the key does not exist before it did.                                    *)
WaitsForKey ==
    \A w \in DOMAIN Watchers : Watchers[w].waitcreate /\ got[w] # <<>> => got[w][1].err # "ENOENT"
=============================================================================
