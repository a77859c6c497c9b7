-------------------------------- MODULE Kvs ---------------------------------
(***************************************************************************)
(* One namespace of the KVS service (src/modules/kvs): the leader on rank  *)
(* 0, which owns the root and applies transactions one at a time, and the  *)
(* followers, which hold a copy of the root reference kept up to date by   *)
(* setroot events.                                                         *)
(*                                                                         *)
(* Requests are commits, fences, wait-version and lookup requests sent by  *)
(* clients to the KVS of their rank.  A request writes itself at its key,  *)
(* so a directory maps keys to the last request that wrote them, and a     *)
(* root reference (the hash of the directory) is the directory.  Loads and *)
(* stores of the leader are the time a transaction stays blocked; the      *)
(* cache behind them is KvsDurable.                                        *)
(*                                                                         *)
(* The ranks form the tree of the overlay network.  Transactions are       *)
(* relayed to rank 0, but a follower asks the KVS of its tree parent for   *)
(* the root, and an inner follower answers from its own root when it has   *)
(* one.  Events come down the tree from broker to broker; the broker of an *)
(* inner rank forwards them whether or not its KVS has handled them.       *)
(*                                                                         *)
(* A module thread handles one message at a time.  On the leader the check *)
(* watcher that applies ready transactions runs after the handler of every *)
(* message, so no handler runs while the root is on the work queue.        *)
(***************************************************************************)
EXTENDS Naturals, Sequences, FiniteSets, TLC

CONSTANTS Leader, Followers,
          Parent,         \* [Followers -> Ranks]: the parent in the overlay tree
          Requests,       \* every client request
          Req,            \* [Requests -> [kind, rank, key, name, nprocs, bad, nomerge, seq]]
          Nothing,        \* the value of a key never written
          Keys,
          Scenarios,      \* [reqs, faults, expires]: the requests that clients may send,
                          \* how many loads or stores of the leader fail, and how
                          \* many idle roots the followers drop
          MaxCreates      \* how often the namespace is created

Ranks == {Leader} \cup Followers

ASSUME LeaderAssumption == Leader \notin Followers
ASSUME ParentAssumption == Parent \in [Followers -> Ranks]
ASSUME RanksAssumption == \A q \in Requests : Req[q].rank \in Ranks
ASSUME BoundAssumption == MaxCreates \in Nat

(* The ranks that ask the leader itself for the root. *)
NextToLeader == {Leader} \cup {r \in Followers : Parent[r] = Leader}

Writers == {q \in Requests : Req[q].kind \in {"commit", "fence"}}

VARIABLES root,       \* [Ranks -> [st, ref, seq, inc]]: struct kvsroot
          treq,       \* [Ranks -> [name -> [reqs, ops, count, processed]]]: treq_mgr_t
          ready,      \* the leader's ready transactions: kvstxn_mgr_t
          workq,      \* the leader's root is on the work queue
          sub,        \* the followers subscribed to the namespace's events
          inbox,      \* [Ranks -> events and getroot responses not yet handled]
          wire,       \* [Followers -> the same, on their way to the rank's broker]
          chan,       \* [Followers -> [Ranks -> requests to that rank not yet handled]]
          requeue,    \* [Followers -> requests put back at the head of the queue]
          resp,       \* [Requests -> [st, seq, ref, n]]: what the client knows
          log,        \* history: every version published, [inc, seq, ref, ops]
          used        \* history: creates, faults and expiries, and their bounds

vars == <<root, treq, ready, workq, sub, inbox, wire, chan, requeue, resp, log, used>>

EmptyDir == [k \in Keys |-> Nothing]

Emp == [n \in {} |-> {}]

NoRoot == [st |-> "none", ref |-> EmptyDir, seq |-> 0, inc |-> 0]

Init ==
    /\ root = [r \in Ranks |-> NoRoot]
    /\ treq = [r \in Ranks |-> Emp]
    /\ ready = <<>>
    /\ workq = FALSE
    /\ sub = {}
    /\ inbox = [r \in Ranks |-> <<>>]
    /\ wire = [r \in Followers |-> <<>>]
    /\ chan = [r \in Followers |-> [d \in Ranks |-> <<>>]]
    /\ requeue = [r \in Followers |-> <<>>]
    /\ log = <<>>
    /\ \E sc \in Scenarios :
        /\ resp = [q \in Requests |-> [st |-> IF q \in sc.reqs THEN "idle" ELSE "off",
                                       seq |-> 0, ref |-> EmptyDir, n |-> 0]]
        /\ used = [creates |-> 0, faults |-> 0, expires |-> 0, max |-> sc]

-----------------------------------------------------------------------------
(* Messages and answers *)

(* The rank's thread may take a new message. *)
Free(r) == IF r = Leader THEN ~workq ELSE requeue[r] = <<>>

(* A broker sends an event on to its children. *)
Forward(w, r, e) ==
    [c \in Followers |-> IF Parent[c] = r THEN Append(w[c], e) ELSE w[c]]

(* An event goes to the leader, always subscribed, and down the tree. *)
Publish(e) ==
    /\ inbox' = [inbox EXCEPT ![Leader] = Append(@, e)]
    /\ wire' = Forward(wire, Leader, e)

(* A follower sends a request to the KVS of another rank. *)
Send(ch, r, d, m) == [ch EXCEPT ![r][d] = Append(@, m)]

(* getroot_request_send: the request q, or the getroot that the ranks of    *)
(* via sent on its behalf, waits at r for the answer of the parent.         *)
Ask(ch, r, q, via) == Send(ch, r, Parent[r], [t |-> "getroot", q |-> q, via |-> via])

Answered(rs, S, what, seq, ref) ==
    [q \in Requests |->
        IF q \in S THEN [st |-> what, seq |-> seq, ref |-> ref, n |-> rs[q].n + 1] ELSE rs[q]]

Fail(rs, S) == Answered(rs, S, "err", 0, EmptyDir)

Mark(q, what) == [resp EXCEPT ![q].st = what]

(* finalize_transaction_bynames: the requests kept under these names are    *)
(* answered with the root as it is now, or with the error, and forgotten.   *)
CopiesOf(r, names) == UNION {treq[r][n].reqs : n \in names \cap DOMAIN treq[r]}

FinalResp(r, names, ok) ==
    IF ok THEN Answered(resp, CopiesOf(r, names), "ok", root[r].seq, root[r].ref)
    ELSE Fail(resp, CopiesOf(r, names))

FinalTreq(r, names) ==
    [treq EXCEPT ![r] = [n \in DOMAIN treq[r] \ names |-> treq[r][n]]]

(* The wait-version requests held on a root. *)
WaitersOf(r) == {q \in Requests : Req[q].rank = r /\ resp[q].st = "waiting"}

(* Mutant: any version is taken. *)
SetRootAny(r, rs, ref, seq, inc) ==
    /\ root' = [root EXCEPT ![r] = [st |-> "up", ref |-> ref, seq |-> seq, inc |-> inc]]
    /\ resp' = Answered(rs, {q \in WaitersOf(r) : Req[q].seq <= seq}, "ok", seq, ref)

(* Mutant: only the next version is taken. *)
SetRootNext(r, rs, ref, seq, inc) ==
    IF seq = root[r].seq + 1
    THEN SetRootAny(r, rs, ref, seq, inc)
    ELSE /\ resp' = rs
         /\ UNCHANGED root

(* setroot: a root never goes back, except to a version 0; the waiters its  *)
(* version satisfies are answered.                                          *)
SetRoot(r, rs, ref, seq, inc) ==
    IF seq = 0 \/ seq > root[r].seq
    THEN /\ root' = [root EXCEPT ![r] = [st |-> "up", ref |-> ref, seq |-> seq, inc |-> inc]]
         /\ resp' = Answered(rs, {q \in WaitersOf(r) : Req[q].seq <= seq}, "ok", seq, ref)
    ELSE /\ resp' = rs
         /\ UNCHANGED root

-----------------------------------------------------------------------------
(* The leader's transactions *)

NewTxn(name, ops, nomerge) ==
    [names |-> {name}, ops |-> ops, nomerge |-> nomerge, blocked |-> FALSE,
     merged |-> FALSE, component |-> FALSE]

(* kvstxn_mgr_transaction_ready *)
HeadReady(kts) == kts # <<>> /\ ~Head(kts).blocked

(* kvstxn_mgr_add_transaction, then work_queue_check_append *)
AddTransaction(name, ops, nomerge) ==
    LET kts == Append(ready, NewTxn(name, ops, nomerge))
    IN /\ ready' = kts
       /\ workq' = (workq \/ HeadReady(kts))

(* kvstxn_mgr_merge_ready_transactions: the transactions from the head up   *)
(* to the first that refuses are kept as components behind one transaction  *)
(* with the names and the operations of all of them.                        *)
MergeLength(kts) ==
    CHOOSE n \in 0..Len(kts) :
        /\ \A i \in 1..n : ~kts[i].nomerge
        /\ n < Len(kts) => kts[n + 1].nomerge

(* The operations of the first n transactions, in order. *)
OpsOf(kts, n) ==
    LET upto[i \in 0..n] == IF i = 0 THEN <<>> ELSE upto[i - 1] \o kts[i].ops
    IN upto[n]

MergeReady(kts) ==
    LET n == MergeLength(kts)
    IN IF n < 2 \/ Head(kts).merged THEN kts
       ELSE <<[names |-> UNION {kts[i].names : i \in 1..n},
               ops |-> OpsOf(kts, n),
               nomerge |-> FALSE, blocked |-> FALSE, merged |-> TRUE, component |-> FALSE]>>
            \o [i \in DOMAIN kts |-> [kts[i] EXCEPT !.component = i <= n]]

(* Mutant: the components of a merged transaction are left behind it. *)
RemoveHeadOnly(kts, fallback) ==
    [i \in DOMAIN Tail(kts) |-> [Tail(kts)[i] EXCEPT !.component = FALSE, !.nomerge = @ \/ Tail(kts)[i].component]]

(* kvstxn_mgr_remove_transaction: a merged transaction takes its components *)
(* along, or leaves them to be tried alone.                                 *)
RemoveHead(kts, fallback) ==
    LET rest == Tail(kts)
    IN IF ~Head(kts).merged THEN rest
       ELSE IF fallback
       THEN [i \in DOMAIN rest |->
               IF rest[i].component
               THEN [rest[i] EXCEPT !.component = FALSE, !.nomerge = TRUE] ELSE rest[i]]
       ELSE SelectSeq(rest, LAMBDA kt : ~kt.component)

(* The operations of a transaction applied to a directory: the last one on  *)
(* a key decides.                                                           *)
ApplyOps(dir, ops) ==
    [k \in Keys |->
        LET writes == {i \in DOMAIN ops : Req[ops[i]].key = k}
        IN IF writes = {} THEN dir[k]
           ELSE ops[CHOOSE i \in writes : \A p \in writes : p <= i]]

(* The part of kvstxn_apply after its done label. *)
TxnDone(kts, errnum) ==
    LET kt == Head(kts)
        fallback == kt.merged /\ errnum \notin {"none", "ENOTSUP"}
        rest == RemoveHead(kts, fallback)
        ref == ApplyOps(root[Leader].ref, kt.ops)
        seq == root[Leader].seq + 1
        inc == root[Leader].inc
    IN /\ ready' = rest
       /\ workq' = HeadReady(rest)
       /\ IF errnum = "none"
          THEN /\ SetRoot(Leader, resp, ref, seq, inc)
               /\ log' = Append(log, [inc |-> inc, seq |-> seq, ref |-> ref, ops |-> kt.ops])
               /\ Publish([t |-> "setroot", names |-> kt.names, ref |-> ref,
                           seq |-> seq, inc |-> inc])
          ELSE /\ IF fallback THEN UNCHANGED <<inbox, wire>>
                  ELSE Publish([t |-> "error", names |-> kt.names])
               /\ UNCHANGED <<root, resp, log>>

(* What kvstxn_apply finds when it does not stall: the namespace is going,  *)
(* or an operation cannot be applied, or the new root is stored.            *)
TxnResult(kt) ==
    IF root[Leader].st = "removed" THEN "ENOTSUP"
    ELSE IF \E i \in DOMAIN kt.ops : Req[kt.ops[i]].bad THEN "EISDIR"
    ELSE "none"

(* kvstxn_apply stalls: the head waits for a load or for its stores. *)
TxnStall(kts) ==
    /\ ready' = <<[Head(kts) EXCEPT !.blocked = TRUE]>> \o Tail(kts)
    /\ workq' = FALSE
    /\ UNCHANGED <<root, resp, log, inbox, wire>>

(* transaction_check_cb *)
TransactionCheck ==
    /\ workq
    /\ HeadReady(ready)
    /\ LET kts == MergeReady(ready)
       IN \/ TxnDone(kts, TxnResult(Head(kts)))
          \/ root[Leader].st = "up" /\ TxnStall(kts)
    /\ UNCHANGED <<treq, sub, chan, requeue, used>>

(* The last load or store of the head completes and kvstxn_apply is run     *)
(* again.                                                                   *)
TransactionResume ==
    /\ ready # <<>> /\ Head(ready).blocked
    /\ Free(Leader)
    /\ TxnDone(ready, TxnResult(Head(ready)))
    /\ UNCHANGED <<treq, sub, chan, requeue, used>>

(* A load or a store fails, and kvstxn_apply ends with that error. *)
TransactionFault ==
    /\ ready # <<>> /\ Head(ready).blocked
    /\ Free(Leader)
    /\ used.faults < used.max.faults
    /\ used' = [used EXCEPT !.faults = @ + 1]
    /\ TxnDone(ready, IF root[Leader].st = "removed" THEN "ENOTSUP" ELSE "EIO")
    /\ UNCHANGED <<treq, sub, chan, requeue>>

-----------------------------------------------------------------------------
(* Requests *)

(* getroot when the namespace is not known or is being removed: the leader  *)
(* answers ENOTSUP, a follower asks its parent and the request waits.       *)
NoRootHere(q, r) ==
    /\ IF r = Leader
       THEN /\ resp' = Fail(resp, {q})
            /\ UNCHANGED chan
       ELSE /\ resp' = Mark(q, "sent")
            /\ chan' = Ask(chan, r, q, <<>>)
    /\ UNCHANGED <<root, treq, ready, workq>>

(* commit_request_cb *)
CommitHere(q, r) ==
    /\ treq' = [treq EXCEPT ![r] = (q :> [reqs |-> {q}, ops |-> <<>>, count |-> 0,
                                         processed |-> r = Leader]) @@ @]
    /\ IF r = Leader
       THEN /\ AddTransaction(q, <<q>>, Req[q].nomerge)
            /\ UNCHANGED chan
       ELSE /\ chan' = Send(chan, r, Leader, [t |-> "relaycommit", q |-> q])
            /\ UNCHANGED <<ready, workq>>
    /\ resp' = Mark(q, "sent")
    /\ UNCHANGED root

(* treq_mgr_lookup_transaction, or treq_create and treq_mgr_add_transaction *)
TreqOf(r, name) ==
    IF name \in DOMAIN treq[r] THEN treq[r][name]
    ELSE [reqs |-> {}, ops |-> <<>>, count |-> 0, processed |-> FALSE]

(* treq_add_request_ops on the leader; the last request makes the fence a   *)
(* transaction.                                                             *)
CountFence(q, copies) ==
    LET name == Req[q].name
        tr == [TreqOf(Leader, name) EXCEPT !.reqs = @ \cup copies, !.ops = Append(@, q),
                                           !.count = @ + 1]
        reached == tr.count = Req[q].nprocs
    IN /\ treq' = [treq EXCEPT ![Leader] = (name :> [tr EXCEPT !.processed = reached]) @@ @]
       /\ IF reached THEN AddTransaction(name, tr.ops, Req[q].nomerge)
          ELSE UNCHANGED <<ready, workq>>

(* fence_request_cb *)
FenceHere(q, r) ==
    /\ IF r = Leader
       THEN /\ CountFence(q, {q})
            /\ UNCHANGED chan
       ELSE /\ treq' = [treq EXCEPT ![r] =
                          (Req[q].name :> [TreqOf(r, Req[q].name) EXCEPT !.reqs = @ \cup {q}]) @@ @]
            /\ chan' = Send(chan, r, Leader, [t |-> "relayfence", q |-> q])
            /\ UNCHANGED <<ready, workq>>
    /\ resp' = Mark(q, "sent")
    /\ UNCHANGED root

(* wait_version_request_cb *)
WaitHere(q, r) ==
    /\ resp' = IF root[r].seq < Req[q].seq THEN Mark(q, "waiting")
               ELSE Answered(resp, {q}, "ok", root[r].seq, root[r].ref)
    /\ UNCHANGED <<root, treq, ready, workq, chan>>

(* lookup_common and lookup: the root is read once; the walk from it is     *)
(* answered at once or after loads.                                         *)
LookupHere(q, r) ==
    /\ \/ resp' = Answered(resp, {q}, "ok", root[r].seq, root[r].ref)
       \/ resp' = [resp EXCEPT ![q] = [@ EXCEPT !.st = "loading", !.seq = root[r].seq,
                                                !.ref = root[r].ref]]
    /\ UNCHANGED <<root, treq, ready, workq, chan>>

Handle(q) ==
    LET r == Req[q].rank
    IN \/ root[r].st # "up" /\ NoRootHere(q, r)
       \/ root[r].st = "up" /\ Req[q].kind = "commit" /\ CommitHere(q, r)
       \/ root[r].st = "up" /\ Req[q].kind = "fence" /\ FenceHere(q, r)
       \/ root[r].st = "up" /\ Req[q].kind = "wait" /\ WaitHere(q, r)
       \/ root[r].st = "up" /\ Req[q].kind = "lookup" /\ LookupHere(q, r)

(* A client sends its request. *)
Request(q) ==
    /\ resp[q].st = "idle"
    /\ Free(Req[q].rank)
    /\ Handle(q)
    /\ UNCHANGED <<sub, inbox, wire, requeue, log, used>>

(* The load completes and the lookup is replayed; it gives up when its      *)
(* namespace is gone (namespace_still_valid).                               *)
LookupReplay(q) ==
    LET r == Req[q].rank
    IN /\ resp[q].st = "loading"
       /\ Free(r)
       /\ resp' = IF root[r].st # "up" THEN Fail(resp, {q})
                  ELSE Answered(resp, {q}, "ok", resp[q].seq, resp[q].ref)
       /\ UNCHANGED <<root, treq, ready, workq, sub, inbox, wire, chan, requeue, log, used>>

(* disconnect_request_cb: the client's waits are dropped. *)
Disconnect(q) ==
    /\ resp[q].st \in {"waiting", "loading"}
    /\ Free(Req[q].rank)
    /\ resp' = Mark(q, "gone")
    /\ UNCHANGED <<root, treq, ready, workq, sub, inbox, wire, chan, requeue, log, used>>

-----------------------------------------------------------------------------
(* Messages between the ranks *)

(* Mutant: with no namespace the request is dropped. *)
RelayDropped(m) ==
    /\ root[Leader].st # "up"
    /\ UNCHANGED <<treq, ready, workq, inbox, wire>>

(* relaycommit_request_cb and relayfence_request_cb: with no namespace the  *)
(* error goes to whoever holds the request, as an event.                    *)
Relay(m) ==
    /\ IF root[Leader].st # "up"
       THEN /\ Publish([t |-> "error",
                        names |-> {IF m.t = "relaycommit" THEN m.q ELSE Req[m.q].name}])
            /\ UNCHANGED <<treq, ready, workq>>
       ELSE /\ IF m.t = "relaycommit"
               THEN /\ AddTransaction(m.q, <<m.q>>, Req[m.q].nomerge)
                    /\ UNCHANGED treq
               ELSE CountFence(m.q, {})
            /\ UNCHANGED <<inbox, wire>>

(* The error answer to a getroot: ENOTSUP. *)
NoSuchRoot(q, via) == [t |-> "root", q |-> q, via |-> via, ok |-> FALSE]

(* Mutant: the version is the next one. *)
GetrootRequestNext(c, d, m, ch) ==
    /\ wire' = [wire EXCEPT ![c] = Append(@,
                   [t |-> "root", q |-> m.q, via |-> m.via, ok |-> root[d].st = "up", ref |-> root[d].ref,
                    seq |-> root[d].seq + 1, inc |-> root[d].inc])]
    /\ chan' = ch

(* getroot_request_cb, for the getroot of a child: the leader answers, and  *)
(* so does an inner follower that has a root; one that has none asks its    *)
(* own parent, and the child's request waits.                               *)
GetrootRequest(c, d, m, ch) ==
    \/ /\ root[d].st = "up"
       /\ wire' = [wire EXCEPT ![c] = Append(@,
                      [t |-> "root", q |-> m.q, via |-> m.via, ok |-> TRUE,
                       ref |-> root[d].ref, seq |-> root[d].seq, inc |-> root[d].inc])]
       /\ chan' = ch
    \/ /\ root[d].st # "up" /\ d = Leader
       /\ wire' = [wire EXCEPT ![c] = Append(@, NoSuchRoot(m.q, m.via))]
       /\ chan' = ch
    \/ /\ root[d].st # "up" /\ d # Leader
       /\ chan' = Ask(ch, d, m.q, <<c>> \o m.via)
       /\ UNCHANGED wire

(* The request that getroot_completion put back is handled again: the       *)
(* request of a client, or the getroot of a child.                          *)
Again(r) ==
    /\ requeue[r] # <<>>
    /\ requeue' = [requeue EXCEPT ![r] = Tail(@)]
    /\ LET m == Head(requeue[r])
       IN \/ m.via = <<>> /\ Handle(m.q) /\ UNCHANGED wire
          \/ \E c \in Followers :
                /\ Parent[c] = r /\ m.via # <<>> /\ Head(m.via) = c
                /\ GetrootRequest(c, r, [q |-> m.q, via |-> Tail(m.via)], chan)
                /\ UNCHANGED <<root, treq, ready, workq, resp>>
    /\ UNCHANGED <<sub, inbox, log, used>>

(* The KVS of rank d takes a request from the KVS of rank c. *)
Serve(c, d) ==
    /\ Free(d)
    /\ chan[c][d] # <<>>
    /\ LET m == Head(chan[c][d])
           rest == [chan EXCEPT ![c][d] = Tail(@)]
       IN \/ /\ m.t = "getroot"
             /\ GetrootRequest(c, d, m, rest)
             /\ UNCHANGED <<treq, ready, workq, inbox>>
          \/ /\ m.t # "getroot"
             /\ Relay(m)
             /\ chan' = rest
    /\ UNCHANGED <<root, sub, requeue, resp, log, used>>

(* handle_event and the routing of a response in the broker of rank r: an   *)
(* event goes on to the children, and to the KVS if it is subscribed now.   *)
Deliver(r) ==
    /\ wire[r] # <<>>
    /\ LET m == Head(wire[r])
           rest == [wire EXCEPT ![r] = Tail(@)]
       IN /\ wire' = IF m.t = "root" THEN rest ELSE Forward(rest, r, m)
          /\ inbox' = IF m.t = "root" \/ r \in sub
                      THEN [inbox EXCEPT ![r] = Append(@, m)] ELSE inbox
    /\ UNCHANGED <<root, treq, ready, workq, sub, chan, requeue, resp, log, used>>

(* getroot_completion: the root may have been set up meanwhile by another   *)
(* request; the request is put back at the head of the queue.  An error     *)
(* goes to whoever waits, a client or a child.                              *)
GetrootDone(r, m) ==
    IF ~m.ok
    THEN /\ \/ /\ m.via = <<>>
               /\ resp' = Fail(resp, {m.q})
               /\ UNCHANGED wire
            \/ \E c \in Followers :
               /\ Parent[c] = r /\ m.via # <<>> /\ Head(m.via) = c
               /\ wire' = [wire EXCEPT ![c] = Append(@, NoSuchRoot(m.q, Tail(m.via)))]
               /\ UNCHANGED resp
         /\ UNCHANGED <<root, sub, requeue>>
    ELSE /\ IF root[r].st = "none"
            THEN /\ root' = [root EXCEPT ![r] = [st |-> "up", ref |-> m.ref, seq |-> m.seq,
                                                inc |-> m.inc]]
                 /\ sub' = sub \cup {r}
                 /\ UNCHANGED resp
            ELSE /\ IF root[r].st = "removed" THEN UNCHANGED <<root, resp>>
                    ELSE SetRoot(r, resp, m.ref, m.seq, m.inc)
                 /\ UNCHANGED sub
         /\ requeue' = [requeue EXCEPT ![r] = <<[q |-> m.q, via |-> m.via]>> \o @]
         /\ UNCHANGED wire

(* setroot_event_cb and setroot_event_process: the clients are answered     *)
(* before the root is set.                                                  *)
SetrootEvent(r, m) ==
    IF root[r].st = "none" THEN UNCHANGED <<root, treq, resp>>
    ELSE /\ treq' = FinalTreq(r, m.names)
         /\ IF root[r].st = "removed"
            THEN /\ resp' = FinalResp(r, m.names, FALSE)
                 /\ UNCHANGED root
            ELSE SetRoot(r, FinalResp(r, m.names, TRUE), m.ref, m.seq, m.inc)

(* error_event_cb *)
ErrorEvent(r, m) ==
    /\ treq' = FinalTreq(r, m.names)
    /\ resp' = FinalResp(r, m.names, FALSE)
    /\ UNCHANGED root

(* kvs_wait_version_process: the waiters run in the order of the versions   *)
(* they wait for; the sort leaves that of equal versions open.              *)
Orders(S) ==
    LET n == Cardinality(S)
    IN {s \in [1..n -> S] :
           \A i, k \in 1..n : i < k => s[i] # s[k] /\ Req[s[i]].seq <= Req[s[k]].seq}

(* start_root_remove: the waiters are run again, which on the leader ends   *)
(* them and on a follower asks the parent; transactions that never became   *)
(* ready are answered.                                                      *)
StartRootRemove(r) ==
    LET open == {n \in DOMAIN treq[r] : ~treq[r][n].processed}
        told == IF r = Leader THEN WaitersOf(r) ELSE {}
        again == IF r = Leader THEN {} ELSE WaitersOf(r)
    IN /\ root' = [root EXCEPT ![r].st = "removed"]
       /\ treq' = FinalTreq(r, open)
       /\ resp' = [q \in Requests |->
                     IF q \in again THEN [resp[q] EXCEPT !.st = "sent"]
                     ELSE Fail(resp, told \cup CopiesOf(r, open))[q]]
       /\ IF r = Leader THEN UNCHANGED chan
          ELSE \E qs \in Orders(again) :
                  chan' = [chan EXCEPT ![r][Parent[r]] = @ \o
                             [i \in DOMAIN qs |-> [t |-> "getroot", q |-> qs[i], via |-> <<>>]]]

(* namespace_removed_event_cb *)
RemovedEvent(r) ==
    IF root[r].st = "up" THEN StartRootRemove(r)
    ELSE UNCHANGED <<root, treq, resp, chan>>

Receive(r) ==
    /\ Free(r)
    /\ inbox[r] # <<>>
    /\ inbox' = [inbox EXCEPT ![r] = Tail(@)]
    /\ LET m == Head(inbox[r])
       IN \/ m.t = "root" /\ GetrootDone(r, m) /\ UNCHANGED <<treq, chan>>
          \/ m.t = "setroot" /\ SetrootEvent(r, m) /\ UNCHANGED <<sub, wire, chan, requeue>>
          \/ m.t = "error" /\ ErrorEvent(r, m) /\ UNCHANGED <<sub, wire, chan, requeue>>
          \/ m.t = "removed" /\ RemovedEvent(r) /\ UNCHANGED <<sub, wire, requeue>>
    /\ UNCHANGED <<ready, workq, log, used>>

-----------------------------------------------------------------------------
(* The namespace *)

(* namespace_create: refused while the old one is still being removed. *)
NamespaceCreate ==
    /\ Free(Leader)
    /\ root[Leader].st = "none"
    /\ used.creates < MaxCreates
    /\ used' = [used EXCEPT !.creates = @ + 1]
    /\ root' = [root EXCEPT ![Leader] = [st |-> "up", ref |-> EmptyDir, seq |-> 0,
                                          inc |-> used.creates + 1]]
    /\ UNCHANGED <<treq, ready, workq, sub, inbox, wire, chan, requeue, resp, log>>

(* namespace_remove *)
NamespaceRemove ==
    /\ Free(Leader)
    /\ root[Leader].st = "up"
    /\ Publish([t |-> "removed"])
    /\ StartRootRemove(Leader)
    /\ workq' = FALSE
    /\ UNCHANGED <<ready, sub, requeue, log, used>>

(* heartbeat_root_cb: a removed root that nothing refers to is deleted. *)
Unused(r) == WaitersOf(r) = {} /\ DOMAIN treq[r] = {} /\ (r = Leader => ready = <<>>)

HeartbeatDelete(r) ==
    /\ Free(r)
    /\ root[r].st = "removed"
    /\ Unused(r)
    /\ root' = [root EXCEPT ![r] = NoRoot]
    /\ sub' = sub \ {r}
    /\ UNCHANGED <<treq, ready, workq, inbox, wire, chan, requeue, resp, log, used>>

(* heartbeat_root_cb: a follower drops a root not updated for long. *)
HeartbeatExpire(r) ==
    /\ Free(r)
    /\ root[r].st = "up"
    /\ Unused(r)
    /\ used.expires < used.max.expires
    /\ used' = [used EXCEPT !.expires = @ + 1]
    /\ StartRootRemove(r)
    /\ UNCHANGED <<ready, workq, sub, inbox, wire, requeue, log>>

Next ==
    \/ TransactionCheck
    \/ TransactionResume
    \/ TransactionFault
    \/ NamespaceCreate
    \/ NamespaceRemove
    \/ \E q \in Requests : Request(q) \/ LookupReplay(q) \/ Disconnect(q)
    \/ \E r \in Ranks : Receive(r) \/ HeartbeatDelete(r)
    \/ \E r \in Followers : Again(r) \/ Deliver(r) \/ HeartbeatExpire(r)
    \/ \E c \in Followers : \E d \in {Leader, Parent[c]} : Serve(c, d)

(* The reactors run, messages arrive, loads and stores complete.  The       *)
(* heartbeat comes round whatever else the queue holds: a follower that     *)
(* asks for the root again and again while its own is being removed cannot  *)
(* keep it away.                                                            *)
Fairness ==
    /\ WF_vars(TransactionCheck)
    /\ WF_vars(TransactionResume)
    /\ \A r \in Ranks : WF_vars(Receive(r)) /\ SF_vars(HeartbeatDelete(r))
    /\ \A r \in Followers : WF_vars(Again(r)) /\ WF_vars(Deliver(r))
    /\ \A c \in Followers : \A d \in {Leader, Parent[c]} : WF_vars(Serve(c, d))

Spec == Init /\ [][Next]_vars /\ Fairness

-----------------------------------------------------------------------------
(* Properties *)

(* The version of an incarnation of the namespace, as the leader published  *)
(* it.                                                                      *)
Published(inc, seq, ref) ==
    \/ seq = 0 /\ ref = EmptyDir
    \/ \E i \in DOMAIN log : log[i].inc = inc /\ log[i].seq = seq /\ log[i].ref = ref

(* Whatever the order of events and getroot responses, the root a rank      *)
(* holds, and the root a lookup walks from, is a version that the leader    *)
(* published under that number (setroot, kvs.c:310).                        *)
RootsAgree ==
    /\ \A r \in Ranks : root[r].st = "up" => Published(root[r].inc, root[r].seq, root[r].ref)
    /\ \A q \in Requests : resp[q].st \in {"loading", "ok"} =>
            \E inc \in 1..MaxCreates : Published(inc, resp[q].seq, resp[q].ref)

Has(ops, q) == \E i \in DOMAIN ops : ops[i] = q

(* Rank r is no older than the versions that have the commits and fences    *)
(* answered with success there.                                             *)
HasWrites(r) ==
    \A q \in Writers : \A i \in DOMAIN log :
        (Req[q].rank = r /\ resp[q].st = "ok" /\ Has(log[i].ops, q)
         /\ root[r].st = "up" /\ root[r].inc = log[i].inc) => root[r].seq >= log[i].seq

(* Read your writes, on the leader and on the ranks that ask it for the     *)
(* root: once a commit or fence was answered with success on such a rank,   *)
(* its root is no older than the version that has it, although the answer   *)
(* leaves before the root is set (kvs.c:2226), and although the root may be *)
(* dropped and asked for again.                                             *)
ReadYourWrites == \A r \in NextToLeader : HasWrites(r)

(* "A process having updated a data item, never accesses an older value"    *)
(* (doc/guide/kvs.rst): read your writes on every rank.  Further down the   *)
(* tree it fails: the parent may answer a getroot with its own, older root  *)
(* after its broker forwarded the setroot event.                            *)
ReadYourWritesAnywhere == \A r \in Ranks : HasWrites(r)

(* While a rank keeps one incarnation of the namespace, its root never goes *)
(* back to an older version: on the ranks next to the leader never at all,  *)
(* on the others never but to a version 0.  setroot refuses older versions  *)
(* but takes a version 0 whatever it holds (kvs.c:315), so for the former   *)
(* this says that the answer to a getroot sent before the first commit      *)
(* never arrives after an event of a later version; the answer of an inner  *)
(* rank may.                                                                *)
NeverBack ==
    [][\A r \in Ranks :
          root[r].st = "up" /\ root'[r].st = "up" /\ root'[r].inc = root[r].inc
              => \/ root'[r].seq >= root[r].seq
                 \/ r \notin NextToLeader /\ root'[r].seq = 0]_vars

(* Every commit is answered, whatever blocks, fails or is removed           *)
(* meanwhile, and a removed root is in the end deleted: again and again no  *)
(* commit waits for its answer and no root for its deletion.                *)
Settles ==
    []<>(/\ \A q \in Requests : Req[q].kind = "commit" => resp[q].st # "sent"
         /\ \A r \in Ranks : root[r].st # "removed")

(* "After the commit has completed, display the new root sequence number"   *)
(* (doc/man1/flux-kvs.rst): the version in the answer to a successful       *)
(* commit has the commit.                                                   *)
AnswerHasCommit ==
    \A q \in Writers : \A i \in DOMAIN log :
        (resp[q].st = "ok" /\ Has(log[i].ops, q)) => resp[q].seq >= log[i].seq

(* The setroot event is sent "for 'eventual consistency' of other nodes"    *)
(* (kvs.c): again and again every root held is the leader's.                *)
EventuallyConsistent ==
    []<>(\A r \in Followers : root[r].st = "up" => root[r].ref = root[Leader].ref)
=============================================================================
