------------------------------- MODULE Groups -------------------------------
(***************************************************************************)
(* Broker groups (src/broker/groups.c): each broker keeps the members that *)
(* its subtree has in each group, collects JOINs and LEAVEs in a batch     *)
(* until a timer ends, applies them and passes them upstream.  Brokers say *)
(* goodbye, crash, are disconnected and come back with a new uuid          *)
(* (src/broker/overlay.c), and the parent makes the lost subtree leave.    *)
(*                                                                         *)
(* A request that a child sends is first routed (child_cb) and then put in *)
(* the queue of messages for the broker's own services, which a later turn *)
(* of the reactor handles.                                                 *)
(***************************************************************************)
EXTENDS Naturals, Sequences, FiniteSets, SequencesExt, FiniteSetsExt, Tree

CONSTANTS Online, Torpid,   \* broker.online, which clients join, and broker.torpid
          GroupScenarios    \* sets of [joins, leaves, ends, byes, crashes, cuts, back, slow]:
                            \* how often a client joins at each rank, and the ranks where
                            \* one leaves or disconnects, that say goodbye, crash, are
                            \* disconnected, return or turn torpid

Groups == {Online, Torpid}

VARIABLES gr,       \* [Ranks -> record]: struct groups of a broker
          life,     \* [Ranks -> record]: whether the broker runs, its uuid, parent.offline
          link,     \* [Ranks -> record]: the struct child its parent has for it
          wire,     \* [Ranks -> Seq]: messages to the parent
          inq,      \* [Ranks -> Seq]: messages queued for the broker's own services
          told,     \* [Groups -> ranks]: the last response to a streaming groups.get
          late,     \* ranks that were lost while an update of theirs was in inq
          gleft     \* what may still happen

group_vars == <<gr, life, link, wire, inq, told, late, gleft>>

NewGroups == [members |-> [g \in Groups |-> {}], joined |-> [g \in Groups |-> FALSE],
              batch |-> [g \in Groups |-> <<>>], timer |-> FALSE, torpid |-> {}]

Update(ranks, set) == [ranks |-> ranks, set |-> set]        \* update_encode

GroupsInit(s) ==
    /\ gr = [r \in Ranks |-> NewGroups]
    /\ life = [r \in Ranks |-> [up |-> TRUE, uuid |-> 1, cut |-> FALSE, bye |-> FALSE]]
    /\ link = [r \in Ranks |-> [st |-> "online", uuid |-> 1, torpid |-> FALSE]]
    /\ wire = [r \in Ranks |-> <<>>]
    /\ inq = [r \in Ranks |-> <<>>]
    /\ told = [g \in Groups |-> {}]
    /\ late = {}
    /\ gleft = s

-----------------------------------------------------------------------------
(* Batches *)

ApplyOne(members, u) == IF u.set THEN members \cup u.ranks ELSE members \ u.ranks

(* batch_apply_one for each entry, in order *)
Applied(members, updates) == FoldLeft(ApplyOne, members, updates)

(* Mutant: the order of joins and leaves is lost. *)
BatchReduceOneAny(a) ==
    IF Len(a) < 2 THEN a
    ELSE <<Update(UNION {a[i].ranks : i \in DOMAIN a}, a[1].set)>>

(* batch_reduce_one and batch_reduce: like updates become one. *)
BatchReduceOne(a) ==
    IF Len(a) < 2 \/ \E i \in DOMAIN a : a[i].set # a[1].set THEN a
    ELSE <<Update(UNION {a[i].ranks : i \in DOMAIN a}, a[1].set)>>

(* batch_append: the timer is started by the first update of a batch. *)
BatchAppend(s, g, updates) ==
    [s EXCEPT !.batch[g] = @ \o updates,
              !.timer = @ \/ \A h \in Groups : s.batch[h] = <<>>]

Reduced(s) == [g \in Groups |-> BatchReduceOne(s.batch[g])]

(* batch_apply *)
BatchApply(s, batch) ==
    [s EXCEPT !.members = [g \in Groups |-> Applied(@[g], batch[g])],
              !.batch = [g \in Groups |-> <<>>], !.timer = FALSE]

NoBatch == [g \in Groups |-> <<>>]

(* A handler of groups takes what it works on through its calls: the groups, *)
(* the batches it sends, and at rank 0 the members it responds with.        *)
Node(r) == [s |-> gr[r], sent |-> <<>>, told |-> told]

BatchFlush(n, r) ==
    LET batch == Reduced(n.s)
        s == BatchApply(n.s, batch)
    IN [s |-> s,
        sent |-> IF batch = NoBatch THEN n.sent ELSE Append(n.sent, batch),
        told |-> IF r # 0 THEN n.told
                 ELSE [g \in Groups |-> IF batch[g] = <<>> THEN n.told[g] ELSE s.members[g]]]

(* overlay_sendmsg_parent fails after a disconnect or the goodbye. *)
SendUp(w, r, kind, batches) ==
    IF r = 0 \/ life[r].cut \/ life[r].bye THEN w
    ELSE [w EXCEPT ![r] = @ \o [i \in DOMAIN batches |->
                                   [kind |-> kind, uuid |-> life[r].uuid, batch |-> batches[i]]]]

Commit(r, n, w) ==
    /\ gr' = [gr EXCEPT ![r] = n.s]
    /\ told' = n.told
    /\ wire' = SendUp(w, r, "update", n.sent)

BatchTimeout(r) ==
    /\ life[r].up /\ gr[r].timer
    /\ Commit(r, BatchFlush(Node(r), r), wire)
    /\ UNCHANGED <<life, link, inq, late, gleft>>

-----------------------------------------------------------------------------
(* Clients *)

Join(s, r) == [BatchAppend(s, Online, <<Update({r}, TRUE)>>) EXCEPT !.joined[Online] = TRUE]

Leave(s, r) == [BatchAppend(s, Online, <<Update({r}, FALSE)>>) EXCEPT !.joined[Online] = FALSE]

(* join_request_cb: one client may join on a broker. *)
JoinRequest(r) ==
    /\ life[r].up /\ gleft.joins[r] > 0 /\ ~gr[r].joined[Online]
    /\ gleft' = [gleft EXCEPT !.joins[r] = @ - 1]
    /\ gr' = [gr EXCEPT ![r] = Join(@, r)]
    /\ UNCHANGED <<life, link, wire, inq, told, late>>

LeaveRequest(r) ==
    /\ life[r].up /\ r \in gleft.leaves /\ gr[r].joined[Online]
    /\ gleft' = [gleft EXCEPT !.leaves = @ \ {r}]
    /\ gr' = [gr EXCEPT ![r] = Leave(@, r)]
    /\ UNCHANGED <<life, link, wire, inq, told, late>>

(* disconnect_cb: joins that are pending are handled first. *)
ClientDisconnect(r) ==
    LET n == BatchFlush(Node(r), r)
    IN /\ life[r].up /\ r \in gleft.ends /\ gr[r].joined[Online]
       /\ gleft' = [gleft EXCEPT !.ends = @ \ {r}]
       /\ Commit(r, [n EXCEPT !.s = Leave(@, r)], wire)
       /\ UNCHANGED <<life, link, inq, late>>

-----------------------------------------------------------------------------
(* The overlay *)

AutoLeave(s, c) ==
    LET Gone(g) == s.members[g] \cap Subtree(c)
        Step(t, g) == IF Gone(g) = {} THEN t ELSE BatchAppend(t, g, <<Update(Gone(g), FALSE)>>)
    IN Step(Step(s, Online), Torpid)

TorpidUpdate(s, c, torpid) ==
    IF torpid = (c \in s.torpid) THEN s
    ELSE [BatchAppend(s, Torpid, <<Update({c}, torpid)>>) EXCEPT
             !.torpid = IF torpid THEN @ \cup {c} ELSE @ \ {c}]

(* overlay_monitor_cb at the parent of c: the status of c is now st. *)
OverlayNotify(n, c, st, torpid) ==
    LET f == BatchFlush(n, Above[c])
    IN [f EXCEPT !.s = IF st = "online" THEN TorpidUpdate(@, c, torpid) ELSE AutoLeave(@, c)]

Linked(c) == link[c].st = "online" /\ link[c].uuid = life[c].uuid

(* The ranks that are named by an update of c in the queue of its parent     *)
InQueue(c) ==
    UNION {UNION {UNION {m.batch[g][i].ranks : i \in DOMAIN m.batch[g]} : g \in Groups} :
              m \in {n \in Range(inq[Above[c]]) : n.kind = "update" /\ n.from = c}}

(* overlay_sendmsg_child finds the child gone. *)
ChildLost(c) ==
    LET p == Above[c]
    IN /\ life[p].up /\ link[c].st = "online" /\ ~life[c].up
       /\ link' = [link EXCEPT ![c].st = "lost"]
       /\ Commit(p, OverlayNotify(Node(p), c, "lost", FALSE), wire)
       /\ late' = late \cup InQueue(c)
       /\ UNCHANGED <<life, inq, gleft>>

(* child_cb: hello of a child that returns (it is lost first if it counts as *)
(* online still), a request of a child that is online, or anything else,     *)
(* which is answered with a disconnect.                                     *)
RouteFromChild(c) ==
    LET p == Above[c]
        m == Head(wire[c])
        rest == [wire EXCEPT ![c] = Tail(@)]
        online == link[c].st = "online"
        known == online /\ link[c].uuid = m.uuid
        lost == IF online THEN OverlayNotify(Node(p), c, "lost", FALSE) ELSE Node(p)
    IN /\ life[p].up /\ wire[c] # <<>>
       /\ \/ /\ m.kind = "hello"
             /\ link' = [link EXCEPT ![c].st = "online", ![c].uuid = m.uuid]
             /\ Commit(p, OverlayNotify(lost, c, "online", link[c].torpid), rest)
             /\ late' = IF online THEN late \cup InQueue(c) ELSE late
             /\ UNCHANGED <<life, inq>>
          \/ /\ m.kind # "hello" /\ known
             /\ inq' = [inq EXCEPT ![p] = Append(@, [kind |-> m.kind, from |-> c, uuid |-> m.uuid,
                                                     batch |-> m.batch])]
             /\ wire' = rest
             /\ UNCHANGED <<gr, told, life, link, late>>
          \/ /\ m.kind # "hello" /\ ~known
             /\ life' = IF m.uuid = life[c].uuid THEN [life EXCEPT ![c].cut = TRUE] ELSE life
             /\ wire' = rest
             /\ UNCHANGED <<gr, told, link, inq, late>>
       /\ UNCHANGED gleft

(* update_request_cb, overlay_goodbye_cb and overlay_disconnect_subtree_cb *)
HandleRequest(p) ==
    LET m == Head(inq[p])
        c == m.from
        ChildIs(st) == [link EXCEPT ![c].st = st]
    IN /\ life[p].up /\ inq[p] # <<>>
       /\ inq' = [inq EXCEPT ![p] = Tail(@)]
       /\ \/ /\ m.kind = "update"
             /\ gr' = [gr EXCEPT ![p] = BatchAppend(BatchAppend(@, Online, m.batch[Online]),
                                                   Torpid, m.batch[Torpid])]
             /\ UNCHANGED <<life, link, wire, told, late>>
          \/ /\ m.kind = "goodbye" /\ link[c].st = "online" /\ link[c].uuid = m.uuid
             /\ link' = ChildIs("offline")
             /\ Commit(p, OverlayNotify(Node(p), c, "offline", FALSE), wire)
             /\ UNCHANGED <<life, late>>
          \/ /\ m.kind = "cut" /\ link[c].st = "online"
             /\ life' = IF link[c].uuid = life[c].uuid THEN [life EXCEPT ![c].cut = TRUE] ELSE life
             /\ link' = ChildIs("lost")
             /\ Commit(p, OverlayNotify(Node(p), c, "lost", FALSE), wire)
             /\ late' = late \cup InQueue(c)
          \/ /\ m.kind \in {"goodbye", "cut"}
             /\ link[c].st # "online" \/ (m.kind = "goodbye" /\ link[c].uuid # m.uuid)
             /\ UNCHANGED <<gr, life, link, wire, told, late>>
       /\ UNCHANGED gleft

(* flux overlay disconnect *)
DisconnectRequest(c) ==
    /\ c \in gleft.cuts /\ life[Above[c]].up
    /\ gleft' = [gleft EXCEPT !.cuts = @ \ {c}]
    /\ inq' = [inq EXCEPT ![Above[c]] = Append(@, [kind |-> "cut", from |-> c, uuid |-> 0,
                                                   batch |-> NoBatch])]
    /\ UNCHANGED <<gr, life, link, wire, told, late>>

(* update_torpid_children: no message of the child for a while, and one     *)
(* again.                                                                   *)
TorpidChange(c, torpid) ==
    /\ life[Above[c]].up /\ link[c].st = "online" /\ link[c].torpid # torpid
    /\ link' = [link EXCEPT ![c].torpid = torpid]
    /\ Commit(Above[c], OverlayNotify(Node(Above[c]), c, "online", torpid), wire)
    /\ UNCHANGED <<life, inq, late>>

TurnTorpid(c) ==
    /\ c \in gleft.slow
    /\ gleft' = [gleft EXCEPT !.slow = @ \ {c}]
    /\ TorpidChange(c, TRUE)

TurnResponsive(c) == TorpidChange(c, FALSE) /\ UNCHANGED gleft

(* overlay_goodbye_parent: no message to the parent follows. *)
SayGoodbye(c) ==
    /\ life[c].up /\ ~life[c].bye /\ c \in gleft.byes
    /\ gleft' = [gleft EXCEPT !.byes = @ \ {c}]
    /\ life' = [life EXCEPT ![c].bye = TRUE]
    /\ wire' = SendUp(wire, c, "goodbye", <<NoBatch>>)
    /\ UNCHANGED <<gr, link, inq, told, late>>

GroupsCrash(c) ==
    /\ life[c].up /\ c \in gleft.crashes
    /\ gleft' = [gleft EXCEPT !.crashes = @ \ {c}]
    /\ life' = [life EXCEPT ![c].up = FALSE]
    /\ UNCHANGED <<gr, link, wire, inq, told, late>>

(* A broker that was cut off, or that said goodbye, exits. *)
GroupsExit(c) ==
    /\ life[c].up
    /\ life[c].cut \/ (life[c].bye /\ ~Linked(c))
    /\ life' = [life EXCEPT ![c].up = FALSE]
    /\ UNCHANGED <<gr, link, wire, inq, told, late, gleft>>

(* It is started again: overlay_connect with a new uuid. *)
GroupsRestart(c) ==
    /\ ~life[c].up /\ c \in gleft.back /\ life[Above[c]].up
    /\ gleft' = [gleft EXCEPT !.back = @ \ {c}]
    /\ life' = [life EXCEPT ![c] = [up |-> TRUE, uuid |-> @.uuid + 1, cut |-> FALSE, bye |-> FALSE]]
    /\ gr' = [gr EXCEPT ![c] = NewGroups]
    /\ inq' = [inq EXCEPT ![c] = <<>>]
    /\ link' = [d \in Ranks |-> IF d \in Below(c)
                                THEN [st |-> "offline", uuid |-> 0, torpid |-> FALSE] ELSE link[d]]
    /\ wire' = [wire EXCEPT ![c] = Append(@, [kind |-> "hello", uuid |-> life[c].uuid + 1,
                                              batch |-> NoBatch])]
    /\ UNCHANGED <<told, late>>

(* A child of a broker that has come back sends, and is disconnected. *)
OrphanCut(c) ==
    /\ life[c].up /\ ~life[c].cut /\ life[Above[c]].up /\ ~Linked(c)
    /\ ~\E i \in DOMAIN wire[c] : wire[c][i].uuid = life[c].uuid
    /\ life' = [life EXCEPT ![c].cut = TRUE]
    /\ UNCHANGED <<gr, link, wire, inq, told, late, gleft>>

GroupsWork ==
    \/ \E r \in Ranks : BatchTimeout(r) \/ HandleRequest(r)
    \/ \E c \in Ranks \ {0} : \/ ChildLost(c) \/ RouteFromChild(c) \/ GroupsExit(c) \/ OrphanCut(c)
                              \/ TurnResponsive(c)

GroupsNext ==
    \/ GroupsWork
    \/ \E r \in Ranks : JoinRequest(r) \/ LeaveRequest(r) \/ ClientDisconnect(r)
    \/ \E c \in Ranks \ {0} : \/ TurnTorpid(c)
                              \/ DisconnectRequest(c) \/ SayGoodbye(c)
                              \/ GroupsCrash(c) \/ GroupsRestart(c)

GroupsSpec == (\E s \in GroupScenarios : GroupsInit(s)) /\ [][GroupsNext]_group_vars
              /\ WF_group_vars(GroupsWork)

-----------------------------------------------------------------------------
(* Properties *)

(* Rank r is connected to rank 0. *)
Reaches[r \in Ranks] ==
    r = 0 \/ (life[r].up /\ ~life[r].bye /\ ~life[r].cut /\ Linked(r) /\ Reaches[Above[r]])

(* Nothing more is going to happen by itself. *)
GroupsQuiet ==
    /\ \A r \in Ranks : life[r].up => ~gr[r].timer /\ inq[r] = <<>> /\ ~life[r].cut
    /\ \A c \in Ranks \ {0} : life[Above[c]].up =>
           /\ wire[c] = <<>>
           /\ life[c].up => Linked(c)
           /\ link[c].st = "online" => life[c].up /\ ~link[c].torpid

(* "membership for the full instance available at rank 0" and "if the        *)
(* overlay subsystem notifies us that a peer subtree has become lost, LEAVEs *)
(* are automatically generated for all groups that the subtree ranks belong  *)
(* to" (groups.c): once joins, leaves and losses have come through, those    *)
(* that follow a group at rank 0 have last been told exactly the ranks that  *)
(* are joined and connected, and no rank is left over in broker.torpid that  *)
(* was torpid when it was lost.  An update that was queued at the parent     *)
(* while its sender was lost is excepted (see GroupsExact).                 *)
GroupsAgree ==
    GroupsQuiet =>
        /\ told[Online] \ late = {r \in Ranks : gr[r].joined[Online] /\ Reaches[r]} \ late
        /\ told[Torpid] \subseteq late

(* The same of broker.online without the exception. *)
GroupsExact ==
    GroupsQuiet => told[Online] = {r \in Ranks : gr[r].joined[Online] /\ Reaches[r]}
=============================================================================
