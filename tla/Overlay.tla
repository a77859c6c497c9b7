------------------------------ MODULE Overlay -------------------------------
(***************************************************************************)
(* The overlay network of the brokers (src/broker/overlay.c) and the       *)
(* routing above it (src/broker/broker.c): children say hello with their   *)
(* uuid, statuses of subtrees travel upstream, requests travel along the   *)
(* tree and responses back along the route they took, each hop tracks the  *)
(* requests it has passed on (src/common/librouter/rpc_track.c) and        *)
(* answers them itself when the hop is lost, and events are published by   *)
(* rank 0 (src/broker/publisher.c) and passed down.                        *)
(***************************************************************************)
EXTENDS Naturals, Sequences, FiniteSets, SequencesExt, Tree

CONSTANTS Rpcs,              \* [id -> [from, to, more]]: requests of clients, with the number
                             \* of responses before the last
          OverlayScenarios   \* sets of [rpcs, hangups, events, crashes, cuts, byes, back, shut,
                             \* old]: the requests that are made, those whose client leaves, the
                             \* ranks that publish an event, crash, are disconnected, say goodbye,
                             \* return, shut down, and those that return with another version

VARIABLES ov,       \* [Ranks -> record]: struct overlay, and the broker around it
          kid,      \* [Ranks -> record]: the struct child that its parent has for a rank
          oup, odn, \* [Ranks -> Seq]: messages of a rank to and from its parent
          rpc,      \* [DOMAIN Rpcs -> record]: the client's view of its request
          service,  \* requests that a service has received and not answered for good
          health,   \* the last response to a streaming overlay.health at rank 0
          oleft     \* what may still happen

overlay_vars == <<ov, kid, oup, odn, rpc, service, health, oleft>>

OnlineStatus == {"full", "partial", "degraded"}

(* subtree_status_update *)
StatusOf(k, r) ==
    IF \E c \in Below(r) : k[c].st \in {"degraded", "lost"} THEN "degraded"
    ELSE IF \E c \in Below(r) : k[c].st \in {"partial", "offline"} THEN "partial"
    ELSE "full"

NewKid == [st |-> "offline", uuid |-> 0, tracker |-> {}]

FirstStatus(r) == IF Below(r) = {} THEN "full" ELSE "partial"

(* overlay_create.  up: the process runs; hello: hello_responded; puuid:    *)
(* parent.uuid; refused: hello_error; offline: a disconnect was received;   *)
(* bye: goodbye_sent; shut: shutdown_in_progress; tracker: parent.tracker;  *)
(* seq: event_recv_seq, and gap: events were lost.                          *)
NewOverlay(r, uuid) ==
    [up |-> TRUE, uuid |-> uuid, hello |-> r = 0, puuid |-> 0, refused |-> FALSE, offline |-> FALSE, bye |-> FALSE,
     shut |-> FALSE, status |-> FirstStatus(r), tracker |-> {}, seq |-> 0, gap |-> FALSE]

(* hello_request_send; same: its version is that of its parent *)
Hello(r, uuid, same) == [k |-> "hello", u |-> uuid, st |-> FirstStatus(r), same |-> same]

OverlayInit(s) ==
    /\ ov = [r \in Ranks |-> NewOverlay(r, 1)]
    /\ kid = [r \in Ranks |-> NewKid]
    /\ oup = [r \in Ranks |-> IF r = 0 THEN <<>> ELSE <<Hello(r, 1, TRUE)>>]
    /\ odn = [r \in Ranks |-> <<>>]
    /\ rpc = [i \in DOMAIN Rpcs |-> [open |-> FALSE, ends |-> 0, after |-> FALSE]]
    /\ service = {}
    /\ health = [st |-> FirstStatus(0), kids |-> [c \in Below(0) |-> "offline"]]
    /\ oleft = s

-----------------------------------------------------------------------------
(* A handler takes what it may change through its calls. *)

World == [ov |-> ov, kid |-> kid, up |-> oup, dn |-> odn, rpc |-> rpc, service |-> service,
          health |-> health]

Done(new) ==
    \E w \in {new} :
      /\ ov' = w.ov /\ kid' = w.kid /\ oup' = w.up /\ odn' = w.dn /\ rpc' = w.rpc
      /\ service' = w.service /\ health' = w.health

IsOnline(k) == k.st \in OnlineStatus

(* overlay_sendmsg_parent: FALSE when it fails, and what it sends *)
ParentReachable(w, r) == r # 0 /\ ~w.ov[r].offline /\ ~w.ov[r].bye

SendParent(w, r, m) ==
    IF ParentReachable(w, r)
    THEN [w EXCEPT !.up[r] = Append(@, [m EXCEPT !.u = w.ov[r].uuid])]
    ELSE w

(* overlay_sendmsg_child: what is sent to a process that is gone is lost;   *)
(* PeerVanishes is the send that finds out.                                    *)
SendChild(w, c, uuid, m) ==
    IF w.ov[c].up /\ w.ov[c].uuid = uuid THEN [w EXCEPT !.dn[c] = Append(@, m)] ELSE w

(* overlay_health_respond_all *)
HealthRespond(w, r) ==
    IF r # 0 THEN w
    ELSE [w EXCEPT !.health = [st |-> w.ov[0].status, kids |-> [c \in Below(0) |-> w.kid[c].st]]]

SubtreeStatusUpdate(w, r) ==
    LET st == StatusOf(w.kid, r)
    IN IF st = w.ov[r].status THEN w
       ELSE HealthRespond(SendParent([w EXCEPT !.ov[r].status = st], r,
                                     [k |-> "status", u |-> 0, st |-> st]), r)

(* The client gets a response; after: it came after the last one. *)
Deliver(w, i, end) ==
    [w EXCEPT !.rpc[i] = [@ EXCEPT !.open = @ /\ ~end, !.ends = IF end THEN @ + 1 ELSE @,
                                   !.after = @ \/ w.rpc[i].ends > 0]]

(* rpc_track_update for a response: all but the last of a stream leave it. *)
TrackResponse(t, i, end) == IF end THEN {q \in t : q.id # i} ELSE t

(* broker_response_sendmsg_new: to the client, to the parent, or to the     *)
(* child that the route names if it is online still.  Otherwise no module   *)
(* has that uuid, and the response is dropped.                              *)
RespondTo(w, r, i, route, end) ==
    IF route = <<>> THEN Deliver(w, i, end)
    ELSE LET hop == Last(route)
             c == hop[1]
             m == [k |-> "rsp", u |-> 0, id |-> i, route |-> Front(route), end |-> end]
         IN IF r # 0 /\ hop = <<Above[r], w.ov[r].puuid>> THEN SendParent(w, r, m)
            ELSE IF c \in Below(r) /\ IsOnline(w.kid[c]) /\ w.kid[c].uuid = hop[2]
            THEN SendChild(w, c, hop[2], m)
            ELSE w

(* rpc_track_purge with fail_child_rpcs or fail_parent_rpc *)
FailAll(w, r, tracked) ==
    LET Fail(v, q) == RespondTo(v, r, q.id, q.route, TRUE)
    IN FoldLeft(Fail, w, SetToSeq(tracked))

(* Mutant: the requests that were sent to the child are forgotten. *)
ChildStatusUpdateSilent(w, c, st) ==
    LET r == Above[c]
        lost == IsOnline(w.kid[c]) /\ st \notin OnlineStatus
        v == [w EXCEPT !.kid[c].st = st, !.kid[c].tracker = IF lost THEN {} ELSE @]
    IN IF w.kid[c].st = st THEN w ELSE HealthRespond(SubtreeStatusUpdate(v, r), r)

(* overlay_child_status_update *)
ChildStatusUpdate(w, c, st) ==
    LET r == Above[c]
        lost == IsOnline(w.kid[c]) /\ st \notin OnlineStatus
        v == [w EXCEPT !.kid[c].st = st, !.kid[c].tracker = IF lost THEN {} ELSE @]
        f == IF lost THEN FailAll(v, r, w.kid[c].tracker) ELSE v
    IN IF w.kid[c].st = st THEN w ELSE HealthRespond(SubtreeStatusUpdate(f, r), r)

ChildRoute(r, t) == CHOOSE c \in Below(r) : t \in Subtree(c)  \* topology_get_child_route

(* broker_request_sendmsg_new: to the local service, down the tree or up    *)
(* (overlay_sendmsg_new); a failure is answered at once.  A request that    *)
(* says the client has left ("gone") has no response, clears the trackers   *)
(* on its way (rpc_track_disconnect) and makes the service drop its own.    *)
RouteRequest(w, r, i, k, route) ==
    LET t == Rpcs[i].to
        Refuse(v) == IF k = "req" THEN RespondTo(v, r, i, route, TRUE) ELSE v
        Track(s) == IF k = "req" THEN s \cup {[id |-> i, route |-> route]}
                    ELSE {q \in s : q.id # i}
        m == [k |-> k, u |-> 0, id |-> i, route |-> Append(route, <<r, w.ov[r].uuid>>)]
        c == ChildRoute(r, t)
    IN IF t = r
       THEN IF k = "req"
            THEN [w EXCEPT !.service = @ \cup {[id |-> i, route |-> route, left |-> Rpcs[i].more]}]
            ELSE [w EXCEPT !.service = {q \in @ : q.id # i}]
       ELSE IF t \in Subtree(r)
       THEN IF IsOnline(w.kid[c])
            THEN [SendChild(w, c, w.kid[c].uuid, m) EXCEPT !.kid[c].tracker = Track(@)]
            ELSE Refuse(w)
       ELSE IF ParentReachable(w, r)
            THEN [SendParent(w, r, m) EXCEPT !.ov[r].tracker = Track(@)]
            ELSE Refuse(w)

(* overlay_mcast_child *)
McastChild(w, r, m) ==
    LET Send(v, c) == IF IsOnline(v.kid[c]) THEN SendChild(v, c, v.kid[c].uuid, m) ELSE v
    IN FoldLeft(Send, w, SetToSeq(Below(r)))

(* handle_event *)
HandleEvent(w, r, seq) ==
    IF seq <= w.ov[r].seq THEN w
    ELSE McastChild([w EXCEPT !.ov[r].seq = seq,
                              !.ov[r].gap = @ \/ (w.ov[r].seq > 0 /\ seq # w.ov[r].seq + 1)],
                    r, [k |-> "event", u |-> 0, seq |-> seq])

(* broker_event_sendmsg_new; rank 0 publishes (publisher_send). *)
EventSend(w, r) ==
    IF r > 0 THEN SendParent(w, r, [k |-> "pub", u |-> 0]) ELSE HandleEvent(w, 0, w.ov[0].seq + 1)

-----------------------------------------------------------------------------
(* Actions *)

Alive(r) == ov[r].up
Joined(r) == Alive(r) /\ ov[r].hello /\ ~ov[r].refused     \* its rc1 has begun

ClientRequest(i) ==
    LET r == Rpcs[i].from
    IN /\ i \in oleft.rpcs /\ Joined(r)
       /\ oleft' = [oleft EXCEPT !.rpcs = @ \ {i}]
       /\ Done(RouteRequest([World EXCEPT !.rpc[i].open = TRUE], r, i, "req", <<>>))

ClientLeaves(i) ==
    /\ i \in oleft.hangups /\ rpc[i].open
    /\ oleft' = [oleft EXCEPT !.hangups = @ \ {i}]
    /\ Done(RouteRequest([World EXCEPT !.rpc[i].open = FALSE], Rpcs[i].from, i, "gone", <<>>))

EventPublish(r) ==
    /\ r \in oleft.events /\ Joined(r)
    /\ oleft' = [oleft EXCEPT !.events = @ \ {r}]
    /\ Done(EventSend(World, r))

(* A service sends one of a stream's responses, or the last one. *)
ServiceStreams(q) ==
    /\ q.left > 0
    /\ Done(RespondTo([World EXCEPT !.service = (@ \ {q}) \cup {[q EXCEPT !.left = @ - 1]}],
                      Rpcs[q.id].to, q.id, q.route, FALSE))
    /\ UNCHANGED oleft

ServiceAnswers(q) ==
    /\ q.left = 0
    /\ Done(RespondTo([World EXCEPT !.service = @ \ {q}], Rpcs[q.id].to, q.id, q.route, TRUE))
    /\ UNCHANGED oleft

(* hello_request_handler: a child of another version is refused, though     *)
(* what was known of it is dropped all the same.                            *)
HelloRequest(w, c, m) ==
    LET l == IF IsOnline(w.kid[c]) THEN ChildStatusUpdate(w, c, "lost") ELSE w
        a == ChildStatusUpdate([l EXCEPT !.kid[c].uuid = m.u], c, m.st)
    IN IF m.same THEN SendChild(a, c, m.u, [k |-> "ok", u |-> a.ov[Above[c]].uuid])
       ELSE SendChild(l, c, m.u, [k |-> "refused", u |-> 0])

(* overlay_goodbye_cb *)
GoodbyeRequest(w, c, m) ==
    ChildStatusUpdate(SendChild(w, c, m.u, [k |-> "byeok", u |-> 0]), c, "offline")

(* child_cb for a child that is online *)
FromOnlineChild(w, c, m) ==
    LET r == Above[c]
        t == IF m.k = "rsp" THEN TrackResponse(w.kid[c].tracker, m.id, m.end) ELSE {}
    IN CASE m.k = "status" -> ChildStatusUpdate(w, c, m.st)
         [] m.k \in {"req", "gone"} -> RouteRequest(w, r, m.id, m.k, m.route)
         [] m.k = "rsp" -> RespondTo([w EXCEPT !.kid[c].tracker = t], r, m.id, m.route, m.end)
         [] m.k = "pub" -> EventSend(w, r)
         [] m.k = "bye" -> GoodbyeRequest(w, c, m)

FromStranger(w, c, m) ==
    IF m.k = "hello" /\ ~w.ov[Above[c]].shut THEN HelloRequest(w, c, m)
    ELSE SendChild(w, c, m.u, [k |-> "disconnect", u |-> 0])

(* child_cb: only a child that is online is heard; another may say hello,   *)
(* unless the broker is shutting down, and gets a disconnect for anything   *)
(* else.                                                                    *)
FromChild(w, c, m) ==
    IF IsOnline(w.kid[c]) /\ w.kid[c].uuid = m.u THEN FromOnlineChild(w, c, m)
    ELSE FromStranger(w, c, m)

RecvChild(c) ==
    /\ c # 0 /\ oup[c] # <<>> /\ Alive(Above[c])
    /\ Done(FromChild([World EXCEPT !.up[c] = Tail(@)], c, Head(oup[c])))
    /\ UNCHANGED oleft

(* The process of r ends: its clients and services with it, and what was   *)
(* sent to it.                                                              *)
Dies(w, r) ==
    [w EXCEPT !.ov[r].up = FALSE, !.dn[r] = <<>>,
              !.rpc = [i \in DOMAIN Rpcs |-> IF Rpcs[i].from = r THEN [@[i] EXCEPT !.open = FALSE]
                                             ELSE @[i]],
              !.service = {q \in @ : Rpcs[q.id].to # r}]

(* parent_cb with hello_response_handler: r takes a message of its parent.  *)
(* Only control messages pass before the response to hello, and none after  *)
(* a disconnect.  The response to goodbye lets the broker exit.             *)
FromParent(w, r, m) ==
    LET t == IF m.k = "rsp" THEN TrackResponse(w.ov[r].tracker, m.id, m.end) ELSE {}
    IN CASE m.k = "ok" -> [w EXCEPT !.ov[r].hello = TRUE, !.ov[r].puuid = m.u]
         [] m.k = "refused" -> [w EXCEPT !.ov[r].hello = TRUE, !.ov[r].refused = TRUE]
         [] m.k = "disconnect" ->
               FailAll([w EXCEPT !.ov[r].offline = TRUE, !.ov[r].tracker = {}, !.dn[r] = <<>>],
                       r, w.ov[r].tracker)
         [] m.k \notin {"ok", "refused", "disconnect"} /\ ~w.ov[r].hello -> w
         [] m.k \in {"req", "gone"} /\ w.ov[r].hello -> RouteRequest(w, r, m.id, m.k, m.route)
         [] m.k = "rsp" /\ w.ov[r].hello ->
               RespondTo([w EXCEPT !.ov[r].tracker = t], r, m.id, m.route, m.end)
         [] m.k = "event" /\ w.ov[r].hello -> HandleEvent(w, r, m.seq)
         [] m.k = "byeok" /\ w.ov[r].hello -> Dies(w, r)

RecvParent(r) ==
    /\ odn[r] # <<>> /\ Alive(r)
    /\ Done(FromParent([World EXCEPT !.dn[r] = Tail(@)], r, Head(odn[r])))
    /\ UNCHANGED oleft

Known(c) == IsOnline(kid[c]) /\ kid[c].uuid = ov[c].uuid /\ ov[c].up

(* A send of the parent, at the latest of the next heartbeat event, finds   *)
(* out that the child is gone.                                              *)
PeerVanishes(c) ==
    /\ c # 0 /\ Alive(Above[c]) /\ IsOnline(kid[c]) /\ ~(ov[c].up /\ kid[c].uuid = ov[c].uuid)
    /\ Done(ChildStatusUpdate(World, c, "lost"))
    /\ UNCHANGED oleft

(* sync_cb sends a control message when nothing else was sent for a while.  *)
(* To a parent that knows the child it says nothing that is modelled.       *)
Heartbeat(r) ==
    /\ r # 0 /\ Alive(r) /\ ov[r].hello /\ ParentReachable(World, r) /\ oup[r] = <<>>
    /\ odn[r] = <<>> /\ Alive(Above[r]) /\ ~Known(r)
    /\ Done(SendParent(World, r, [k |-> "heartbeat", u |-> 0]))
    /\ UNCHANGED oleft

-----------------------------------------------------------------------------
(* Faults and administration *)

(* overlay_disconnect_subtree_cb *)
DisconnectChild(c) ==
    /\ c \in oleft.cuts /\ Alive(Above[c]) /\ IsOnline(kid[c])
    /\ oleft' = [oleft EXCEPT !.cuts = @ \ {c}]
    /\ Done(ChildStatusUpdate(SendChild(World, c, kid[c].uuid, [k |-> "disconnect", u |-> 0]),
                              c, "lost"))

(* overlay_goodbye_parent, called once the children are gone *)
GoodbyeParent(r) ==
    /\ r \in oleft.byes /\ Alive(r) /\ ov[r].hello /\ ParentReachable(World, r)
    /\ \A c \in Below(r) : ~IsOnline(kid[c])
    /\ oleft' = [oleft EXCEPT !.byes = @ \ {r}]
    /\ Done([SendParent(World, r, [k |-> "bye", u |-> 0]) EXCEPT !.ov[r].bye = TRUE])

(* overlay_shutdown *)
Shutdown(r) ==
    /\ r \in oleft.shut /\ Joined(r)
    /\ oleft' = [oleft EXCEPT !.shut = @ \ {r}]
    /\ Done([World EXCEPT !.ov[r].shut = TRUE])

(* A broker that was refused or disconnected, or whose goodbye timed out,   *)
(* exits.                                                                   *)
GivesUp(r) ==
    /\ Alive(r) /\ (ov[r].offline \/ ov[r].bye \/ ov[r].refused)
    /\ Done(Dies(World, r))
    /\ UNCHANGED oleft

(* Some of the last messages that it sent, and of those sent to it, are     *)
(* lost with its connections.                                               *)
Crash(r) ==
    /\ r \in oleft.crashes /\ Alive(r)
    /\ oleft' = [oleft EXCEPT !.crashes = @ \ {r}]
    /\ \E n \in 0 .. Len(oup[r]) :
         \E keep \in [Below(r) -> {TRUE, FALSE}] :
            LET w == Dies(World, r)
            IN Done([w EXCEPT !.up = [c \in Ranks |->
                                        IF c = r THEN SubSeq(@[c], 1, n)
                                        ELSE IF c \in Below(r) /\ ~keep[c] THEN <<>> ELSE @[c]],
                              !.dn = [c \in Ranks |->
                                        IF c \in Below(r) /\ ~keep[c] THEN <<>> ELSE @[c]]])

(* The broker is started again, with a new uuid. *)
Restart(r) ==
    /\ r \in oleft.back /\ ~Alive(r)
    /\ oleft' = [oleft EXCEPT !.back = @ \ {r}]
    /\ ov' = [ov EXCEPT ![r] = NewOverlay(r, ov[r].uuid + 1)]
    /\ kid' = [c \in Ranks |-> IF c \in Below(r) THEN NewKid ELSE kid[c]]
    /\ oup' = [oup EXCEPT ![r] = Append(@, Hello(r, ov[r].uuid + 1, r \notin oleft.old))]
    /\ UNCHANGED <<odn, rpc, service, health>>

-----------------------------------------------------------------------------
OverlayWork ==
    \/ \E q \in service : ServiceStreams(q) \/ ServiceAnswers(q)
    \/ \E r \in Ranks : RecvChild(r) \/ RecvParent(r) \/ PeerVanishes(r) \/ Heartbeat(r)

OverlayNext ==
    \/ OverlayWork
    \/ \E i \in DOMAIN Rpcs : ClientRequest(i) \/ ClientLeaves(i)
    \/ \E r \in Ranks : \/ EventPublish(r) \/ DisconnectChild(r) \/ GoodbyeParent(r)
                        \/ GivesUp(r) \/ Crash(r) \/ Restart(r) \/ Shutdown(r)

-----------------------------------------------------------------------------
(* Properties *)

Connected(r) == r = 0 \/ (/\ Alive(r) /\ ov[r].hello /\ ParentReachable(World, r)
                          /\ Alive(Above[r]) /\ ov[Above[r]].uuid = ov[r].puuid)

(* Nothing is on its way and every lost peer is known to be lost; the       *)
(* children of a crashed broker find out when it returns (Heartbeat).       *)
OverlayQuiet ==
    /\ \A r \in Ranks : (r # 0 /\ Alive(Above[r]) => oup[r] = <<>>)
                      /\ (Alive(r) => odn[r] = <<>> /\ ~ov[r].bye /\ ~ov[r].refused)
    /\ \A c \in Ranks \ {0} : 
          /\ Alive(Above[c]) /\ IsOnline(kid[c]) => Known(c)
          /\ Alive(c) /\ ParentReachable(World, c) => Alive(Above[c]) /\ Known(c)

(* A client gets one last response to its request and nothing after it,     *)
(* whatever crashes, disconnects and returns while the request or its       *)
(* response is on its way: when a hop answers for a lost one                *)
(* (fail_child_rpcs, fail_parent_rpc), the lost one's own answer is dropped. *)
(* And no request is left behind: once nothing is on its way and no service *)
(* holds it, it has been answered, by the service or by a hop that lost the *)
(* next ("so they can fail fast", overlay.c), or the client is gone; then   *)
(* no hop tracks it any more.                                               *)
RpcsAnswered ==
    /\ \A i \in DOMAIN Rpcs : rpc[i].ends <= 1 /\ ~rpc[i].after
    /\ OverlayQuiet =>
        /\ \A i \in DOMAIN Rpcs : rpc[i].open => \E q \in service : q.id = i
        /\ \A r \in Ranks : Alive(r) =>
              \A q \in ov[r].tracker \cup UNION {kid[c].tracker : c \in Below(r)} :
                  \E s \in service : s.id = q.id

(* When nothing is on its way, what a broker knows of a connected child's   *)
(* subtree is what the child knows, each status is the one its children     *)
(* make up, and the last overlay.health response at rank 0 tells it         *)
(* (subtree_status_update, overlay_health_respond_all).                     *)
StatusAgree ==
    OverlayQuiet =>
        /\ \A r \in Ranks \ {0} : Connected(r) =>
              kid[r].st = ov[r].status /\ kid[r].uuid = ov[r].uuid
        /\ \A r \in Ranks : Alive(r) => ov[r].status = StatusOf(kid, r)
        /\ health.st = ov[0].status /\ \A c \in Below(0) : health.kids[c] = kid[c].st

(* A broker misses no event between the first that it gets and the last,    *)
(* and a connected one has every event once nothing is on its way           *)
(* (handle_event logs "lost events" otherwise).                             *)
EventsComplete ==
    /\ \A r \in Ranks : ~ov[r].gap
    /\ OverlayQuiet =>
        \A r \in Ranks : (\A a \in Ranks : a = r \/ IsDescendant[r, a] => Connected(a)) =>
            ov[r].seq \in {0, ov[0].seq}

(* What travels down the tree, events, and up, statuses, arrives. *)
OverlayDelivers == EventsComplete /\ StatusAgree

\* Requests are answered, events and status reach everyone.
OverlayKept == RpcsAnswered /\ OverlayDelivers
=============================================================================
