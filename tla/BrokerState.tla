---------------------------- MODULE BrokerState -----------------------------
(***************************************************************************)
(* The state machines of the brokers of a tree (src/broker/state_machine.c) *)
(* with what they use of their neighbours: the rc scripts and their abort  *)
(* (runat.c), flux shutdown (shutdown.c), hello, goodbye, disconnect and   *)
(* the count of peers (overlay.c), and the members of broker.online as     *)
(* rank 0 sees them (groups.c).                                            *)
(*                                                                         *)
(* Events are queued, and handled one at a time by a later turn of the     *)
(* reactor, in the state the broker is in by then.  A broker is a record   *)
(* that a handler takes through its calls.                                 *)
(***************************************************************************)
EXTENDS Naturals, Sequences, FiniteSets, SequencesExt, Tree

CONSTANTS BrokerScenarios   \* sets of [ranks, scripts, quorum, fails, signals, cuts,
                            \* crashes, refuse, follow]: the brokers there are, the scripts that
                            \* are defined and how many brokers make a quorum; the
                            \* scripts that may fail, the brokers that may get a signal, be
                            \* disconnected, crash or be refused by their parent; and whether
                            \* flux-shutdown may be run

States == <<"none", "join", "init", "quorum", "run", "cleanup", "shutdown", "finalize",
            "goodbye", "exit">>

Ord(s) == CHOOSE i \in DOMAIN States : States[i] = s

VARIABLES broker,     \* [Ranks -> record]: the process and its struct state_machine
          peer,       \* [Ranks -> "offline", "online", "lost"]: the parent's status of a child
          upq, downq, \* [Ranks -> Seq]: messages to and from the parent
          members,    \* broker.online, as rank 0 has last heard
          request,    \* of a flux-shutdown that follows: "none", "open", "told", "done"
          bleft       \* what may still go wrong, and the ranks of this scenario

broker_vars == <<broker, peer, upq, downq, members, request, bleft>>

(* create_runat_phases: the entries of runat that are defined (cleanup is    *)
(* pushed later, on rank 0, by flux admin cleanup-push).                    *)
Scripts(r) == IF r = 0 THEN bleft.scripts ELSE bleft.scripts \ {"rc2", "cleanup"}

Kids(r) == Below(r) \cap bleft.ranks

(* st, ev: state and events; script: the entry that runs, aborted: it has   *)
(* been aborted; hello: "no", "ok" or "err" once hello_responded; offline:  *)
(* a disconnect was received; bye: goodbye_sent; closing:                   *)
(* shutdown_in_progress; monitor: the RPC that follows the parent's state;  *)
(* cutin, deaf (history of the model): the state a disconnect came in, and   *)
(* that the RPC then failed in a state that looks at neither any more.      *)
NewBroker(r) ==
    [st |-> "none", ev |-> <<"start">>, script |-> "no", aborted |-> FALSE, hello |-> "no",
     offline |-> FALSE, bye |-> FALSE, closing |-> FALSE, monitor |-> "open", pvalid |-> FALSE,
     pstate |-> "none", perror |-> FALSE, joined |-> FALSE, gone |-> FALSE, watched |-> {},
     cutin |-> "none", deaf |-> FALSE]

(* main and state_machine_create: hello, then the monitor request, are sent *)
(* to the parent.                                                           *)
BrokerInit(s) ==
    /\ broker = [r \in Ranks |-> NewBroker(r)]
    /\ peer = [r \in Ranks |-> "offline"]
    /\ upq = [r \in Ranks |-> IF r > 0 /\ r \in s.ranks THEN <<"hello", "monitor">> ELSE <<>>]
    /\ downq = [r \in Ranks |-> <<>>]
    /\ members = {}
    /\ request = "none"
    /\ bleft = s

-----------------------------------------------------------------------------
(* The state machine *)

(* nexttab *)
Transitions ==
    {<<"start", "none", "join">>, <<"parent-ready", "join", "init">>,
     <<"parent-none", "join", "init">>, <<"parent-fail", "join", "shutdown">>,
     <<"rc1-success", "init", "quorum">>, <<"rc1-none", "init", "quorum">>,
     <<"rc1-fail", "init", "shutdown">>, <<"quorum-full", "quorum", "run">>,
     <<"quorum-fail", "quorum", "shutdown">>, <<"rc2-success", "run", "cleanup">>,
     <<"rc2-fail", "run", "cleanup">>, <<"shutdown", "run", "cleanup">>,
     <<"cleanup-success", "cleanup", "shutdown">>, <<"cleanup-none", "cleanup", "shutdown">>,
     <<"cleanup-fail", "cleanup", "shutdown">>, <<"children-complete", "shutdown", "finalize">>,
     <<"children-none", "shutdown", "finalize">>, <<"rc3-success", "finalize", "goodbye">>,
     <<"rc3-none", "finalize", "goodbye">>, <<"rc3-fail", "finalize", "goodbye">>,
     <<"goodbye", "goodbye", "exit">>}

StateNext(st, e) ==
    IF \E t \in Transitions : t[1] = e /\ t[2] = st
    THEN (CHOOSE t \in Transitions : t[1] = e /\ t[2] = st)[3] ELSE st

Post(b, e) == [b EXCEPT !.ev = Append(@, e)]                 \* state_machine_post

ParentError(b) == b.hello = "err" \/ b.offline               \* overlay_parent_error

(* Mutant: a child starts while its parent's rc1 is still running. *)
JoinCheckParentInit(b) ==
    IF b.perror THEN Post(b, "parent-fail")
    ELSE IF ~b.pvalid \/ b.pstate \in {"none", "join"} THEN b
    ELSE IF b.pstate \in {"init", "quorum", "run"} THEN Post(b, "parent-ready")
    ELSE Post(b, "parent-fail")

JoinCheckParent(b) ==
    IF b.perror THEN Post(b, "parent-fail")
    ELSE IF ~b.pvalid \/ b.pstate \in {"none", "join", "init"} THEN b
    ELSE IF b.pstate \in {"quorum", "run"} THEN Post(b, "parent-ready")
    ELSE Post(b, "parent-fail")

QuorumCheckParent(b) ==
    IF b.perror THEN Post(b, "quorum-fail")
    ELSE IF ~b.pvalid \/ b.pstate \in {"none", "join", "quorum"} THEN b
    ELSE IF b.pstate \in {"init", "run"} THEN Post(b, "quorum-full")
    ELSE Post(b, "quorum-fail")

(* Mutant: a parent that shuts down is not followed. *)
RunCheckParentNot(b) == IF b.perror THEN Post(b, "parent-fail") ELSE b

RunCheckParent(b) ==
    IF b.perror THEN Post(b, "parent-fail")
    ELSE IF ~b.pvalid \/ Ord(b.pstate) <= Ord("cleanup") THEN b
    ELSE IF b.pstate = "shutdown" THEN Post(b, "shutdown")
    ELSE Post(b, "parent-fail")

(* runat_start of an entry, if it is defined *)
StartScript(b, r, name, none) ==
    IF name \in Scripts(r) THEN [b EXCEPT !.script = name, !.aborted = FALSE] ELSE Post(b, none)

ActionShutdown(b, peers) == IF peers = 0 THEN Post(b, "children-none") ELSE b

(* overlay_goodbye_parent fails at once when the parent has not answered    *)
(* hello or has sent a disconnect.                                          *)
ActionGoodbye(b, r) ==
    IF r = 0 THEN b
    ELSE IF b.hello = "no" \/ b.offline THEN Post(b, "goodbye")
    ELSE [b EXCEPT !.bye = TRUE]

(* state_action *)
StateAction(b, r, peers) ==
    CASE b.st = "join" -> IF r = 0 THEN Post(b, "parent-none") ELSE JoinCheckParent(b)
      [] b.st = "init" -> StartScript(b, r, "rc1", "rc1-none")
      [] b.st = "quorum" -> LET j == [b EXCEPT !.joined = TRUE]
                            IN IF r = 0 THEN j ELSE QuorumCheckParent(j)
      [] b.st = "run" -> IF r > 0 THEN RunCheckParent(b) ELSE StartScript(b, r, "rc2", "rc2-none")
      [] b.st = "cleanup" -> StartScript([b EXCEPT !.closing = TRUE], r, "cleanup", "cleanup-none")
      [] b.st = "shutdown" -> ActionShutdown(b, peers)
      [] b.st = "finalize" -> StartScript([b EXCEPT !.closing = TRUE], r, "rc3", "rc3-none")
      [] b.st = "goodbye" -> ActionGoodbye(b, r)
      [] b.st = "exit" -> b

-----------------------------------------------------------------------------
(* Messages between a broker and its children *)

PeerCount(r, p) == Cardinality({c \in Kids(r) : p[c] = "online"})

(* monitor_update_one for a child that follows the state up to SHUTDOWN     *)
MonitorReply(st) ==
    IF Ord(st) > Ord("shutdown") THEN <<"nodata">>
    ELSE IF st = "shutdown" THEN <<st, "nodata">> ELSE <<st>>

MonitorEnds(st) == Ord(st) >= Ord("shutdown")

(* A response to a child is dropped when the child is not online.           *)
Tell(q, p, S, msgs) == [c \in Ranks |-> IF c \in S /\ p[c] = "online" THEN q[c] \o msgs ELSE q[c]]

(* overlay_monitor_cb: the state of the parent or the status of a child     *)
(* has changed.                                                             *)
OverlayMonitor(b, peers) ==
    CASE b.st = "join" /\ ParentError(b) -> Post(b, "parent-fail")
      [] b.st = "run" /\ ParentError(b) -> Post(b, "shutdown")
      [] b.st = "shutdown" /\ peers = 0 -> Post(b, "children-complete")
      [] OTHER -> b

Up(r) == r \in bleft.ranks /\ ~broker[r].gone

(* check_cb and process_event *)
ProcessEvent(r) ==
    LET b == broker[r]
        next == StateNext(b.st, Head(b.ev))
        rest == [b EXCEPT !.ev = Tail(@), !.st = next]
        done == StateAction(rest, r, PeerCount(r, peer))
    IN /\ Up(r)
       /\ b.ev # <<>>
       /\ broker' = [broker EXCEPT ![r] =
                        IF next = b.st THEN rest
                        ELSE [done EXCEPT !.watched = IF MonitorEnds(next) THEN {} ELSE @]]
       /\ downq' = IF next = b.st THEN downq ELSE Tell(downq, peer, b.watched, MonitorReply(next))
       /\ upq' = IF next # b.st /\ done.bye THEN [upq EXCEPT ![r] = Append(@, "goodbye")] ELSE upq
       /\ UNCHANGED <<peer, members, request, bleft>>

(* runat_completion_cb: the last command of an entry has ended. *)
Completed(b, ok) ==
    Post([b EXCEPT !.script = "no"],
         CASE b.script = "rc1" -> IF ok THEN "rc1-success" ELSE "rc1-fail"
           [] b.script = "rc2" -> IF ok THEN "rc2-success" ELSE "rc2-fail"
           [] b.script = "cleanup" -> IF ok THEN "cleanup-success" ELSE "cleanup-fail"
           [] b.script = "rc3" -> IF ok THEN "rc3-success" ELSE "rc3-fail")

ScriptEnds(r) ==
    LET b == broker[r]
        failing == <<r, b.script>> \in bleft.fails
    IN /\ Up(r)
       /\ b.script # "no"
       /\ \E ok \in {TRUE, FALSE} :
            /\ IF b.aborted THEN ~ok ELSE ok \/ failing
            /\ broker' = [broker EXCEPT ![r] = Completed(b, ok)]
            /\ bleft' = IF b.aborted \/ ok THEN bleft
                        ELSE [bleft EXCEPT !.fails = @ \ {<<r, b.script>>}]
       /\ UNCHANGED <<peer, upq, downq, members, request>>

(* runat_abort of an entry that runs; one that has ended, or is not         *)
(* defined, is left alone.                                                  *)
Abort(b, name) == IF b.script = name THEN [b EXCEPT !.aborted = TRUE] ELSE b

(* state_machine_kill *)
StateMachineKill(r) ==
    LET b == broker[r]
    IN /\ Up(r)
       /\ r \in bleft.signals
       /\ bleft' = [bleft EXCEPT !.signals = @ \ {r}]
       /\ broker' = [broker EXCEPT ![r] =
             CASE b.st = "init" -> Abort(b, "rc1")
               [] b.st = "join" -> Post(b, "parent-fail")
               [] b.st = "quorum" -> Post(b, "quorum-fail")
               [] b.st = "run" -> IF r = 0 /\ "rc2" \in Scripts(r) THEN Abort(b, "rc2")
                                  ELSE Post(b, "shutdown")
               [] b.st = "cleanup" -> Abort(b, "cleanup")
               [] b.st = "finalize" -> Abort(b, "rc3")
               [] b.st \in {"none", "shutdown", "goodbye", "exit"} -> b]
       /\ UNCHANGED <<peer, upq, downq, members, request>>

-----------------------------------------------------------------------------
(* Overlay and shutdown *)

Notified(b, r, p) == OverlayMonitor(b, PeerCount(r, p))

(* child_cb of the parent: hello is accepted while no shutdown is in        *)
(* progress, and anything else from a child that is not online is answered  *)
(* with a disconnect.  The start event, which is posted before the reactor  *)
(* runs, is handled before any message.                                     *)
RecvFromChild(c) ==
    LET r == Above[c]
        b == broker[r]
        m == Head(upq[c])
        Answered(msgs) == [downq EXCEPT ![c] = @ \o msgs]
        PeerIs(st) == [peer EXCEPT ![c] = st]
        Told(st) == [broker EXCEPT ![r] = Notified(b, r, PeerIs(st))]
    IN /\ c \in bleft.ranks /\ upq[c] # <<>> /\ Up(r) /\ b.st # "none"
       /\ upq' = [upq EXCEPT ![c] = Tail(@)]
       /\ \/ /\ peer[c] # "online" /\ m = "hello" /\ ~b.closing /\ c \notin bleft.refuse
             /\ peer' = PeerIs("online") /\ broker' = Told("online")
             /\ downq' = Answered(<<"hello-ok">>)
          \/ /\ peer[c] # "online" /\ m = "hello" /\ ~b.closing /\ c \in bleft.refuse
             /\ downq' = Answered(<<"hello-error">>) /\ UNCHANGED <<broker, peer>>
          \/ /\ peer[c] # "online" /\ (m # "hello" \/ b.closing)
             /\ downq' = Answered(<<"disconnect">>) /\ UNCHANGED <<broker, peer>>
          \/ /\ peer[c] = "online" /\ m = "monitor"
             /\ downq' = Answered(MonitorReply(b.st)) /\ UNCHANGED peer
             /\ broker' = IF MonitorEnds(b.st) THEN broker ELSE [broker EXCEPT ![r].watched = @ \cup {c}]
          \/ /\ peer[c] = "online" /\ m = "goodbye"
             /\ downq' = Answered(<<"goodbye-ok">>)
             /\ peer' = PeerIs("offline") /\ broker' = Told("offline")
       /\ UNCHANGED <<members, request, bleft>>

(* monitor_continuation *)
ParentState(b, s) ==
    LET n == [b EXCEPT !.pstate = s, !.pvalid = TRUE]
    IN CASE b.st = "join" -> JoinCheckParent(n)
         [] b.st = "quorum" -> QuorumCheckParent(n)
         [] b.st = "run" -> RunCheckParent(n)
         [] OTHER -> n

(* parent_cb: the answer to hello, a disconnect (which fails the RPCs that   *)
(* are under way) or a response.                                            *)
RecvFromParent(c) ==
    LET b == broker[c]
        m == Head(downq[c])
    IN /\ Up(c) /\ downq[c] # <<>> /\ b.st # "none"
       /\ downq' = [downq EXCEPT ![c] = Tail(@)]
       /\ broker' = [broker EXCEPT ![c] =
             CASE m = "hello-ok" -> Notified([b EXCEPT !.hello = "ok"], c, peer)
               [] m = "hello-error" -> Notified([b EXCEPT !.hello = "err"], c, peer)
               [] m = "disconnect" -> Notified([b EXCEPT !.offline = TRUE, !.cutin = b.st,
                                    !.monitor = IF @ = "open" THEN "failing" ELSE @], c, peer)
               [] m = "nodata" -> [b EXCEPT !.monitor = "closed"]
               [] m = "goodbye-ok" -> IF b.bye THEN Post([b EXCEPT !.bye = FALSE], "goodbye") ELSE b
               [] OTHER -> ParentState(b, m)]
       /\ UNCHANGED <<peer, upq, members, request, bleft>>

(* The error response of the tracker arrives: monitor_continuation. *)
MonitorFails(c) ==
    /\ Up(c) /\ broker[c].monitor = "failing"
    /\ broker' = [broker EXCEPT ![c].monitor = "closed", ![c].perror = TRUE, ![c].deaf =
                     broker[c].st = "quorum" \/ (broker[c].st = "run" /\ broker[c].cutin # "run")]
    /\ UNCHANGED <<peer, upq, downq, members, request, bleft>>

(* goodbye_continuation after goodbye_timeout *)
GoodbyeTimeout(c) ==
    /\ Up(c) /\ broker[c].bye /\ broker[c].st = "goodbye"
    /\ broker' = [broker EXCEPT ![c] = Post([@ EXCEPT !.bye = FALSE], "goodbye")]
    /\ UNCHANGED <<peer, upq, downq, members, request, bleft>>

(* A broker sends to its children now and then, and finds those that have    *)
(* gone.                                                                    *)
LoseChild(c) ==
    LET r == Above[c]
    IN /\ c \in bleft.ranks /\ Up(r) /\ peer[c] = "online" /\ broker[c].gone
       /\ peer' = [peer EXCEPT ![c] = "lost"]
       /\ broker' = [broker EXCEPT ![r] = Notified(@, r, peer')]
       /\ UNCHANGED <<upq, downq, members, request, bleft>>

(* overlay_disconnect_subtree_cb *)
DisconnectSubtree(c) ==
    LET r == Above[c]
    IN /\ c \in bleft.cuts /\ Up(r) /\ peer[c] = "online"
       /\ bleft' = [bleft EXCEPT !.cuts = @ \ {c}]
       /\ peer' = [peer EXCEPT ![c] = "lost"]
       /\ downq' = [downq EXCEPT ![c] = Append(@, "disconnect")]
       /\ broker' = [broker EXCEPT ![r] = Notified(@, r, peer')]
       /\ UNCHANGED <<upq, members, request>>

BrokerCrash(r) ==
    /\ r \in bleft.crashes /\ Up(r)
    /\ bleft' = [bleft EXCEPT !.crashes = @ \ {r}]
    /\ broker' = [broker EXCEPT ![r].gone = TRUE]
    /\ UNCHANGED <<peer, upq, downq, members, request>>

(* The brokers of broker.online as groups.c has them: joined, with all links *)
(* to rank 0 online                                                         *)
Attached[r \in Ranks] == r = 0 \/ (peer[r] = "online" /\ Attached[Above[r]])

(* broker_online_cb *)
BrokerOnline(r) ==
    LET b == broker[0]
    IN /\ Up(0) /\ r \in bleft.ranks
       /\ (r \in members) # (broker[r].joined /\ Attached[r])
       /\ members' = IF r \in members THEN members \ {r} ELSE members \cup {r}
       /\ broker' = IF Cardinality(members') >= bleft.quorum /\ b.st = "quorum"
                    THEN [broker EXCEPT ![0] = Post(b, "quorum-full")] ELSE broker
       /\ UNCHANGED <<peer, upq, downq, request, bleft>>

(* start_cb and state_machine_shutdown: refused in any state but RUN *)
ShutdownStart ==
    LET b == broker[0]
    IN /\ Up(0) /\ bleft.follow /\ b.st = "run"
       /\ bleft' = [bleft EXCEPT !.follow = FALSE]
       /\ request' = "open"
       /\ broker' = [broker EXCEPT ![0] = IF "rc2" \in Scripts(0) THEN Abort(b, "rc2")
                                         ELSE Post(b, "shutdown")]
       /\ UNCHANGED <<peer, upq, downq, members>>

(* check_for_completion of shutdown.c, in GOODBYE *)
CheckForCompletion ==
    /\ Up(0) /\ broker[0].st = "goodbye"
    /\ \/ /\ request = "none" /\ request' = "done"
          /\ broker' = [broker EXCEPT ![0] = Post(@, "goodbye")]
       \/ request = "open" /\ request' = "told" /\ UNCHANGED broker
    /\ UNCHANGED <<peer, upq, downq, members, bleft>>

(* disconnect_cb of shutdown.c: flux-shutdown ends, before or after it was   *)
(* answered.                                                                *)
ShutdownDetach ==
    /\ Up(0) /\ request = "open" /\ request' = "none"
    /\ UNCHANGED <<broker, peer, upq, downq, members, bleft>>

ShutdownEnds ==
    /\ Up(0) /\ request = "told" /\ request' = "done"
    /\ broker' = [broker EXCEPT ![0] = Post(@, "goodbye")]
    /\ UNCHANGED <<peer, upq, downq, members, bleft>>

(* action_exit, up to the stop of the reactor *)
ActionExit(r) ==
    /\ Up(r) /\ broker[r].st = "exit"
    /\ broker' = [broker EXCEPT ![r].gone = TRUE]
    /\ UNCHANGED <<peer, upq, downq, members, request, bleft>>

BrokerWork ==
    \/ \E r \in Ranks : ProcessEvent(r) \/ ScriptEnds(r) \/ ActionExit(r) \/ BrokerOnline(r)
    \/ \E c \in Ranks \ {0} : \/ RecvFromChild(c) \/ RecvFromParent(c) \/ MonitorFails(c)
                              \/ GoodbyeTimeout(c) \/ LoseChild(c)
    \/ CheckForCompletion
    \/ ShutdownEnds

BrokerNext ==
    \/ BrokerWork
    \/ \E r \in Ranks : StateMachineKill(r) \/ BrokerCrash(r)
    \/ \E c \in Ranks \ {0} : DisconnectSubtree(c)
    \/ ShutdownStart
    \/ ShutdownDetach

BrokerSpec == (\E s \in BrokerScenarios : BrokerInit(s)) /\ [][BrokerNext]_broker_vars
              /\ WF_broker_vars(BrokerWork)

-----------------------------------------------------------------------------
(* Properties *)

(* "rc1 executes in upstream-to-downstream order.  This ensures upstream     *)
(* service leaders are loaded before downstream followers" and "rc3 executes *)
(* in downstream-to-upstream order" (doc/guide/broker.rst): as long as its   *)
(* parent counts a broker as online, its rc1 runs only once that of the      *)
(* parent is over, and its scripts only while rc3 of the parent has not      *)
(* begun.                                                                   *)
RcOrder ==
    \A c \in bleft.ranks \ {0} : (Up(c) /\ Up(Above[c]) /\ peer[c] = "online") =>
        LET above == Ord(broker[Above[c]].st)
        IN /\ broker[c].script = "rc1" => above >= Ord("quorum")
           /\ broker[c].script # "no" => above < Ord("finalize")

(* When rank 0 has exited or its parent has cut it off, a broker comes to    *)
(* its exit, whatever events, scripts, signals and losses there were on the  *)
(* way: nobody waits for a child that is lost, and no event is needed that   *)
(* came too early to be taken.  Two kinds of brokers stay: one that nobody   *)
(* answered (it said hello to a parent that had exited), and one whose RPC   *)
(* failed in QUORUM (see OrphanExits).                                      *)
BrokersExit ==
    []<>(\A r \in bleft.ranks : (broker[0].gone \/ broker[r].offline) =>
            \/ broker[r].gone
            \/ broker[r].st = "join" /\ broker[r].hello = "no" /\ ~broker[r].offline
            \/ broker[r].deaf)

(* A "kiss of death message to the child, causing a subtree panic at the     *)
(* child.  The subtree restarts" (doc/guide/broker.rst): a broker that has   *)
(* received a disconnect exits.                                             *)
OrphanExits ==
    []<>(\A c \in bleft.ranks : broker[c].offline => broker[c].gone)
=============================================================================
