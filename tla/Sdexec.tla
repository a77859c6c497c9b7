------------------------------- MODULE Sdexec -------------------------------
(***************************************************************************)
(* Processes as systemd units: the sdexec module (modules/sdexec) runs the *)
(* processes of exec requests as transient units, which it starts, stops   *)
(* and watches through the sdbus module (modules/sdbus), a bridge to the   *)
(* D-Bus connection that systemd answers on.  libsdexec holds the state of *)
(* a unit (unit.c) and the channels (channel.c, outbuf.c).                 *)
(*                                                                         *)
(* systemd, the bus and the processes are external: they are modelled from *)
(* what the modules ask of them and say about them.                        *)
(***************************************************************************)
EXTENDS Naturals, Sequences, FiniteSets, SequencesExt, LineBuffer

CONSTANTS Units,         \* the units, one for each exec request
          OutCap,        \* the size of an output buffer, in pieces
          InCap,         \* what the socket of a stdin holds, in pieces
          SdScenarios    \* what may happen: see SdInit

VARIABLES px,       \* [unit -> its struct sdproc]
          sdx,      \* the sdexec module: whether it is loaded, and the write it is blocked in
          sdb,      \* struct sdbus_ctx
          sysd,     \* the bus connection at the other end
          unit,     \* [unit -> the unit in systemd, with its process]
          creq,     \* requests from the client, in flight
          requeued, \* requests put back at the head of sdexec's queue
          busq,     \* messages for sdbus
          brsp,     \* responses of sdbus to sdexec
          clog,     \* [unit -> the responses to its exec request]
          sdhist,   \* history
          sdleft    \* the scenario, and what may still happen

sd_vars == <<px, sdx, sdb, sysd, unit, creq, requeued, busq, brsp, clog, sdhist, sdleft>>

OutChans == {"stdout", "stderr"}

(* struct sdproc, with its struct unit.  started, finished: the response was *)
(* sent; pid, status, sub: what is known of the unit; stop: StopUnit or      *)
(* ResetFailedUnit was called; claimed: systemd has the channels; infd: the  *)
(* stdin is open; wreqs: write_requests; watch, eofin, eofout, buf: of the   *)
(* output channels.                                                          *)
NoProc == [on |-> FALSE, started |-> FALSE, finished |-> FALSE, pid |-> FALSE, status |-> "none", sub |-> "unknown",
           stop |-> FALSE, claimed |-> FALSE, infd |-> TRUE, wreqs |-> <<>>,
           watch |-> {}, eofin |-> {}, eofout |-> {}, buf |-> [ch \in OutChans |-> <<>>]]

(* A unit: sub is "none" when systemd does not know it; in: what its stdin   *)
(* holds, got: what the process has read; pipe: output not yet read, wrote:  *)
(* all of it.                                                                *)
NoUnit == [sub |-> "none", pid |-> FALSE, status |-> "none", dirty |-> FALSE, pc |-> 1,
           in |-> <<>>, got |-> <<>>, pipe |-> [ch \in OutChans |-> <<>>], wrote |-> [ch \in OutChans |-> <<>>]]

NoWrite == [u |-> 0, data |-> ""]

(* The bus module as it is loaded, and connected. *)
NewBus == [up |-> TRUE, conn |-> "down", gen |-> 0, reqs |-> <<>>, subs |-> <<>>, next |-> 1]
NewDbus == [subscribed |-> FALSE, match |-> FALSE, calls |-> <<>>, out |-> <<>>]

(* chans: the output channels asked for; line: those line buffered; prog:    *)
(* what each process does; writes: what the client writes; kills, disconnect *)
(* what else it does; refuse: units that may be refused; drops: connections   *)
(* that may be lost; unload: modules that may be unloaded; up: the bus is    *)
(* connected already.                                                        *)
SdInit(s) ==
    /\ px = [u \in Units |-> NoProc] /\ unit = [u \in Units |-> NoUnit]
    /\ sdx = [up |-> TRUE, stuck |-> NoWrite]
    /\ sdb = IF s.up THEN [NewBus EXCEPT !.conn = "up"] ELSE NewBus
    /\ sysd = IF s.up THEN [NewDbus EXCEPT !.subscribed = TRUE, !.match = TRUE] ELSE NewDbus
    /\ creq = <<>> /\ requeued = <<>> /\ busq = <<>> /\ brsp = <<>>
    /\ clog = [u \in Units |-> <<>>] /\ sdleft = s
    /\ sdhist = [wrote |-> [u \in Units |-> <<>>], unanswered |-> 0, early |-> {}, twice |-> {}, lost |-> {}]

-----------------------------------------------------------------------------
(* systemd and the processes *)

Held(u) == unit[u].sub # "none"     \* systemd holds the channels of the unit

Dbus(m) == [sysd EXCEPT !.calls = Tail(@), !.out = Append(@, m)]
Reply(ok) == [t |-> "reply", cookie |-> Head(sysd.calls).cookie, ok |-> ok, u |-> 0, kind |-> "", pid |-> FALSE,
              status |-> "none", sub |-> ""]

Ended(n, status) ==
    [n EXCEPT !.sub = IF status = "ok" THEN "exited" ELSE "failed", !.status = status, !.dirty = TRUE]

(* A method call is answered; systemd may not be there to subscribe to yet. *)
Method ==
    /\ sysd.calls # <<>>
    /\ LET c == Head(sysd.calls)
           n == unit[c.u]
       IN \/ /\ c.m = "Subscribe" /\ sysd' = [Dbus(Reply(TRUE)) EXCEPT !.subscribed = TRUE] /\ UNCHANGED <<unit, sdleft>>
          \/ /\ c.m = "Subscribe" /\ sdleft.drops > 0 /\ sdleft' = [sdleft EXCEPT !.drops = @ - 1]
             /\ sysd' = Dbus(Reply(FALSE)) /\ UNCHANGED unit
          \/ /\ c.m = "AddMatch" /\ sysd' = [Dbus(Reply(TRUE)) EXCEPT !.match = TRUE] /\ UNCHANGED <<unit, sdleft>>
          \/ /\ c.m = "Start" /\ n.sub = "none" /\ ~n.pid
             /\ unit' = [unit EXCEPT ![c.u] = [n EXCEPT !.sub = "start", !.pid = TRUE, !.dirty = TRUE]]
             /\ sysd' = Dbus(Reply(TRUE)) /\ UNCHANGED sdleft
          \/ /\ c.m = "Start" /\ (n.sub # "none" \/ n.pid \/ c.u \in sdleft.refuse)
             /\ sysd' = Dbus(Reply(FALSE)) /\ UNCHANGED <<unit, sdleft>>
          \/ /\ c.m \in {"Stop", "Reset"}
             /\ LET ok == n.sub = IF c.m = "Stop" THEN "exited" ELSE "failed"
                IN /\ unit' = IF ok THEN [unit EXCEPT ![c.u] = [n EXCEPT !.sub = "none", !.dirty = TRUE]] ELSE unit
                   /\ sysd' = Dbus(Reply(ok)) /\ UNCHANGED sdleft
          \/ /\ c.m = "Kill" /\ sysd' = Dbus(Reply(n.sub \in {"start", "running"}))
             /\ unit' = IF n.sub \in {"start", "running"} THEN [unit EXCEPT ![c.u] = Ended(n, "bad")] ELSE unit
             /\ UNCHANGED sdleft
    /\ UNCHANGED <<px, sdx, sdb, creq, requeued, busq, brsp, clog, sdhist>>

(* The command is executed, or cannot be. *)
UnitExec(u) ==
    /\ unit[u].sub = "start"
    /\ \/ unit' = [unit EXCEPT ![u].sub = "running", ![u].dirty = TRUE]
       \/ /\ u \in sdleft.refuse /\ unit' = [unit EXCEPT ![u] = Ended(@, "203")]
    /\ UNCHANGED <<px, sdx, sdb, sysd, creq, requeued, busq, brsp, clog, sdhist, sdleft>>

(* The next operation of the process: output, input, or its end. *)
ProcessStep(u) ==
    LET n == unit[u]
        op == sdleft.prog[u][n.pc]
        m == [n EXCEPT !.pc = @ + 1]
    IN /\ n.sub = "running"
       /\ \/ /\ op[1] \in {"l", "p"}
             /\ unit' = [unit EXCEPT ![u] = [m EXCEPT !.pipe[op[2]] = Append(@, op[1]), !.wrote[op[2]] = Append(@, op[1])]]
          \/ /\ op[1] = "read" /\ n.in # <<>>
             /\ unit' = [unit EXCEPT ![u] = [m EXCEPT !.in = Tail(@), !.got = Append(@, Head(n.in)),
                                                      !.pc = IF Head(n.in) = "eof" THEN @ ELSE n.pc]]
          \/ /\ op[1] = "exit" /\ unit' = [unit EXCEPT ![u] = Ended(n, op[2])]
       /\ UNCHANGED <<px, sdx, sdb, sysd, creq, requeued, busq, brsp, clog, sdhist, sdleft>>

(* PropertiesChanged, first of the service and then of the unit: changes     *)
(* since the last time are told at once.                                     *)
Announce(u) ==
    LET n == unit[u]
        sub == IF n.sub = "none" THEN "dead" ELSE n.sub
        Signal(kind) == [t |-> "signal", cookie |-> 0, ok |-> TRUE, u |-> u, kind |-> kind, pid |-> n.pid,
                         status |-> n.status, sub |-> sub]
    IN /\ n.dirty /\ unit' = [unit EXCEPT ![u].dirty = FALSE]
       /\ sysd' = IF sysd.subscribed /\ sysd.match
                  THEN [sysd EXCEPT !.out = @ \o <<Signal("service"), Signal("unit")>>] ELSE sysd
       /\ sdhist' = IF sysd.subscribed /\ sysd.match THEN sdhist ELSE [sdhist EXCEPT !.lost = @ \cup {u}]
       /\ UNCHANGED <<px, sdx, sdb, creq, requeued, busq, brsp, clog, sdleft>>

-----------------------------------------------------------------------------
(* sdbus *)

BusMsg(t, m, u, who, gen, ok) == [t |-> t, m |-> m, u |-> u, who |-> who, gen |-> gen, ok |-> ok]

(* A response of sdbus to sdexec. *)
ToSdexec(t, m, u, ok, s) == [t |-> t, m |-> m, u |-> u, ok |-> ok, sig |-> s]
NoSig == [kind |-> "", pid |-> FALSE, status |-> "none", sub |-> ""]

(* The response to a call request: to sdexec, or to sdbus itself. *)
AnswerCall(r, ok) ==
    IF r.who = "self" THEN [bus |-> <<BusMsg("selfrsp", r.m, r.u, "self", r.gen, ok)>>, sd |-> <<>>]
    ELSE [bus |-> <<>>, sd |-> <<ToSdexec("call", r.m, r.u, ok, NoSig)>>]

(* bulk_respond_error of the subscribers and of the requests *)
AllRefused(q) ==
    [bus |-> FlattenSeq([i \in DOMAIN sdb.reqs |-> AnswerCall(sdb.reqs[i], FALSE).bus]),
     sd |-> [i \in DOMAIN sdb.subs |-> ToSdexec("watch", "", sdb.subs[i], FALSE, NoSig)]
            \o FlattenSeq([i \in DOMAIN sdb.reqs |-> AnswerCall(sdb.reqs[i], FALSE).sd])]

(* sdbus_recover *)
Recover(q) ==
    LET a == AllRefused(q)
    IN /\ sdb' = [sdb EXCEPT !.conn = "down", !.gen = @ + 1, !.reqs = <<>>, !.subs = <<>>]
       /\ busq' = q \o a.bus /\ brsp' = brsp \o a.sd
       /\ sysd' = NewDbus

(* sdbus_subscribe: the module asks itself, Subscribe and then AddMatch *)
SelfCall(m) == BusMsg("call", m, CHOOSE u \in Units : TRUE, "self", sdb.gen, TRUE)

(* connect_continuation *)
Opened ==
    /\ sdb' = [sdb EXCEPT !.conn = "opened"] /\ sysd' = NewDbus
    /\ busq' = Append(busq, SelfCall("Subscribe"))

(* The timer_cb of sdbus_connect opens the bus *)
Connect ==
    /\ sdb.up /\ sdb.conn = "down" /\ Opened
    /\ UNCHANGED <<px, sdx, unit, creq, requeued, brsp, clog, sdhist, sdleft>>

(* handle_call_request: each is given the cookie of the message sent *)
SentAs(r, cookie) == [r EXCEPT !.cookie = cookie]
CallOf(r) == [m |-> r.m, u |-> r.u, cookie |-> r.cookie]

(* call_cb: without a bus the request is only kept *)
CallCb ==
    /\ sdb.up /\ busq # <<>> /\ Head(busq).t = "call" /\ busq' = Tail(busq)
    /\ LET b == Head(busq)
           r == [m |-> b.m, u |-> b.u, who |-> b.who, gen |-> b.gen,
                 cookie |-> IF sdb.conn = "down" THEN 0 ELSE sdb.next]
       IN IF sdb.conn = "down"
          THEN sdb' = [sdb EXCEPT !.reqs = Append(@, r)] /\ UNCHANGED <<sysd, sdhist>>
          ELSE /\ sdb' = [sdb EXCEPT !.reqs = Append(@, r), !.next = @ + 1]
               /\ sysd' = [sysd EXCEPT !.calls = Append(@, CallOf(r))]
               /\ sdhist' = IF b.m = "Start" /\ sdb.conn = "opened" THEN [sdhist EXCEPT !.early = @ \cup {b.u}] ELSE sdhist
    /\ UNCHANGED <<px, sdx, unit, creq, requeued, brsp, clog, sdleft>>

(* subscribe_cb, subscribe_cancel_cb *)
SubscribeCb ==
    /\ sdb.up /\ busq # <<>> /\ busq' = Tail(busq)
    /\ LET b == Head(busq)
       IN \/ /\ b.t = "subscribe" /\ sdb' = [sdb EXCEPT !.subs = Append(@, b.u)]
          \/ /\ b.t = "cancel" /\ sdb' = [sdb EXCEPT !.subs = SelectSeq(@, LAMBDA u : u # b.u)]
    /\ UNCHANGED <<px, sdx, sysd, unit, creq, requeued, brsp, clog, sdhist, sdleft>>

(* handle_call_request_backlog: all that is in the list *)
Backlog == DOMAIN sdb.reqs

(* subscribe_continuation and bus_subscribe_continuation: a response to the  *)
(* module itself.  The future of an earlier connection is gone.              *)
SelfResponse ==
    /\ sdb.up /\ busq # <<>> /\ Head(busq).t = "selfrsp"
    /\ LET b == Head(busq)
       IN \/ /\ (b.gen # sdb.gen \/ sdb.conn = "down") /\ busq' = Tail(busq) /\ UNCHANGED <<sdb, sysd, brsp, sdhist>>
          \/ /\ b.gen = sdb.gen /\ sdb.conn # "down" /\ ~b.ok /\ Recover(Tail(busq)) /\ UNCHANGED sdhist
          \/ /\ b.gen = sdb.gen /\ sdb.conn # "down" /\ b.ok /\ b.m = "Subscribe"
             /\ busq' = Append(Tail(busq), SelfCall("AddMatch"))
             /\ UNCHANGED <<sdb, sysd, brsp, sdhist>>
          \/ /\ b.gen = sdb.gen /\ sdb.conn # "down" /\ b.ok /\ b.m = "AddMatch" /\ busq' = Tail(busq)
             /\ LET order == SetToSortSeq(Backlog, <)
                    place == [i \in Backlog |-> sdb.next + Cardinality({j \in Backlog : j < i})]
                    reqs == [i \in DOMAIN sdb.reqs |-> IF i \in Backlog THEN SentAs(sdb.reqs[i], place[i]) ELSE sdb.reqs[i]]
                IN /\ sdb' = [sdb EXCEPT !.conn = "up", !.reqs = reqs, !.next = @ + Len(order)]
                   /\ sysd' = [sysd EXCEPT !.calls = @ \o [k \in DOMAIN order |-> CallOf(reqs[order[k]])]]
                   /\ sdhist' = [sdhist EXCEPT !.twice = @ \cup {sdb.reqs[i].u : i \in {j \in Backlog :
                                                   sdb.reqs[j].cookie # 0 /\ sdb.reqs[j].m = "Start"}}]
             /\ UNCHANGED brsp
    /\ UNCHANGED <<px, sdx, unit, creq, requeued, clog, sdleft>>

(* find_request_by_cookie *)
WithCookie(c) == {i \in DOMAIN sdb.reqs : sdb.reqs[i].cookie = c}

(* bulk_respond_match, with match_subscription *)
ToSubscribers(m) ==
    LET hit == SelectSeq(sdb.subs, LAMBDA u : u = m.u)
        s == [kind |-> m.kind, pid |-> m.pid, status |-> m.status, sub |-> m.sub]
    IN [i \in DOMAIN hit |-> ToSdexec("watch", "", hit[i], TRUE, s)]

(* sdbus_recv: a signal goes to the subscribers, a reply to the request with *)
(* its cookie, if there is one                                               *)
Recv ==
    /\ sdb.up /\ sdb.conn # "down" /\ sysd.out # <<>> /\ sysd' = [sysd EXCEPT !.out = Tail(@)]
    /\ LET m == Head(sysd.out)
       IN \/ /\ m.t = "signal" /\ brsp' = brsp \o ToSubscribers(m) /\ UNCHANGED <<sdb, busq>>
          \/ /\ m.t = "reply" /\ WithCookie(m.cookie) = {} /\ UNCHANGED <<sdb, busq, brsp>>
          \/ /\ m.t = "reply" /\ \E i \in WithCookie(m.cookie) :
                  LET a == AnswerCall(sdb.reqs[i], m.ok)
                  IN /\ sdb' = [sdb EXCEPT !.reqs = RemoveAt(@, i)]
                     /\ busq' = busq \o a.bus /\ brsp' = brsp \o a.sd
    /\ UNCHANGED <<px, sdx, unit, creq, requeued, clog, sdhist, sdleft>>

Lose ==
    /\ sdb.up /\ sdb.conn # "down" /\ sdleft.drops > 0
    /\ sdleft' = [sdleft EXCEPT !.drops = @ - 1] /\ Recover(busq)
    /\ sdhist' = [sdhist EXCEPT !.lost = @ \cup Range(sdb.subs) \cup {u \in Units : unit[u].pid}]
    /\ UNCHANGED <<px, sdx, unit, creq, requeued, clog>>

(* sdbus_cb: the bus goes away *)
BusLost == Lose

(* reconnect_cb: a user asks for a new connection *)
ReconnectCb == Lose

(* sdbus_ctx_destroy: the module is unloaded *)
SdbusUnload ==
    /\ sdb.up /\ "sdbus" \in sdleft.unload /\ sdleft' = [sdleft EXCEPT !.unload = @ \ {"sdbus"}]
    /\ LET a == AllRefused(busq) IN brsp' = brsp \o a.sd
    /\ sdb' = [NewBus EXCEPT !.up = FALSE, !.gen = sdb.gen, !.next = sdb.next] /\ sysd' = NewDbus
    /\ sdhist' = [sdhist EXCEPT !.lost = Units]
    /\ UNCHANGED <<px, sdx, unit, creq, requeued, busq, clog>>

(* Requests for a module that is not loaded are refused by the broker. *)
Nosys ==
    /\ ~sdb.up /\ busq # <<>> /\ busq' = Tail(busq)
    /\ LET b == Head(busq)
       IN brsp' = IF b.t = "subscribe" THEN Append(brsp, ToSdexec("watch", "", b.u, FALSE, NoSig))
                  ELSE IF b.t = "call" /\ b.who # "self" THEN Append(brsp, ToSdexec("call", b.m, b.u, FALSE, NoSig)) ELSE brsp
    /\ UNCHANGED <<px, sdx, sdb, sysd, unit, creq, requeued, clog, sdhist, sdleft>>

-----------------------------------------------------------------------------
(* Units and channels (unit.c, channel.c) *)

HasFinished(p) == p.status \in {"ok", "bad"}
HasFailed(p) == p.status = "203"
HasStarted(p) == p.pid /\ (HasFinished(p) \/ p.sub = "start")

(* sdexec_unit_update *)
UnitUpdate(p, s) ==
    IF s.kind = "service" THEN [p EXCEPT !.pid = @ \/ s.pid, !.status = IF @ = "none" THEN s.status ELSE @]
    ELSE [p EXCEPT !.sub = s.sub]

Out(ch, data, eof) == [t |-> "output", ch |-> ch, data |-> data, eof |-> eof]
Plain(t) == [t |-> t, ch |-> "", data |-> <<>>, eof |-> FALSE]

(* flush_output_line, again and again, or flush_output_raw: what is sent of  *)
(* buffer b; the rest stays                                                  *)
FlushOutput(ch, line, b, eof) ==
    LET l == Lines(b)
        rest == IF Len(l.cur) = OutCap THEN <<>> ELSE l.cur
        full == IF Len(l.cur) = OutCap THEN <<Out(ch, l.cur, FALSE)>> ELSE <<>>
    IN IF ~line THEN [out |-> <<Out(ch, b, eof)>>, rest |-> <<>>]
       ELSE IF eof THEN [out |-> [i \in DOMAIN l.out |-> Out(ch, l.out[i], FALSE)] \o full \o <<Out(ch, rest, TRUE)>>, rest |-> <<>>]
       ELSE [out |-> [i \in DOMAIN l.out |-> Out(ch, l.out[i], FALSE)] \o full, rest |-> rest]

-----------------------------------------------------------------------------
(* sdexec *)

Up == sdx.up /\ sdx.stuck.u = 0

(* sdexec_start_transient_unit; sdexec_stop_unit and sdexec_reset_failed_   *)
(* unit; sdexec_kill_unit                                                    *)
StartUnit(u) == BusMsg("call", "Start", u, "sdexec", 0, TRUE)
StopUnit(u, m) == BusMsg("call", m, u, "sdexec", 0, TRUE)
KillUnit(u) == BusMsg("call", "Kill", u, "sdexec", 0, TRUE)

(* sdproc_destroy: the subscription is cancelled *)
Cancel(u) == BusMsg("cancel", "", u, "sdexec", 0, TRUE)

(* Mutant: the end of the output is not waited for. *)
IsDoneEarly(u, p) == p.sub = "dead"

(* finalize_exec_request_if_done: the condition ... *)
IsDone(u, p) == p.sub = "dead" /\ sdleft.chans[u] \subseteq p.eofout

(* ... and the last response *)
LastResponse(p) ==
    IF HasFailed(p) THEN "ENOENT" ELSE IF ~p.started \/ ~p.finished THEN "EINVAL" ELSE "ENODATA"

(* Responses to the exec request of u, then its end if it is done *)
Continue(u, p, resps, calls) ==
    IF IsDone(u, p)
    THEN /\ px' = [px EXCEPT ![u] = NoProc]
         /\ clog' = [clog EXCEPT ![u] = @ \o resps \o <<Plain(LastResponse(p))>>]
         /\ busq' = busq \o calls \o <<Cancel(u)>>
    ELSE px' = [px EXCEPT ![u] = p] /\ clog' = [clog EXCEPT ![u] = @ \o resps] /\ busq' = busq \o calls

(* exec_respond_error *)
RespondError(u, err) ==
    /\ px' = [px EXCEPT ![u] = NoProc]
    /\ clog' = [clog EXCEPT ![u] = Append(@, Plain(err))]
    /\ busq' = Append(busq, Cancel(u))

(* The next request: those put back, which are writes, come first. *)
NextReq(t) ==
    /\ Up /\ requeued = <<>> /\ creq # <<>> /\ Head(creq).t = t /\ creq' = Tail(creq) /\ UNCHANGED requeued
NextWrite == NextReq("write") \/ (Up /\ requeued # <<>> /\ requeued' = Tail(requeued) /\ UNCHANGED creq)
TheReq == Head(requeued \o creq)

Subscribe(u) == BusMsg("subscribe", "", u, "sdexec", 0, TRUE)     \* sdexec_property_changed

(* exec_cb with sdproc_create.  A request may be refused before there is an  *)
(* sdproc (its flags, its origin), or when the call that starts the unit     *)
(* cannot be made of its command: then the subscription has been sent, and   *)
(* is cancelled with the sdproc.                                             *)
ExecCb ==
    /\ NextReq("exec")
    /\ LET u == TheReq.u
       IN \/ /\ px' = [px EXCEPT ![u] = [NoProc EXCEPT !.on = TRUE]]
             /\ busq' = busq \o <<Subscribe(u), StartUnit(u)>>
             /\ UNCHANGED clog
          \/ /\ u \in sdleft.refuse
             /\ clog' = [clog EXCEPT ![u] = Append(@, Plain("refused"))]
             /\ busq' \in {busq, busq \o <<Subscribe(u), Cancel(u)>>}
             /\ UNCHANGED px
    /\ UNCHANGED <<sdx, sdb, sysd, unit, brsp, sdhist, sdleft>>

(* sdexec_channel_write on a stdin that is open: the data, or EOF *)
Written(u, data) ==
    IF ~px[u].infd THEN UNCHANGED <<px, unit, sdx>>
    ELSE IF data = "eof" THEN /\ px' = [px EXCEPT ![u].infd = FALSE]
                              /\ unit' = IF Held(u) THEN [unit EXCEPT ![u].in = Append(@, "eof")] ELSE unit
                              /\ UNCHANGED sdx
    ELSE /\ UNCHANGED px
         /\ IF ~Held(u) THEN UNCHANGED <<unit, sdx>>
            ELSE IF Len(unit[u].in) < InCap THEN unit' = [unit EXCEPT ![u].in = Append(@, data)] /\ UNCHANGED sdx
            ELSE sdx' = [sdx EXCEPT !.stuck = [u |-> u, data |-> data]] /\ UNCHANGED unit

(* lookup_message_byclient *)
Known(u) == px[u].on

(* write_cb: before systemd has the stdin the request is kept *)
WriteCb ==
    /\ NextWrite
    /\ LET r == TheReq
       IN IF ~Known(r.u) THEN UNCHANGED <<px, unit, sdx>>
          ELSE IF ~px[r.u].claimed
          THEN px' = [px EXCEPT ![r.u].wreqs = <<r>> \o @] /\ UNCHANGED <<unit, sdx>>
          ELSE Written(r.u, r.data)
    /\ UNCHANGED <<sdb, sysd, busq, brsp, clog, sdhist, sdleft>>

(* The write that filled the socket returns: its other end was read, or      *)
(* closed.                                                                   *)
Unstuck ==
    /\ sdx.up /\ sdx.stuck.u # 0
    /\ LET u == sdx.stuck.u
       IN \/ ~Held(u) /\ UNCHANGED unit
          \/ Held(u) /\ Len(unit[u].in) < InCap /\ unit' = [unit EXCEPT ![u].in = Append(@, sdx.stuck.data)]
    /\ sdx' = [sdx EXCEPT !.stuck = NoWrite]
    /\ UNCHANGED <<px, sdb, sysd, creq, requeued, busq, brsp, clog, sdhist, sdleft>>

(* lookup_message_bypid *)
KnownPid(u) == px[u].on /\ px[u].pid

(* kill_cb: the unit is found by the pid; the request is not kept, so that   *)
(* the response is lost with it                                              *)
KillCb ==
    /\ NextReq("kill")
    /\ LET u == TheReq.u
       IN IF KnownPid(u)
          THEN busq' = Append(busq, KillUnit(u)) /\ sdhist' = [sdhist EXCEPT !.unanswered = @ + 1]
          ELSE UNCHANGED <<busq, sdhist>>
    /\ UNCHANGED <<px, sdx, sdb, sysd, unit, brsp, clog, sdleft>>

(* disconnect_cb *)
DisconnectCb ==
    /\ NextReq("disconnect")
    /\ LET us == SetToSortSeq({u \in Units : px[u].on}, <)
       IN busq' = busq \o [i \in DOMAIN us |-> KillUnit(us[i])]
    /\ UNCHANGED <<px, sdx, sdb, sysd, unit, brsp, clog, sdhist, sdleft>>

NextRsp(t) == Up /\ requeued = <<>> /\ brsp # <<>> /\ Head(brsp).t = t /\ brsp' = Tail(brsp)

(* property_changed_continuation *)
PropertyChanged ==
    /\ NextRsp("watch")
    /\ LET r == Head(brsp)
           u == r.u
           p == px[u]
           n == UnitUpdate(p, r.sig)
           begin == ~p.started /\ HasStarted(n)
           finish == ~p.finished /\ HasFinished(n)
           stop == ~p.stop /\ ((n.sub = "exited" /\ (p.finished \/ finish)) \/ n.sub = "failed")
           q == [n EXCEPT !.started = @ \/ begin, !.finished = @ \/ finish, !.stop = @ \/ stop,
                          !.watch = IF begin \/ n.sub = "failed" THEN sdleft.chans[u] \ n.eofin ELSE @]
       IN \/ /\ ~p.on /\ UNCHANGED <<px, clog, busq>>
          \/ /\ p.on /\ ~r.ok /\ RespondError(u, "EAGAIN")
          \/ /\ p.on /\ r.ok /\ n = p /\ UNCHANGED <<px, clog, busq>>
          \/ /\ p.on /\ r.ok /\ n # p
             /\ Continue(u, q, (IF begin THEN <<Plain("started")>> ELSE <<>>)
                               \o (IF finish THEN <<Plain("finished")>> ELSE <<>>),
                         IF stop THEN <<StopUnit(u, IF n.sub = "exited" THEN "Stop" ELSE "Reset")>> ELSE <<>>)
    /\ UNCHANGED <<sdx, sdb, sysd, unit, creq, requeued, sdhist, sdleft>>

(* Mutant: the requests are put back in the order in which they are kept. *)
PutBackAsKept(w) == w

(* start_continuation puts each request it takes from the head of            *)
(* write_requests, the last one first, at the head of the queue.             *)
PutBack(w) == Reverse(w)

(* start_continuation; stop_continuation and reset_continuation only log *)
CallContinuation ==
    /\ NextRsp("call")
    /\ LET r == Head(brsp)
           p == px[r.u]
       IN IF r.m # "Start" \/ ~p.on THEN UNCHANGED <<px, clog, busq, requeued>>
          ELSE IF ~r.ok THEN RespondError(r.u, "refused") /\ UNCHANGED requeued
          ELSE /\ px' = [px EXCEPT ![r.u].claimed = TRUE, ![r.u].wreqs = <<>>]
               /\ requeued' = PutBack(p.wreqs) \o requeued
               /\ UNCHANGED <<clog, busq>>
    /\ UNCHANGED <<sdx, sdb, sysd, unit, creq, sdhist, sdleft>>

(* channel_cb: the output is sent, and with EOF the request may be done *)
ChannelCb(u, p, ch, out, eof) ==
    Continue(u, [p EXCEPT !.eofout = IF eof THEN @ \cup {ch} ELSE @], out, <<>>)

(* channel_output_cb *)
ChannelOutput(u, ch) ==
    LET p == px[u]
        pipe == unit[u].pipe[ch]
        n == IF Len(pipe) < OutCap - Len(p.buf[ch]) THEN Len(pipe) ELSE OutCap - Len(p.buf[ch])
        f == FlushOutput(ch, ch \in sdleft.line, p.buf[ch] \o SubSeq(pipe, 1, n), n = 0)
    IN /\ Up /\ p.on /\ ch \in p.watch /\ (n > 0 \/ (~Held(u) /\ p.claimed))
       /\ unit' = [unit EXCEPT ![u].pipe[ch] = SubSeq(@, n + 1, Len(@))]
       /\ ChannelCb(u, [p EXCEPT !.buf[ch] = f.rest, !.watch = IF n = 0 THEN @ \ {ch} ELSE @,
                                 !.eofin = IF n = 0 THEN @ \cup {ch} ELSE @], ch, f.out, n = 0)
       /\ UNCHANGED <<sdx, sdb, sysd, creq, requeued, brsp, sdhist, sdleft>>

(* sdexec_ctx_destroy: the module is unloaded *)
SdexecUnload ==
    /\ Up /\ "sdexec" \in sdleft.unload /\ sdleft' = [sdleft EXCEPT !.unload = @ \ {"sdexec"}]
    /\ sdx' = [sdx EXCEPT !.up = FALSE]
    /\ LET us == SetToSortSeq({u \in Units : px[u].on}, <)
       IN busq' = busq \o [i \in DOMAIN us |-> Cancel(us[i])]
    /\ clog' = [u \in Units |-> IF px[u].on THEN Append(clog[u], Plain("ENOSYS")) ELSE clog[u]]
    /\ px' = [u \in Units |-> NoProc] /\ brsp' = <<>> /\ requeued' = <<>>
    /\ sdhist' = [sdhist EXCEPT !.lost = Units]
    /\ UNCHANGED <<sdb, sysd, unit, creq>>

-----------------------------------------------------------------------------
(* The client *)

Req(t, u, data) == [t |-> t, u |-> u, data |-> data]

ClientExec(u) ==
    /\ u \in sdleft.launch /\ sdleft' = [sdleft EXCEPT !.launch = @ \ {u}]
    /\ creq' = Append(creq, Req("exec", u, ""))
    /\ UNCHANGED <<px, sdx, sdb, sysd, unit, requeued, busq, brsp, clog, sdhist>>

ClientWrite(u) ==
    /\ u \notin sdleft.launch /\ sdleft.writes[u] # <<>>
    /\ sdleft' = [sdleft EXCEPT !.writes[u] = Tail(@)]
    /\ creq' = Append(creq, Req("write", u, Head(sdleft.writes[u])))
    /\ sdhist' = [sdhist EXCEPT !.wrote[u] = Append(@, Head(sdleft.writes[u]))]
    /\ UNCHANGED <<px, sdx, sdb, sysd, unit, requeued, busq, brsp, clog>>

(* A kill names the pid that came with the started response. *)
ClientKill(u) ==
    /\ sdleft.kills > 0 /\ Plain("started") \in Range(clog[u])
    /\ sdleft' = [sdleft EXCEPT !.kills = @ - 1]
    /\ creq' = Append(creq, Req("kill", u, ""))
    /\ UNCHANGED <<px, sdx, sdb, sysd, unit, requeued, busq, brsp, clog, sdhist>>

ClientGone ==
    /\ sdleft.disconnect
    /\ sdleft' = [sdleft EXCEPT !.disconnect = FALSE, !.launch = {}, !.kills = 0, !.writes = [u \in Units |-> <<>>]]
    /\ creq' = Append(creq, Req("disconnect", CHOOSE u \in Units : TRUE, ""))
    /\ UNCHANGED <<px, sdx, sdb, sysd, unit, requeued, busq, brsp, clog, sdhist>>

SdNext ==
    \/ \E u \in Units : UnitExec(u) \/ ProcessStep(u) \/ Announce(u) \/ ClientExec(u) \/ ClientWrite(u) \/ ClientKill(u)
                         \/ \E ch \in OutChans : ChannelOutput(u, ch)
    \/ Method \/ Connect \/ CallCb \/ SubscribeCb \/ SelfResponse \/ Recv \/ BusLost \/ ReconnectCb \/ SdbusUnload \/ Nosys
    \/ ExecCb \/ WriteCb \/ Unstuck \/ KillCb \/ DisconnectCb \/ PropertyChanged \/ CallContinuation \/ SdexecUnload
    \/ ClientGone

-----------------------------------------------------------------------------
SdSpec == (\E s \in SdScenarios : SdInit(s)) /\ [][SdNext]_sd_vars

SdTypeOK ==
    /\ \A u \in Units : /\ px[u].status \in {"none", "ok", "bad", "203"} /\ px[u].watch \cup px[u].eofout \subseteq OutChans
                         /\ px[u].sub \in {"unknown", "start", "running", "exited", "failed", "dead"}
                         /\ unit[u].sub \in {"none", "start", "running", "exited", "failed"}
                         /\ \A ch \in OutChans : Len(px[u].buf[ch]) <= OutCap
    /\ sdb.conn \in {"down", "opened", "up"}

LastResponses == {"ENODATA", "ENOENT", "EINVAL", "EAGAIN", "refused", "ENOSYS"}
Data(u, ch) == FlattenSeq([i \in DOMAIN clog[u] |-> IF clog[u][i].ch = ch THEN clog[u][i].data ELSE <<>>])

(* The responses to an exec request are what rexec's client expects: started *)
(* first, finished once and after it, no output before started unless the    *)
(* command could not be executed, no output of a channel after its EOF, one  *)
(* last response, and nothing lost: ENODATA ends only a stream with all the  *)
(* output of the process and the EOF of every channel.                       *)
ExecStream ==
    \A u \in Units :
        LET R == clog[u]
            At(t) == {i \in DOMAIN R : R[i].t = t}
        IN /\ \A i \in DOMAIN R : R[i].t \in LastResponses => i = Len(R)
           /\ At("started") \subseteq {1} /\ Cardinality(At("finished")) <= 1
           /\ \A i \in At("finished") : 1 \in At("started")
           /\ \A i \in At("output") : 1 \in At("started") \/ unit[u].status = "203"
           /\ \A i, j \in At("output") : R[i].eof /\ R[i].ch = R[j].ch => j <= i
           /\ \A ch \in OutChans : IsPrefix(Data(u, ch), unit[u].wrote[ch])
           /\ At("ENODATA") # {} =>
                /\ unit[u].status \in {"ok", "bad"} /\ At("finished") # {}
                /\ \A ch \in sdleft.chans[u] : /\ \E i \in At("output") : R[i].ch = ch /\ R[i].eof
                                               /\ Data(u, ch) = unit[u].wrote[ch]

(* What the client writes reaches the process in the order written, also     *)
(* what it writes before systemd has taken the stdin.                        *)
InputInOrder == \A u \in Units : IsPrefix(unit[u].got \o unit[u].in, sdhist.wrote[u])

Quiet ==
    /\ creq \o requeued = <<>> /\ busq = <<>> /\ brsp = <<>> /\ sysd.calls = <<>> /\ sysd.out = <<>>
    /\ Up /\ sdb.up /\ sdb.conn = "up"
    /\ \A u \in Units : ~unit[u].dirty /\ (unit[u].sub = "none" => px[u].watch = {})

(* When nothing is under way, sdbus holds no request and just the            *)
(* subscriptions of the processes sdexec knows; a process whose unit is gone *)
(* has had its last response, and a unit that remains is still looked after. *)
(* Excepted are the units whose subscription was lost with the bus, or sent  *)
(* before the module had subscribed to them, and those whose start was sent  *)
(* twice (see StartedOnce).                                                  *)
UnitsAccounted ==
    Quiet => /\ sdb.reqs = <<>> /\ Range(sdb.subs) = {u \in Units : px[u].on}
             /\ \A u \in Units \ (sdhist.lost \cup sdhist.twice) : px[u].on <=> unit[u].sub # "none"

SdexecKept == SdTypeOK /\ ExecStream /\ InputInOrder /\ UnitsAccounted

(* A request is sent to the bus once (the comment above handle_call_request_ *)
(* backlog in sdbus.c takes the requests in the list to be unsent).  It does *)
(* not hold: see the README.                                                 *)
StartedOnce == sdhist.twice = {}

(* A started response means that the command was executed                   *)
(* (property_changed_continuation).  It does not hold: see the README.       *)
StartedMeansExecuted == \A u \in Units : unit[u].status = "203" => Plain("started") \notin Range(clog[u])

(* Every kill request is answered (kill_cb).  It does not hold.              *)
KillsAnswered == sdhist.unanswered = 0

(* The module never blocks.  It does not hold.                               *)
NeverStuck == sdx.stuck.u = 0

=============================================================================
