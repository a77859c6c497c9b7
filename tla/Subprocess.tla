----------------------------- MODULE Subprocess -----------------------------
(***************************************************************************)
(* Remote execution (src/common/libsubprocess): a caller starts processes  *)
(* through the subprocess server of a broker (server.c), which runs each   *)
(* as a local subprocess (local.c) and streams its states and output back  *)
(* to the caller's remote subprocess (remote.c, client.c).  Both ends are  *)
(* the same struct flux_subprocess (subprocess.c), one fed by file         *)
(* descriptors and SIGCHLD, the other by responses.  Requests and          *)
(* responses travel in order; callbacks of the two reactors interleave.    *)
(*                                                                         *)
(* Data is a sequence of pieces: "l" ends a line, "p" does not.            *)
(***************************************************************************)
EXTENDS Naturals, Sequences, FiniteSets, SequencesExt, LineBuffer

CONSTANTS SProcs,        \* the processes a caller may start
          BufCap,        \* the size of a buffer, in pieces (<channel>_BUFSIZE)
          SubScenarios   \* what may happen: see SubInit

VARIABLES caller,   \* [process -> its flux_subprocess_t at the caller]
          server,   \* [process -> its flux_subprocess_t at the server]
          os,       \* [process -> the process itself and what it left running]
          srv,      \* struct subprocess_server, and whether the caller is still connected
          rreq,     \* requests from the caller, in flight
          rresp,    \* responses to it
          sphist,   \* history
          cturn,    \* the channels whose watchers ran since the caller's last message
          spleft    \* the scenario, and what may still happen

sub_vars == <<caller, server, os, srv, rreq, rresp, sphist, cturn, spleft>>

SChans == {"stdin", "stdout", "aux"}

(* struct subprocess_channel.  buf, eofin: read_buffer, or that of          *)
(* buffer_read_w, and whether it saw EOF; eofout: eof_sent_to_caller; watch: *)
(* its watchers run; wbuf, weof, wclosed: buffer_write_w.                    *)
NewChannel == [buf |-> <<>>, eofin |-> FALSE, eofout |-> FALSE, closed |-> FALSE, watch |-> FALSE,
               wbuf |-> 0, weof |-> FALSE, wclosed |-> FALSE]

(* struct flux_subprocess.  rep: state_reported; swatch, cwatch: the state   *)
(* and completion watchers run; done: completed; eofs: channels_eof_sent;    *)
(* pend: signal_pending; rdone: remote_completed; ended: the exec future is  *)
(* not reset any more.                                                       *)
NewSub == [st |-> "init", rep |-> "init", swatch |-> FALSE, done |-> FALSE, cwatch |-> FALSE, eofs |-> 0,
           chan |-> [ch \in SChans |-> NewChannel],
           pid |-> FALSE, pend |-> FALSE, rdone |-> FALSE, ended |-> FALSE]

NoSub == [NewSub EXCEPT !.st = "none"]

(* A process: bg, a child that it left in its process group; pc, how far it  *)
(* is in its program; note, it was stopped; held, who has a channel open.    *)
NoOsProc == [alive |-> FALSE, bg |-> FALSE, pc |-> 1, note |-> FALSE, reaped |-> FALSE,
             pipe |-> [ch \in SChans |-> <<>>], held |-> [ch \in SChans |-> {}]]

(* prog: what each process does, as pairs of an operation and a channel;     *)
(* read: the channels the caller reads; aux: the command has a channel;      *)
(* line: those line buffered; unbuf: FLUX_SUBPROCESS_FLAGS_LOCAL_UNBUF;      *)
(* writes, kills: what the caller does; refuse: processes that may fail to   *)
(* start; shutdown, disconnect, lingers: a background child may live on.     *)
SubInit(s) ==
    /\ caller = [p \in SProcs |-> NoSub] /\ server = [p \in SProcs |-> NoSub]
    /\ os = [p \in SProcs |-> NoOsProc]
    /\ srv = [shutdown |-> "none", up |-> TRUE, hung |-> FALSE, gone |-> FALSE]
    /\ rreq = <<>> /\ rresp = <<>> /\ cturn = {} /\ spleft = s
    /\ sphist = [log |-> [p \in SProcs |-> <<>>], sent |-> [p \in SProcs |-> "open"],
                 got |-> [p \in SProcs |-> [ch \in SChans |-> <<>>]],
                 wrote |-> [p \in SProcs |-> [ch \in SChans |-> <<>>]],
                 cause |-> [p \in SProcs |-> "none"], waits |-> [p \in SProcs |-> 0]]

-----------------------------------------------------------------------------
(* Buffers (fbuf.c, ev_fbuf_read.c) *)

HasLine(b) == \E i \in 1 .. Len(b) : b[i] = "l"
FullBuf(b) == Len(b) = BufCap

(* flux_subprocess_getline of a line buffered channel, flux_subprocess_read  *)
(* of another: what the output callbacks take.                               *)
Taken(line, c) ==
    IF ~line \/ ((FullBuf(c.buf) \/ c.eofin) /\ ~HasLine(c.buf)) THEN c.buf
    ELSE IF HasLine(c.buf) THEN SubSeq(c.buf, 1, SelectInSeq(c.buf, LAMBDA u : u = "l"))
    ELSE <<>>

Rest(c, taken) == [c EXCEPT !.buf = SubSeq(@, Len(taken) + 1, Len(@))]

(* There is something to read, other than EOF. *)
DataReady(line, c) ==
    /\ c.buf # <<>>
    /\ ~line \/ HasLine(c.buf) \/ FullBuf(c.buf) \/ c.eofin

(* remote_out_data_available *)
OutAvailable(line, c) ==
    \/ c.buf # <<>> /\ (~line \/ HasLine(c.buf) \/ FullBuf(c.buf))
    \/ c.eofin /\ ~c.eofout

-----------------------------------------------------------------------------
(* What both ends share (subprocess.c) *)

(* The channels with CHANNEL_READ: of the server, on_channel_out is set when *)
(* the command has channels; of the caller, when it reads them.              *)
ServerReads == (spleft.read \cap {"stdout"}) \cup (IF spleft.aux THEN {"aux"} ELSE {})
CallerReads == spleft.read

(* Mutant: a remote subprocess completes without the end of the stream. *)
CheckCompletedEarly(s, remote) ==
    IF s.st # "exited" \/ s.done
       \/ (~remote /\ s.eofs # Cardinality(ServerReads)) THEN s
    ELSE [s EXCEPT !.done = TRUE, !.cwatch = TRUE]

(* subprocess_check_completed *)
CheckCompleted(s, remote) ==
    IF s.st # "exited" \/ (remote /\ ~s.rdone) \/ s.done
       \/ s.eofs # Cardinality(IF remote THEN CallerReads ELSE ServerReads) THEN s
    ELSE [s EXCEPT !.done = TRUE, !.cwatch = TRUE]

(* state_change_next, and the jump to FAILED from any state *)
NextReport(s) ==
    IF s.st = "failed" THEN "failed" ELSE IF s.rep = "init" THEN "running" ELSE "exited"

(* state_change_check_cb, when there is a change to report *)
StateReported(s, remote) ==
    LET n == NextReport(s)
        t == [s EXCEPT !.rep = n, !.swatch = ~(n \in {"exited", "failed"} \/ n = s.st)]
    IN IF n = "exited" THEN CheckCompleted(t, remote) ELSE t

-----------------------------------------------------------------------------
(* The process *)

EndMain(o) == [o EXCEPT !.alive = FALSE, !.held = [ch \in SChans |-> @[ch] \ {"main"}]]
EndBg(o) == [o EXCEPT !.bg = FALSE, !.held = [ch \in SChans |-> @[ch] \ {"bg"}]]

(* killpg: SIGKILL ends the group, another signal ends what does not catch it *)
Signalled(o, sig) == IF sig = "KILL" THEN {EndBg(EndMain(o))} ELSE {o, EndMain(o), EndBg(EndMain(o))}

GroupExists(o) == o.alive \/ ~o.reaped \/ o.bg

(* The next operation of the program; at its end the process exits. *)
ProcStep(p) ==
    LET o == os[p]
    IN /\ o.alive
       /\ IF o.pc > Len(spleft.prog[p]) THEN os' = [os EXCEPT ![p] = EndMain(o)] /\ UNCHANGED sphist
          ELSE LET op == spleft.prog[p][o.pc][1]
                   ch == spleft.prog[p][o.pc][2]
                   n == [o EXCEPT !.pc = @ + 1]
               IN \/ /\ op \in {"l", "p"}
                     /\ os' = [os EXCEPT ![p] = [n EXCEPT !.pipe[ch] = Append(@, op)]]
                     /\ sphist' = [sphist EXCEPT !.wrote[p][ch] = Append(@, op)]
                  \/ /\ op = "close"
                     /\ os' = [os EXCEPT ![p] = [n EXCEPT !.held[ch] = @ \ {"main"}]]
                     /\ UNCHANGED sphist
                  \/ /\ op = "fork"
                     /\ os' = [os EXCEPT ![p] = [n EXCEPT !.bg = TRUE, !.held = [c \in SChans |->
                                                            IF @[c] = {} THEN {} ELSE @[c] \cup {"bg"}]]]
                     /\ UNCHANGED sphist
                  \/ /\ op = "stop"
                     /\ os' = [os EXCEPT ![p] = [n EXCEPT !.note = TRUE]]
                     /\ UNCHANGED sphist
    /\ UNCHANGED <<caller, server, srv, rreq, rresp, spleft, cturn>>

BackgroundEnd(p) ==
    /\ os[p].bg /\ ~spleft.lingers
    /\ os' = [os EXCEPT ![p] = EndBg(@)]
    /\ UNCHANGED <<caller, server, srv, rreq, rresp, sphist, spleft, cturn>>

-----------------------------------------------------------------------------
(* The server *)

Response(p, t, ch, data) == [p |-> p, t |-> t, ch |-> ch, data |-> data]

(* Responses to a caller that has gone are dropped by its broker. *)
Respond(rs) == rresp' = IF srv.gone THEN rresp ELSE rresp \o rs

(* History: the exec stream of p gets these responses, the last of which     *)
(* ends it when it is ENODATA or an error.                                   *)
Sent(h, p, end) ==
    [h EXCEPT !.sent[p] = IF @ # "open" THEN "extra" ELSE IF end THEN "ended" ELSE @]

Listed == {p \in SProcs : server[p].st \notin {"none", "gone"}}

(* proc_delete *)
ProcDeleted(p) ==
    /\ server' = [server EXCEPT ![p].st = "gone"]
    /\ srv' = IF Listed \subseteq {p} /\ srv.shutdown = "pending" THEN [srv EXCEPT !.shutdown = "done"] ELSE srv

(* proc_internal_fatal: FAILED, and SIGKILL to the process group *)
InternalFatal(p, why) ==
    /\ server' = [server EXCEPT ![p].st = "failed", ![p].swatch = TRUE]
    /\ os' = [os EXCEPT ![p] = EndBg(EndMain(@))]
    /\ sphist' = [sphist EXCEPT !.cause[p] = why]

Serving == srv.up /\ ~srv.hung

NextRequest(t) == Serving /\ rreq # <<>> /\ Head(rreq).t = t /\ rreq' = Tail(rreq)

(* channel_local_setup and start_local_watchers: what is read is watched *)
LocalChannels == [ch \in SChans |-> [NewChannel EXCEPT !.watch = ch \in ServerReads]]

(* flux_local_exec_ex: the process runs in a group of its own, and RUNNING   *)
(* is to be reported *)
LocalExec(p) ==
    /\ server' = [server EXCEPT ![p] =
                   [NewSub EXCEPT !.st = "running", !.swatch = TRUE, !.pid = TRUE, !.chan = LocalChannels]]
    /\ os' = [os EXCEPT ![p] = [NoOsProc EXCEPT !.alive = TRUE, !.held = [ch \in SChans |-> {"main"}]]]

(* server_exec_cb *)
ServerExec ==
    /\ NextRequest("exec")
    /\ LET p == Head(rreq).p
       IN \/ /\ srv.shutdown # "none" \/ p \in spleft.refuse
             /\ Respond(<<Response(p, "error", "refused", <<>>)>>)
             /\ sphist' = Sent(sphist, p, TRUE)
             /\ UNCHANGED <<server, os>>
          \/ /\ srv.shutdown = "none" /\ LocalExec(p)
             /\ UNCHANGED <<rresp, sphist>>
    /\ UNCHANGED <<caller, srv, spleft, cturn>>

(* server_write_cb, with flux_subprocess_write or flux_subprocess_close of   *)
(* the local subprocess *)
ServerWrite ==
    /\ NextRequest("write")
    /\ LET r == Head(rreq)
           c == server[r.p].chan[r.ch]
       IN IF server[r.p].st # "running" THEN UNCHANGED <<server, os, sphist>>
          ELSE \/ /\ r.data # <<>> /\ c.closed /\ InternalFatal(r.p, "epipe")
               \/ /\ r.data # <<>> /\ ~c.closed /\ c.wbuf = BufCap /\ InternalFatal(r.p, "nospace")
               \/ /\ r.data # <<>> /\ ~c.closed /\ c.wbuf < BufCap
                  /\ server' = [server EXCEPT ![r.p].chan[r.ch].wbuf = @ + 1]
                  /\ UNCHANGED <<os, sphist>>
               \/ /\ r.data = <<>>
                  /\ server' = [server EXCEPT ![r.p].chan[r.ch] =
                                 IF c.closed THEN c ELSE [c EXCEPT !.weof = TRUE, !.closed = TRUE]]
                  /\ UNCHANGED <<os, sphist>>
    /\ UNCHANGED <<caller, srv, rresp, spleft, cturn>>

(* server_kill_cb *)
ServerKill ==
    /\ NextRequest("kill")
    /\ LET r == Head(rreq)
       IN /\ IF r.p \in Listed /\ GroupExists(os[r.p])
             THEN \E o \in Signalled(os[r.p], r.sig) : os' = [os EXCEPT ![r.p] = o]
             ELSE UNCHANGED os
          /\ Respond(<<Response(r.p, "killed", r.ch, <<>>)>>)
    /\ UNCHANGED <<caller, server, srv, sphist, spleft, cturn>>

(* server_kill of each process in s *)
KillEach(s, sig) ==
    \E f \in [SProcs -> UNION {Signalled(os[p], sig) \cup {os[p]} : p \in SProcs}] :
      /\ \A p \in SProcs : IF p \in s /\ server[p].st = "running" THEN f[p] \in Signalled(os[p], sig)
                           ELSE f[p] = os[p]
      /\ os' = f

(* server_disconnect_cb *)
ServerDisconnect ==
    /\ NextRequest("disconnect")
    /\ KillEach(Listed, "KILL")
    /\ UNCHANGED <<caller, server, srv, rresp, sphist, spleft, cturn>>

(* subprocess_server_shutdown, by the broker as it exits *)
ServerShutdown ==
    /\ Serving /\ spleft.shutdown /\ spleft' = [spleft EXCEPT !.shutdown = FALSE]
    /\ IF Listed = {} THEN srv' = [srv EXCEPT !.shutdown = "done"] /\ UNCHANGED os
       ELSE srv' = [srv EXCEPT !.shutdown = "pending"] /\ KillEach(Listed, "TERM")
    /\ UNCHANGED <<caller, server, rreq, rresp, sphist, cturn>>

(* subprocess_server_destroy, when the shutdown is done or has timed out *)
ServerDestroy ==
    /\ Serving /\ srv.shutdown # "none"
    /\ srv' = [srv EXCEPT !.up = FALSE] /\ KillEach(Listed, "KILL")
    /\ server' = [p \in SProcs |-> IF p \in Listed THEN [server[p] EXCEPT !.st = "gone"] ELSE server[p]]
    /\ UNCHANGED <<caller, rreq, rresp, sphist, spleft, cturn>>

(* state_change_check_cb with proc_state_change_cb *)
ServerState(p) ==
    /\ Serving /\ p \in Listed /\ server[p].swatch
    /\ LET n == NextReport(server[p])
       IN IF n = "failed"
          THEN /\ Respond(<<Response(p, "error", "failed", <<>>)>>)
               /\ sphist' = Sent(sphist, p, TRUE)
               /\ ProcDeleted(p)
          ELSE /\ Respond(<<Response(p, IF n = "running" THEN "started" ELSE "finished", "", <<>>)>>)
               /\ sphist' = Sent(sphist, p, FALSE)
               /\ server' = [server EXCEPT ![p] = StateReported(@, FALSE)]
               /\ UNCHANGED srv
    /\ UNCHANGED <<caller, os, rreq, spleft, cturn>>

(* child_watch_cb: the process was stopped, or has ended *)
ChildWatch(p) ==
    /\ Serving /\ p \in Listed
    /\ \/ /\ os[p].note /\ os' = [os EXCEPT ![p].note = FALSE]
          /\ Respond(<<Response(p, "stopped", "", <<>>)>>) /\ sphist' = Sent(sphist, p, FALSE)
          /\ UNCHANGED server
       \/ /\ ~os[p].alive /\ ~os[p].reaped /\ os' = [os EXCEPT ![p].reaped = TRUE, ![p].note = FALSE]
          /\ server' = [server EXCEPT ![p] =
                 CheckCompleted(IF @.st = "running" THEN [@ EXCEPT !.st = "exited", !.swatch = TRUE] ELSE @, FALSE)]
          /\ UNCHANGED <<rresp, sphist>>
    /\ UNCHANGED <<caller, srv, rreq, spleft, cturn>>

(* buffer_read_cb (ev_fbuf_read.c): what fits goes from the descriptor into  *)
(* the buffer, and EOF is seen when nobody holds the other end               *)
ReadFd(p, ch) ==
    LET c == server[p].chan[ch]
        n == IF Len(os[p].pipe[ch]) < BufCap - Len(c.buf) THEN Len(os[p].pipe[ch]) ELSE BufCap - Len(c.buf)
    IN /\ Serving /\ p \in Listed /\ c.watch /\ ~c.eofin /\ ~FullBuf(c.buf)
       /\ n > 0 \/ os[p].held[ch] = {}
       /\ server' = [server EXCEPT ![p].chan[ch].buf = @ \o SubSeq(os[p].pipe[ch], 1, n),
                                   ![p].chan[ch].eofin = n = 0]
       /\ os' = [os EXCEPT ![p].pipe[ch] = SubSeq(@, n + 1, Len(@))]
       /\ UNCHANGED <<caller, srv, rreq, rresp, sphist, spleft, cturn>>

(* local_output with proc_output_cb: a piece of output, or EOF, which also   *)
(* closes the other direction of the channel                                 *)
LocalOutput(p, ch) ==
    LET c == server[p].chan[ch]
        taken == Taken(ch \in spleft.line, c)
        eof == c.buf = <<>> /\ ~c.eofout
        d == IF eof THEN [c EXCEPT !.eofout = TRUE, !.watch = FALSE, !.closed = TRUE] ELSE Rest(c, taken)
        s == [server[p] EXCEPT !.chan[ch] = d, !.eofs = IF eof THEN @ + 1 ELSE @]
    IN /\ Serving /\ p \in Listed /\ c.watch
       /\ DataReady(ch \in spleft.line, c) \/ (c.eofin /\ ~c.eofout /\ c.buf = <<>>)
       /\ Respond(<<Response(p, "output", ch, taken)>>) /\ sphist' = Sent(sphist, p, FALSE)
       /\ server' = [server EXCEPT ![p] = IF d.eofout THEN CheckCompleted(s, FALSE) ELSE s]
       /\ UNCHANGED <<caller, os, srv, rreq, spleft, cturn>>

(* local_channel_flush calls the output callback until the buffer is empty;  *)
(* a line without an end is not taken by the callback, which sends EOF       *)
(* instead, so that the loop never ends.                                     *)
Endless(line, c) == line /\ ~c.eofin /\ ~FullBuf(Lines(c.buf).cur) /\ Lines(c.buf).cur # <<>>

Flushed(p, line, ch, c) ==
    LET b == Lines(c.buf)
        out == IF ~line THEN IF c.buf = <<>> THEN <<>> ELSE <<c.buf>>
               ELSE b.out \o (IF b.cur = <<>> \/ Endless(line, c) THEN <<>> ELSE <<b.cur>>)
    IN [i \in 1 .. Len(out) |-> Response(p, "output", ch, out[i])] \o <<Response(p, "output", ch, <<>>)>>

(* buffer_write_cb (ev_fbuf_write.c): the process takes what was written to  *)
(* it; at EOF the descriptor is closed, in both directions, and local_in_cb  *)
(* flushes the channel.  Nothing is taken once the process closed its end.   *)
WriteFd(p, ch) ==
    LET c == server[p].chan[ch]
        line == ch \in spleft.line
        flush == ch \in ServerReads /\ ~c.eofout
        d == [c EXCEPT !.wclosed = TRUE, !.weof = FALSE,
                       !.buf = IF flush THEN <<>> ELSE @, !.eofout = @ \/ flush, !.watch = @ /\ ~flush]
        s == [server[p] EXCEPT !.chan[ch] = d, !.eofs = IF flush THEN @ + 1 ELSE @]
    IN /\ Serving /\ p \in Listed /\ ~c.wclosed /\ ~(ch \in ServerReads /\ c.eofout)
       /\ \/ /\ c.wbuf > 0 /\ os[p].held[ch] # {}
             /\ server' = [server EXCEPT ![p].chan[ch].wbuf = 0]
             /\ UNCHANGED <<srv, rresp, sphist>>
          \/ /\ c.wbuf = 0 /\ c.weof
             /\ IF flush THEN /\ Respond(Flushed(p, line, ch, c))
                              /\ sphist' = Sent(sphist, p, FALSE)
                              /\ srv' = [srv EXCEPT !.hung = Endless(line, c)]
                ELSE UNCHANGED <<rresp, sphist, srv>>
             /\ server' = [server EXCEPT ![p] = CheckCompleted(s, FALSE)]
       /\ UNCHANGED <<caller, os, rreq, spleft, cturn>>

(* completed_check_cb with proc_completion_cb *)
ServerCompleted(p) ==
    /\ Serving /\ p \in Listed /\ server[p].cwatch /\ server[p].rep = "exited"
    /\ Respond(<<Response(p, "error", "nodata", <<>>)>>) /\ sphist' = Sent(sphist, p, TRUE)
    /\ ProcDeleted(p)
    /\ UNCHANGED <<caller, os, rreq, spleft, cturn>>

-----------------------------------------------------------------------------
(* The caller *)

Request(t, p, ch, data, sig) == [t |-> t, p |-> p, ch |-> ch, data |-> data, sig |-> sig]

Logged(h, p, kind, ch) == [h EXCEPT !.log[p] = Append(@, <<kind, ch>>)]

(* flux_rexec_ex with subprocess_remote_setup and remote_exec *)
Rexec(p) ==
    /\ ~srv.gone /\ p \in spleft.launch /\ caller[p].st = "none"
    /\ caller' = [caller EXCEPT ![p] = NewSub]
    /\ rreq' = Append(rreq, Request("exec", p, "", <<>>, ""))
    /\ UNCHANGED <<server, os, srv, rresp, sphist, spleft, cturn>>

(* flux_subprocess_write and flux_subprocess_close of a remote subprocess *)
CallerWrite(p) ==
    /\ ~srv.gone /\ caller[p].st # "none" /\ spleft.writes[p] # <<>>
    /\ LET op == Head(spleft.writes[p])[1]
           ch == Head(spleft.writes[p])[2]
           c == caller[p].chan[ch]
           sends == ~c.closed /\ (op = "close" \/ caller[p].st \in {"init", "running"})
       IN /\ rreq' = IF sends THEN Append(rreq, Request("write", p, ch, IF op = "close" THEN <<>> ELSE <<"l">>, ""))
                     ELSE rreq
          /\ caller' = [caller EXCEPT ![p].chan[ch].closed = @ \/ op = "close"]
    /\ spleft' = [spleft EXCEPT !.writes[p] = Tail(@)]
    /\ UNCHANGED <<server, os, srv, rresp, sphist, cturn>>

(* flux_subprocess_kill of a remote subprocess: before it runs, one signal   *)
(* is kept (add_pending_signal).  waits counts the futures not fulfilled.    *)
CallerKill(p) ==
    /\ ~srv.gone /\ spleft.kills[p] > 0 /\ caller[p].st \in {"init", "running"}
    /\ spleft' = [spleft EXCEPT !.kills[p] = @ - 1]
    /\ \/ /\ caller[p].st = "init" /\ caller[p].pend /\ UNCHANGED <<caller, rreq, sphist>>
       \/ /\ caller[p].st = "init" /\ ~caller[p].pend
          /\ caller' = [caller EXCEPT ![p].pend = TRUE]
          /\ sphist' = [sphist EXCEPT !.waits[p] = @ + 1]
          /\ UNCHANGED rreq
       \/ /\ caller[p].st = "running"
          /\ rreq' = Append(rreq, Request("kill", p, "user", <<>>, "TERM"))
          /\ sphist' = [sphist EXCEPT !.waits[p] = @ + 1]
          /\ UNCHANGED caller
    /\ UNCHANGED <<server, os, srv, rresp, cturn>>

(* process_new_state, in a state other than FAILED, with fwd_pending_signal: *)
(* the signal is sent, or its future fulfilled with an error                 *)
NewState(p, s, st) ==
    LET t == [s EXCEPT !.st = st, !.swatch = @ \/ st # s.rep, !.pend = FALSE,
                       !.chan = [ch \in SChans |-> [@[ch] EXCEPT !.watch = @ /\ st # "failed"]]]
    IN [sub |-> t, reqs |-> IF s.pend /\ st = "running" THEN <<Request("kill", p, "user", <<>>, "TERM")>> ELSE <<>>,
        told |-> IF s.pend /\ st # "running" THEN 1 ELSE 0]

(* The end of rexec_continuation: the result of process_new_state, and when  *)
(* the subprocess failed remote_kill_nowait                                  *)
Continued(p, s, st, why) ==
    LET r == NewState(p, s, st)
        kill == IF st = "failed" /\ s.pid THEN <<Request("kill", p, "nowait", <<>>, "KILL")>> ELSE <<>>
    IN /\ caller' = [caller EXCEPT ![p] = r.sub] /\ rreq' = rreq \o r.reqs \o kill
       /\ sphist' = [sphist EXCEPT !.waits[p] = @ - r.told,
                                   !.cause[p] = IF st = "failed" /\ @ = "none" THEN why ELSE @]

Failed(p, why) == Continued(p, [caller[p] EXCEPT !.ended = TRUE], "failed", why)

(* remote_output_buffered and remote_output_local_unbuf *)
RemoteOutput(p, ch, data) ==
    LET c == caller[p].chan[ch]
        eof == data = <<>>
        d == [c EXCEPT !.buf = @ \o data, !.eofin = @ \/ eof]
    IN IF spleft.unbuf
       THEN /\ caller' = [caller EXCEPT ![p].chan[ch].eofin = @ \/ eof, ![p].chan[ch].eofout = @ \/ eof,
                                        ![p].eofs = IF eof /\ ~c.eofout THEN @ + 1 ELSE @]
            /\ sphist' = IF eof THEN IF c.eofout THEN sphist ELSE Logged(sphist, p, "eof", ch)
                         ELSE [sphist EXCEPT !.got[p][ch] = @ \o data]
            /\ UNCHANGED rreq
       ELSE IF ~eof /\ ch \notin CallerReads THEN Failed(p, "unread")
       ELSE IF ~eof /\ (c.eofin \/ Len(d.buf) > BufCap) THEN Failed(p, "overrun")
       ELSE /\ caller' = [caller EXCEPT ![p].chan[ch] =
                 [d EXCEPT !.watch = @ \/ (ch \in CallerReads /\ OutAvailable(ch \in spleft.line, d))]]
            /\ UNCHANGED <<rreq, sphist>>

(* The check watcher of a channel has priority: it runs before the next      *)
(* message is handled.                                                       *)
EmptiedFirst == \A p \in SProcs, ch \in SChans : caller[p].chan[ch].watch => <<p, ch>> \in cturn

(* The next response goes to process p, with s to be its continuation. *)
NextResponse(ts) ==
    /\ ~srv.gone /\ rresp # <<>> /\ EmptiedFirst /\ Head(rresp).t \in ts
    /\ rresp' = Tail(rresp) /\ cturn' = {}

(* rexec_continuation *)
RexecContinuation ==
    /\ NextResponse({"started", "stopped", "finished", "output", "error"})
    /\ LET r == Head(rresp)
           p == r.p
       IN \/ /\ caller[p].ended /\ UNCHANGED <<caller, rreq, sphist>>
          \/ /\ ~caller[p].ended /\ r.t = "started"
             /\ Continued(p, [caller[p] EXCEPT !.pid = TRUE], "running", "")
          \/ /\ ~caller[p].ended /\ r.t = "stopped"
             /\ sphist' = Logged(sphist, p, "stopped", "") /\ UNCHANGED <<caller, rreq>>
          \/ /\ ~caller[p].ended /\ r.t = "finished" /\ Continued(p, caller[p], "exited", "")
          \/ /\ ~caller[p].ended /\ r.t = "output" /\ RemoteOutput(p, r.ch, r.data)
          \/ /\ ~caller[p].ended /\ r.t = "error" /\ r.ch = "nodata"
             /\ IF caller[p].st # "exited" THEN Failed(p, "protocol")
                ELSE /\ caller' = [caller EXCEPT ![p] =
                                     CheckCompleted([@ EXCEPT !.rdone = TRUE, !.ended = TRUE], TRUE)]
                     /\ UNCHANGED <<rreq, sphist>>
          \/ /\ ~caller[p].ended /\ r.t = "error" /\ r.ch # "nodata" /\ Failed(p, r.ch)
    /\ UNCHANGED <<server, os, srv, spleft>>

(* The future of a kill request is fulfilled (for a pending signal, through  *)
(* sigpending_cb), unless nobody waits for it.                               *)
KillAnswered ==
    /\ NextResponse({"killed"})
    /\ LET r == Head(rresp)
       IN sphist' = IF r.ch = "user" THEN [sphist EXCEPT !.waits[r.p] = @ - 1] ELSE sphist
    /\ UNCHANGED <<caller, server, os, srv, rreq, spleft>>

(* state_change_check_cb with the caller's callback *)
CallerState(p) ==
    /\ ~srv.gone /\ caller[p].swatch
    /\ caller' = [caller EXCEPT ![p] = StateReported(@, TRUE)]
    /\ sphist' = Logged(sphist, p, NextReport(caller[p]), "")
    /\ UNCHANGED <<server, os, srv, rreq, rresp, cturn, spleft>>

(* remote_out_check_cb with the caller's callback *)
RemoteOutCheck(p, ch) ==
    LET c == caller[p].chan[ch]
        line == ch \in spleft.line
        taken == IF DataReady(line, c) THEN Taken(line, c) ELSE <<>>
        d == Rest(c, taken)
        eof == d.buf = <<>> /\ d.eofin /\ ~d.eofout
        e == [d EXCEPT !.eofout = @ \/ eof]
        f == IF ~OutAvailable(line, e) \/ e.eofout THEN [e EXCEPT !.watch = FALSE, !.closed = @ \/ e.eofout] ELSE e
        s == [caller[p] EXCEPT !.chan[ch] = f, !.eofs = IF eof THEN @ + 1 ELSE @]
        h == [sphist EXCEPT !.got[p][ch] = @ \o taken]
    IN /\ ~srv.gone /\ c.watch /\ cturn' = cturn \cup {<<p, ch>>}
       /\ caller' = [caller EXCEPT ![p] = IF f.eofout THEN CheckCompleted(s, TRUE) ELSE s]
       /\ sphist' = IF eof THEN Logged(h, p, "eof", ch) ELSE h
       /\ UNCHANGED <<server, os, srv, rreq, rresp, spleft>>

(* completed_check_cb: EXITED is reported before the completion *)
CallerCompleted(p) ==
    /\ ~srv.gone /\ caller[p].cwatch /\ caller[p].rep = "exited"
    /\ caller' = [caller EXCEPT ![p].cwatch = FALSE]
    /\ sphist' = Logged(sphist, p, "completed", "")
    /\ UNCHANGED <<server, os, srv, rreq, rresp, cturn, spleft>>

(* The caller's connection goes away; its broker tells the server. *)
CallerDisconnect ==
    /\ ~srv.gone /\ spleft.disconnect
    /\ srv' = [srv EXCEPT !.gone = TRUE] /\ rresp' = <<>>
    /\ rreq' = Append(rreq, Request("disconnect", CHOOSE p \in SProcs : TRUE, "", <<>>, ""))
    /\ UNCHANGED <<caller, server, os, sphist, cturn, spleft>>

SubNext ==
    \/ \E p \in SProcs : \/ ProcStep(p) \/ BackgroundEnd(p)
                          \/ Rexec(p) \/ CallerWrite(p) \/ CallerKill(p) \/ CallerState(p) \/ CallerCompleted(p)
                          \/ ServerState(p) \/ ChildWatch(p) \/ ServerCompleted(p)
                          \/ \E ch \in SChans : ReadFd(p, ch) \/ LocalOutput(p, ch) \/ WriteFd(p, ch) \/ RemoteOutCheck(p, ch)
    \/ ServerExec \/ ServerWrite \/ ServerKill \/ ServerDisconnect \/ ServerShutdown \/ ServerDestroy
    \/ RexecContinuation \/ KillAnswered \/ CallerDisconnect

-----------------------------------------------------------------------------
(* Properties *)

Ends(p) == SelectSeq(sphist.log[p], LAMBDA e : e[1] # "stopped" /\ e[1] # "eof")
At(p, e) == {i \in 1 .. Len(sphist.log[p]) : sphist.log[p][i] = e}

(* The caller of a process hears running, exited and completed once and in   *)
(* this order, or failed and then nothing; by the completion each channel it *)
(* reads had its EOF, once, and every piece of output that was written to it *)
(* (subprocess.c: "We would like to report state EXITED to the user before   *)
(* calling the completion callback").  Output of a channel that the caller   *)
(* itself closed may be cut.                                                 *)
StreamIntact ==
    \A p \in SProcs :
      /\ \/ IsPrefix(Ends(p), <<<<"running", "">>, <<"exited", "">>, <<"completed", "">>>>)
         \/ Ends(p) # <<>> /\ Last(Ends(p)) = <<"failed", "">>
            /\ IsPrefix(Front(Ends(p)), <<<<"running", "">>, <<"exited", "">>>>)
      /\ \A ch \in SChans : Cardinality(At(p, <<"eof", ch>>)) <= 1
      /\ At(p, <<"completed", "">>) # {} =>
           \A ch \in CallerReads :
             /\ At(p, <<"eof", ch>>) # {}
             /\ \A i \in At(p, <<"eof", ch>>), j \in At(p, <<"completed", "">>) : i < j
             /\ ~server[p].chan[ch].wclosed => sphist.got[p][ch] = sphist.wrote[p][ch]

(* A process fails only when it was refused, or when a write met a full      *)
(* buffer or a channel that its reader had closed, or when it wrote to a     *)
(* channel nobody reads: never because the caller was slower than the        *)
(* output, and never for a breach of the protocol (remote.c: "the output     *)
(* check should be called before other check callbacks").  Its stream ends   *)
(* once, with nothing after the end.                                         *)
FailsForCause ==
    \A p \in SProcs : /\ sphist.cause[p] \notin {"overrun", "protocol"}
                      /\ sphist.sent[p] # "extra"

SubQuiet ==
    /\ Serving /\ rreq = <<>> /\ rresp = <<>>
    /\ \A p \in SProcs :
         /\ ~srv.gone => ~caller[p].swatch /\ ~caller[p].cwatch /\ \A ch \in SChans : ~caller[p].chan[ch].watch
         /\ p \in Listed =>
              /\ ~server[p].swatch /\ ~(server[p].cwatch /\ server[p].rep = "exited") /\ (os[p].alive \/ os[p].reaped)
              /\ \A ch \in SChans : LET c == server[p].chan[ch]
                                    IN c.watch => ~c.eofin /\ os[p].pipe[ch] = <<>> /\ os[p].held[ch] # {}

(* When nothing is left to do but to wait for the processes: every kill has  *)
(* been answered, a process whose group has ended was completed or failed at *)
(* the caller, a shutdown of the server waits only for processes that live   *)
(* on, and no process outlived a disconnect of its caller.  The server that  *)
(* goes away leaves none of its processes behind.  The last two speak of the *)
(* main process: one that has exited is not killed any more, and children it *)
(* left in the background live on.                                           *)
SubSettled ==
    /\ SubQuiet =>
         /\ \A p \in SProcs :
              /\ ~srv.gone => sphist.waits[p] = 0
              /\ ~srv.gone /\ caller[p].st # "none" /\ ~os[p].alive /\ ~os[p].bg =>
                   Ends(p) # <<>> /\ Last(Ends(p)) \in {<<"completed", "">>, <<"failed", "">>}
              /\ srv.gone => ~os[p].alive
         /\ srv.shutdown = "pending" => \E p \in Listed : os[p].alive \/ os[p].bg
    /\ ~srv.up => \A p \in SProcs : ~os[p].alive

SubprocessKept == StreamIntact /\ FailsForCause /\ SubSettled

=============================================================================
