------------------------------- MODULE MCExec -------------------------------
(***************************************************************************)
(* The scenarios of what starts and runs processes: the subprocess server  *)
(* and its callers, and processes that are systemd units.                  *)
(***************************************************************************)
EXTENDS Subprocess, Sdexec

-----------------------------------------------------------------------------
(* Subprocess *)

NoSubs == [launch |-> {}, prog |-> <<<<>>, <<>>>>, read |-> {}, aux |-> FALSE, line |-> {}, unbuf |-> FALSE,
           writes |-> <<<<>>, <<>>>>, kills |-> <<0, 0>>, refuse |-> {}, shutdown |-> FALSE,
           disconnect |-> FALSE, lingers |-> FALSE]

Reads(prog, line) == [NoSubs EXCEPT !.launch = {1}, !.prog[1] = prog, !.read = {"stdout"},
                                    !.line = IF line THEN {"stdout"} ELSE {}]
Aux(prog, writes) == [NoSubs EXCEPT !.launch = {1}, !.prog[1] = prog, !.aux = TRUE, !.writes[1] = writes]
Two(prog1, prog2) == [NoSubs EXCEPT !.launch = {1, 2}, !.prog = <<prog1, prog2>>]

L == <<"l", "stdout">>
P == <<"p", "stdout">>
Fork == <<"fork", "">>
Ask == <<"write", "stdin">>

MCSubScenarios ==
    {[Reads(<<L, <<"stop", "">>, P>>, TRUE) EXCEPT !.kills[1] = 2, !.refuse = {1}],
     Reads(<<L, P, P, P, L>>, TRUE),
     Reads(<<L, P, P, L>>, FALSE),
     [Reads(<<L, Fork, P>>, TRUE) EXCEPT !.unbuf = TRUE, !.writes[1] = <<Ask, Ask, Ask>>],
     [Aux(<<<<"l", "aux">>, <<"close", "aux">>>>, <<<<"write", "aux">>>>) EXCEPT !.read = {"aux"}],
     [Aux(<<<<"l", "aux">>, <<"p", "aux">>>>, <<<<"write", "aux">>, <<"close", "aux">>>>)
        EXCEPT !.read = {"aux"}, !.line = {"aux"}],
     Aux(<<<<"l", "aux">>>>, <<<<"close", "stdin">>>>),
     [Reads(<<L, Fork>>, TRUE) EXCEPT !.shutdown = TRUE, !.lingers = TRUE],
     [Two(<<>>, <<>>) EXCEPT !.shutdown = TRUE],
     [Two(<<L>>, <<Fork>>) EXCEPT !.read = {"stdout"}, !.line = {"stdout"}, !.disconnect = TRUE, !.lingers = TRUE]}

-----------------------------------------------------------------------------
(* Sdexec *)

End(st) == <<"exit", st>>
NoSdexec == [launch |-> {}, chans |-> [u \in Units |-> {}], line |-> {}, prog |-> [u \in Units |-> <<End("ok")>>],
             writes |-> [u \in Units |-> <<>>], kills |-> 0, disconnect |-> FALSE, refuse |-> {}, drops |-> 0,
             unload |-> {}, up |-> TRUE]
OneUnit == [NoSdexec EXCEPT !.launch = {1}, !.chans[1] = {"stdout"}]
SdOutput == [OneUnit EXCEPT !.chans[1] = OutChans, !.line = {"stdout"},
     !.prog[1] = <<<<"l", "stdout">>, <<"p", "stdout">>, <<"p", "stderr">>, <<"p", "stdout">>, <<"p", "stdout">>, End("bad")>>]
SdInput == [OneUnit EXCEPT !.prog[1] = <<<<"read", "">>, <<"l", "stdout">>, End("ok")>>, !.writes[1] = <<"a", "b", "c", "eof", "d">>]
SdBlock == [NoSdexec EXCEPT !.launch = {1}, !.writes[1] = <<"a", "b", "c">>, !.prog[1] = <<End("ok")>>, !.kills = 1]
SdKill == [OneUnit EXCEPT !.prog[1] = <<<<"p", "stdout">>, <<"read", "">>, End("ok")>>, !.kills = 1]
SdRefuse == [OneUnit EXCEPT !.refuse = {1}, !.writes[1] = <<"a">>]
SdLeave == [OneUnit EXCEPT !.disconnect = TRUE, !.prog[1] = <<<<"p", "stdout">>, <<"read", "">>, End("ok")>>]
SdConnect == [NoSdexec EXCEPT !.launch = {1}, !.up = FALSE]
SdBusRetry == [NoSdexec EXCEPT !.up = FALSE, !.drops = 2]
SdBusLost == [OneUnit EXCEPT !.drops = 1]
SdUnload == [NoSdexec EXCEPT !.launch = {1}, !.unload = {"sdexec", "sdbus"}]

MCSdScenarios ==
    {SdBusRetry, SdLeave, SdOutput, SdInput, SdBlock, SdKill, SdRefuse, SdConnect, SdBusLost, SdUnload}

=============================================================================
