------------------------------- MODULE Runat --------------------------------
(***************************************************************************)
(* The broker's named lists of commands (src/broker/runat.c): rc1, rc2,    *)
(* cleanup and rc3 are entries whose commands are run one after the other. *)
(* One entry is modelled; the broker starts it once (state_machine.c) and  *)
(* may abort it, and clients may push commands to it (runat.push, as       *)
(* "flux admin cleanup-push" does).                                        *)
(***************************************************************************)
EXTENDS Naturals, Sequences, FiniteSets, SequencesExt

CONSTANT RunatScenarios   \* sets of [pushes, late, aborts]: the commands that may be pushed,
                          \* those of them that may be pushed after the start, and whether the
                          \* entry may be aborted

VARIABLES entry,   \* struct runat_entry, with the process of the command at the head
          ran,     \* history: [due, seq]: the list as it was started, and the commands that
                   \* were started, or could not be, in that order
          codes,   \* history: the exit codes in the order the commands ended
          rleft    \* what may still happen

runat_vars == <<entry, ran, codes, rleft>>

Commands == UNION {s.pushes : s \in RunatScenarios}

(* proc: the state of the subprocess that was started last ("none" if it    *)
(* has ended); hup: SIGHUP was sent to it; calls: how often the completion   *)
(* callback was called.                                                     *)
NewEntry == [commands |-> <<>>, started |-> FALSE, proc |-> "none", hup |-> FALSE, exit_code |-> 0,
             aborted |-> FALSE, completed |-> FALSE, calls |-> 0]

RunatInit(s) ==
    /\ entry = NewEntry /\ rleft = s
    /\ ran = [due |-> <<>>, seq |-> <<>>] /\ codes = <<>>

(* Mutant: a command that cannot be started takes the next one with it. *)
NextCommandsSkip(e, n) ==
    IF e.aborted THEN [e EXCEPT !.commands = <<>>]
    ELSE [e EXCEPT !.commands = SubSeq(@, IF n > 0 THEN n + 2 ELSE 1, Len(@)),
                   !.exit_code = IF @ = 0 /\ n > 0 THEN 1 ELSE @]

(* start_next_command, when the first n commands cannot be started *)
NextCommands(e, n) ==
    IF e.aborted THEN [e EXCEPT !.commands = <<>>]
    ELSE [e EXCEPT !.commands = SubSeq(@, n + 1, Len(@)),
                   !.exit_code = IF @ = 0 /\ n > 0 THEN 1 ELSE @]

StartNextCommand(e, n) ==
    LET f == NextCommands(e, n)
    IN IF f.commands = <<>> THEN [f EXCEPT !.completed = TRUE, !.calls = @ + 1, !.proc = "none"]
       ELSE [f EXCEPT !.proc = "init", !.hup = FALSE]

(* What start_next_command starts, after the n commands that fail. *)
Starts(e, n) ==
    LET f == StartNextCommand(e, n)
    IN /\ n <= Len(e.commands) /\ (e.aborted => n = 0)
       /\ entry' = f
       /\ ran' = [due |-> IF entry.started THEN ran.due ELSE e.commands,
                  seq |-> ran.seq \o SubSeq(e.commands, 1, n)
                          \o (IF f.completed THEN <<>> ELSE <<Head(f.commands)>>)]

(* runat_push: at the head of the list; one that comes after the completion *)
(* is never run and not modelled.                                           *)
RunatPush(c) ==
    /\ c \in rleft.pushes /\ (entry.started => c \in rleft.late /\ ~entry.completed)
    /\ rleft' = [rleft EXCEPT !.pushes = @ \ {c}]
    /\ entry' = [entry EXCEPT !.commands = <<c>> \o @]
    /\ UNCHANGED <<ran, codes>>

(* runat_start, which the broker does for an entry that is defined *)
RunatStart ==
    /\ ~entry.started /\ entry.commands # <<>>
    /\ \E n \in 0 .. Len(entry.commands) :
         /\ Starts([entry EXCEPT !.started = TRUE], n)
         /\ codes' = codes \o [i \in 1 .. n |-> 1]
    /\ UNCHANGED rleft

(* state_change_cb: the process is running *)
StateChange ==
    /\ entry.proc = "init"
    /\ entry' = [entry EXCEPT !.proc = "running", !.hup = entry.aborted]
    /\ UNCHANGED <<ran, codes, rleft>>

(* The code that completion_cb records: one that the abort cut short is not *)
(* a success.                                                               *)
ExitCode(e, rc) == IF rc = 0 /\ e.aborted THEN 1 ELSE rc

Completion(e, rc) ==
    [e EXCEPT !.exit_code = IF @ = 0 THEN ExitCode(e, rc) ELSE @, !.commands = Tail(@)]

(* completion_cb: a process ends by itself with 0 or 2, or with 129 when it *)
(* was signalled and did not catch it.                                      *)
CompletionCb ==
    /\ entry.proc = "running" /\ entry.commands # <<>>
    /\ \E rc \in {0, 2} \cup (IF entry.hup THEN {129} ELSE {}) :
         LET e == Completion(entry, rc)
         IN \E n \in 0 .. Len(e.commands) :
              /\ Starts(e, n)
              /\ codes' = Append(codes, ExitCode(entry, rc)) \o [i \in 1 .. n |-> 1]
    /\ UNCHANGED rleft

(* runat_abort, on an entry that has been started *)
RunatAbort ==
    /\ rleft.aborts /\ entry.started
    /\ rleft' = [rleft EXCEPT !.aborts = FALSE]
    /\ entry' = [entry EXCEPT !.aborted = TRUE, !.hup = @ \/ entry.proc = "running"]
    /\ UNCHANGED <<ran, codes>>

RunatNext == \/ \E c \in Commands : RunatPush(c)
             \/ RunatStart \/ StateChange \/ CompletionCb \/ RunatAbort

-----------------------------------------------------------------------------
(* Properties *)

(* "All commands in a list are executed, even if one fails" (runat.c): an   *)
(* entry that completes without having been aborted has started every       *)
(* command that was pushed, and called back once; the commands start in the *)
(* order of the list, none of them twice, whichever of them cannot be       *)
(* started or fail.  "The exit code of the first failed command is          *)
(* captured", and a command that comes up as the list is aborted is         *)
(* signalled.                                                               *)
RunsEach ==
    /\ IsInjective(ran.seq)
    /\ IsPrefix(SelectSeq(ran.seq, LAMBDA c : c \in Range(ran.due)), ran.due)
    /\ entry.completed => /\ entry.calls = 1
                          /\ ~entry.aborted => Range(ran.seq) = Commands \ rleft.pushes
                          /\ LET bad == SelectSeq(codes, LAMBDA rc : rc # 0)
                             IN entry.exit_code = IF bad = <<>> THEN 0 ELSE Head(bad)
    /\ entry.aborted /\ entry.proc = "running" => entry.hup

=============================================================================
