------------------------------ MODULE Modules -------------------------------
(***************************************************************************)
(* The broker's modules (src/broker/modhash.c, module.c, modservice.c) and *)
(* its table of services (src/broker/service.c): a module is a thread that *)
(* exchanges messages with the broker; loading and removing are requests   *)
(* that are answered when the thread says it runs or has exited.           *)
(***************************************************************************)
EXTENDS Naturals, Sequences, FiniteSets, SequencesExt

CONSTANTS ModuleNames,      \* the modules that may be loaded
          ModuleScenarios   \* sets of [loads, removes, requests, fails, adds, events]: how often
                            \* each module is loaded and removed ([name -> n]), how many requests are sent
                            \* to its services, the modules that may fail and that
                            \* register a second service, and the number of events

VARIABLES mod,      \* [ModuleNames -> record]: module_t and the module's thread
          services, \* [service name -> the module that has it]: struct service_switch
          asked,    \* [loads, removes, requests]: how many requests await an answer
          missed,   \* history: modules that an event did not reach
          mleft     \* what may still happen

module_vars == <<mod, services, asked, missed, mleft>>

Extra(m) == <<m, "extra">>
None == "none"

(* thread: where module_thread is; errnum: of mod_main; insmod, rmmod: the  *)
(* deferred load request and the number of remove requests; in, out: the    *)
(* messages to and from the thread.                                         *)
Absent == [status |-> None, thread |-> None, muted |-> FALSE, errnum |-> 0, insmod |-> FALSE,
           rmmod |-> 0, in |-> <<>>, out |-> <<>>]
Created == [Absent EXCEPT !.status = "init", !.thread = "main", !.insmod = TRUE]

Loaded == {m \in ModuleNames : mod[m].status # None}   \* in zh_byuuid

ModulesInit(s) ==
    /\ mod = [m \in ModuleNames |-> Absent] /\ services = [n \in {} |-> None]
    /\ asked = [loads |-> 0, removes |-> 0, requests |-> 0]
    /\ missed = {} /\ mleft = s

-----------------------------------------------------------------------------
(* The broker *)

(* load_cb, modhash_load: a name in use is an error that is answered at once. *)
LoadModule(m) ==
    /\ mleft.loads[m] > 0
    /\ mleft' = [mleft EXCEPT !.loads[m] = @ - 1]
    /\ \/ m \in DOMAIN services /\ UNCHANGED <<mod, services, asked>>
       \/ /\ m \notin DOMAIN services
          /\ services' = [n \in DOMAIN services \cup {m} |-> IF n = m THEN m ELSE services[n]]
          /\ mod' = [mod EXCEPT ![m] = Created]
          /\ asked' = [asked EXCEPT !.loads = @ + 1]
    /\ UNCHANGED missed

(* module_sendmsg_new: FALSE for a module that is muted *)
Sendable(m) == ~mod[m].muted

(* remove_cb, unload_module, module_stop *)
RemoveModule(m) ==
    /\ mleft.removes[m] > 0
    /\ mleft' = [mleft EXCEPT !.removes[m] = @ - 1]
    /\ \/ m \notin Loaded /\ UNCHANGED <<mod, asked>>
       \/ /\ m \in Loaded
          /\ mod' = [mod EXCEPT ![m].rmmod = @ + 1,
                                ![m].in = IF Sendable(m) THEN Append(@, "shutdown") ELSE @]
          /\ asked' = [asked EXCEPT !.removes = @ + 1]
    /\ UNCHANGED <<services, missed>>

(* service_send_new; what cannot be sent is answered with ENOSYS. *)
SendRequest(n) ==
    /\ mleft.requests > 0
    /\ mleft' = [mleft EXCEPT !.requests = @ - 1]
    /\ \/ ~(n \in DOMAIN services /\ Sendable(services[n])) /\ UNCHANGED <<mod, asked>>
       \/ /\ n \in DOMAIN services /\ Sendable(services[n])
          /\ mod' = [mod EXCEPT ![services[n]].in = Append(@, "request")]
          /\ asked' = [asked EXCEPT !.requests = @ + 1]
    /\ UNCHANGED <<services, missed>>

(* modhash_event_mcast: the modules in some order, up to the first that     *)
(* refuses the event.  (Every module subscribes, see modservice_register.)  *)
EventMcast ==
    /\ mleft.events > 0
    /\ mleft' = [mleft EXCEPT !.events = @ - 1]
    /\ \E order \in SetToSeqs(Loaded) :
         LET ok == SelectSeq(order, Sendable)
             reached == {m \in Loaded : \A i, j \in DOMAIN order :
                            order[j] = m /\ i <= j => Sendable(order[i])}
         IN /\ mod' = [m \in ModuleNames |->
                         IF m \in reached THEN [mod[m] EXCEPT !.in = Append(@, "event")]
                         ELSE mod[m]]
            /\ missed' = missed \cup (ToSet(ok) \ reached)
    /\ UNCHANGED <<services, asked>>

(* service_remove_byuuid *)
ServiceRemoveByUuid(m) ==
    [n \in {x \in DOMAIN services : services[x] # m} |-> services[n]]

(* status_cb and module_status_cb: the broker learns that the module runs,  *)
(* is finalizing (and mutes it, and answers), or has exited.                *)
StatusRunning(m) ==
    /\ mod[m].out # <<>> /\ Head(mod[m].out) = "running"
    /\ mod' = [mod EXCEPT ![m].out = Tail(@), ![m].status = "running",
                          ![m].insmod = @ /\ mod[m].status # "init"]
    /\ asked' = [asked EXCEPT !.loads = IF mod[m].insmod /\ mod[m].status = "init" THEN @ - 1 ELSE @]
    /\ UNCHANGED <<services, missed, mleft>>

StatusFinalizing(m) ==
    /\ mod[m].out # <<>> /\ Head(mod[m].out) = "finalizing"
    /\ mod' = [mod EXCEPT ![m].out = Tail(@), ![m].status = "finalizing", ![m].muted = TRUE,
                          ![m].thread = "drain"]
    /\ UNCHANGED <<services, asked, missed, mleft>>

StatusExited(m) ==
    /\ mod[m].out # <<>> /\ Head(mod[m].out) = "exited"
    /\ services' = ServiceRemoveByUuid(m)
    /\ asked' = [asked EXCEPT !.loads = IF mod[m].insmod THEN @ - 1 ELSE @,
                              !.removes = @ - mod[m].rmmod]
    /\ mod' = [mod EXCEPT ![m] = Absent]                     \* modhash_remove
    /\ missed' = missed \ {m}
    /\ UNCHANGED mleft

-----------------------------------------------------------------------------
(* The module's thread *)

(* mod_main enters its reactor: prepare_cb, flux_module_set_running *)
ThreadRuns(m) ==
    /\ mod[m].thread = "main"
    /\ mod' = [mod EXCEPT ![m].thread = "loop", ![m].out = Append(@, "running")]
    /\ UNCHANGED <<services, asked, missed, mleft>>

(* mod_main fails, before its reactor or in it *)
ThreadFails(m) ==
    /\ m \in mleft.fails /\ mod[m].thread \in {"main", "loop"}
    /\ mleft' = [mleft EXCEPT !.fails = @ \ {m}]
    /\ mod' = [mod EXCEPT ![m].thread = "ending", ![m].errnum = 1]
    /\ UNCHANGED <<services, asked, missed>>

(* Its reactor takes a message: shutdown_cb stops it. *)
ThreadHandles(m) ==
    /\ mod[m].thread = "loop" /\ mod[m].in # <<>>
    /\ LET msg == Head(mod[m].in)
       IN /\ mod' = [mod EXCEPT ![m].in = Tail(@),
                                ![m].thread = IF msg = "shutdown" THEN "ending" ELSE @]
          /\ asked' = [asked EXCEPT !.requests = IF msg = "request" THEN @ - 1 ELSE @]
    /\ UNCHANGED <<services, missed, mleft>>

(* flux_service_register, flux_service_unregister: service_add_cb,          *)
(* service_remove_cb                                                        *)
ThreadRegisters(m) ==
    /\ m \in mleft.adds /\ mod[m].thread = "loop" /\ Extra(m) \notin DOMAIN services
    /\ services' = [n \in DOMAIN services \cup {Extra(m)} |->
                        IF n = Extra(m) THEN m ELSE services[n]]
    /\ UNCHANGED <<mod, asked, missed, mleft>>

ThreadUnregisters(m) ==
    /\ m \in mleft.adds /\ mod[m].thread = "loop" /\ Extra(m) \in DOMAIN services
    /\ services' = [n \in DOMAIN services \ {Extra(m)} |-> services[n]]
    /\ mleft' = [mleft EXCEPT !.adds = @ \ {m}]
    /\ UNCHANGED <<mod, asked, missed>>

(* Mutant: the thread does not wait for the broker to stop sending. *)
ThreadFinalizingNow(m) ==
    /\ mod[m].thread = "ending"
    /\ mod' = [mod EXCEPT ![m].thread = "drain", ![m].out = Append(@, "finalizing")]
    /\ UNCHANGED <<services, asked, missed, mleft>>

(* module_finalizing *)
ThreadFinalizing(m) ==
    /\ mod[m].thread = "ending"
    /\ mod' = [mod EXCEPT ![m].thread = "waiting", ![m].out = Append(@, "finalizing")]
    /\ UNCHANGED <<services, asked, missed, mleft>>

(* What came in the meantime is answered with ENOSYS; then the thread ends. *)
ThreadExits(m) ==
    /\ mod[m].thread = "drain"
    /\ mod' = [mod EXCEPT ![m].thread = "gone", ![m].in = <<>>, ![m].out = Append(@, "exited")]
    /\ asked' = [asked EXCEPT !.requests =
                    @ - Len(SelectSeq(mod[m].in, LAMBDA x : x = "request"))]
    /\ UNCHANGED <<services, missed, mleft>>

-----------------------------------------------------------------------------
ModulesNext ==
    \/ \E m \in ModuleNames :
          \/ LoadModule(m) \/ RemoveModule(m) \/ SendRequest(m) \/ SendRequest(Extra(m))
          \/ StatusRunning(m) \/ StatusFinalizing(m) \/ StatusExited(m)
          \/ ThreadRuns(m) \/ ThreadFails(m) \/ ThreadHandles(m) \/ ThreadRegisters(m)
          \/ ThreadUnregisters(m) \/ ThreadFinalizing(m) \/ ThreadExits(m)
    \/ EventMcast

-----------------------------------------------------------------------------
(* Properties *)

(* Every thread is in its reactor, or there is none, and nothing is queued. *)
ModulesQuiet ==
    \A m \in ModuleNames : /\ mod[m].thread \in {None, "loop"}
                           /\ mod[m].in = <<>> /\ mod[m].out = <<>>

(* Once the threads have come to rest, every request to load or remove a    *)
(* module has been answered, and so has every request that was sent to a    *)
(* module, also one that came while the module was on its way out           *)
(* ("ensure the broker won't try to feed a message to this module after     *)
(* we've closed the handle", module_thread).  A service never leads to a    *)
(* module that is not loaded any more.                                      *)
ModuleRequestsAnswered ==
    /\ ModulesQuiet => asked = [loads |-> 0, removes |-> 0, requests |-> 0]
    /\ \A n \in DOMAIN services : services[n] \in Loaded

(* An event reaches every module that subscribes to it and is not on its    *)
(* way out.                                                                 *)
EventsReachModules == missed = {}
=============================================================================
