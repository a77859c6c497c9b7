------------------------------ MODULE Barrier ------------------------------
(***************************************************************************)
(* The distributed barrier service, src/modules/barrier/barrier.c.         *)
(*                                                                         *)
(* One instance of the barrier module runs on every broker of the tree.    *)
(* Clients ask their local instance to enter; each instance counts its     *)
(* clients and the counts its children report, batches them under a short  *)
(* timer, and reports the sum to its parent.  The instance whose count     *)
(* reaches nprocs publishes a barrier.exit event, which the root broker    *)
(* sequences and every instance answers its clients on.                    *)
(*                                                                         *)
(* One barrier name is modelled: entries of ctx->barriers with different   *)
(* keys share nothing.  The name is used for one round, as the code asks   *)
(* ("barrier names must be unique"), so a client enters at most once,      *)
(* except for the double entry that the code treats as an error.           *)
(***************************************************************************)
EXTENDS Naturals, Sequences, FiniteSets

CONSTANTS Rank,        \* the brokers
          Root,        \* rank 0
          Parent,      \* Parent[r] is the broker above r # Root
          Client,      \* the clients of the service
          Home,        \* Home[c] is the broker that client c is connected to
          NProcs,      \* the nprocs argument of every enter request
          MaxAbort,    \* bound: disconnects and double entries
          None         \* no entry in ctx->barriers

ASSUME TreeAssumption ==
  /\ Root \in Rank
  /\ Parent \in [Rank \ {Root} -> Rank]
  /\ \A r \in Rank \ {Root} : Parent[r] # r
ASSUME ClientAssumption ==
  /\ IsFiniteSet(Client)
  /\ Home \in [Client -> Rank]
ASSUME NProcsAssumption == NProcs \in Nat \ {0} /\ MaxAbort \in Nat
ASSUME NoneAssumption == None \notin [count : Nat, clients : SUBSET Client,
                                      timer_armed : BOOLEAN, who : SUBSET Client]

VARIABLES barriers,    \* [Rank -> None or struct barrier]
          up,          \* up[r]: messages from r, for its parent or to publish
          inbox,       \* inbox[r]: messages queued for the module on r
          events,      \* errnum of every barrier.exit event, in sequence
          heard,       \* heard[r]: how many of them broker r has received
          response,    \* the answer each client has had to its enter request
          gone,        \* clients that have disconnected
          aborts       \* number of disconnects and double entries so far

vars == <<barriers, up, inbox, events, heard, response, gone, aborts>>

ECONNABORTED == 103

\* who is a history variable: the clients that count stands for.
Entry == [count : Nat, clients : SUBSET Client, timer_armed : BOOLEAN,
          who : SUBSET Client]

Msg == [type : {"update"}, count : Nat, who : SUBSET Client]
         \cup [type : {"exit"}, errnum : {0, ECONNABORTED}]

\* Clients that have entered (or tried to enter twice) at some time.
Entered == {c \in Client : response[c] # "none"}

TypeOK ==
  /\ barriers \in [Rank -> Entry \cup {None}]
  /\ up \in [Rank -> Seq(Msg)]
  /\ inbox \in [Rank -> Seq(Msg)]
  /\ events \in Seq({0, ECONNABORTED})
  /\ heard \in [Rank -> Nat]
  /\ response \in [Client -> {"none", "waiting", "ok", "aborted"}]
  /\ gone \in SUBSET Client
  /\ aborts \in Nat

Init ==
  /\ barriers = [r \in Rank |-> None]
  /\ up = [r \in Rank |-> << >>]
  /\ inbox = [r \in Rank |-> << >>]
  /\ events = << >>
  /\ heard = [r \in Rank |-> 0]
  /\ response = [c \in Client |-> "none"]
  /\ gone = {}
  /\ aborts = 0

----------------------------------------------------------------------------

barrier_lookup_create(r) ==
  IF barriers[r] = None
    THEN [count |-> 0, clients |-> {}, timer_armed |-> FALSE, who |-> {}]
    ELSE barriers[r]

\* barrier_update: add to the count; below nprocs, arm the reduction timer.
Counted(r, b, n, who) ==
  [b EXCEPT !.count = b.count + n,
            !.who = b.who \cup who,
            !.timer_armed = b.timer_armed
                              \/ (b.count + n # NProcs /\ r # Root)]

\* exit_event_send on rank r: hand the event to the local broker.
Exit(errnum) == [type |-> "exit", errnum |-> errnum]
exit_event_send(r, errnum) == up' = [up EXCEPT ![r] = Append(@, Exit(errnum))]

barrier_update(r, b, n, who) ==
  /\ barriers' = [barriers EXCEPT ![r] = Counted(r, b, n, who)]
  /\ IF b.count + n = NProcs THEN exit_event_send(r, 0) ELSE UNCHANGED up

\* enter_request_cb, first entry of client c.
EnterRequest(c) ==
  LET r == Home[c]
      b == barrier_lookup_create(r)
  IN /\ c \notin gone
     /\ response[c] = "none"
     /\ barrier_update(r, [b EXCEPT !.clients = @ \cup {c}], 1, {c})
     /\ response' = [response EXCEPT ![c] = "waiting"]
     /\ UNCHANGED <<inbox, events, heard, gone, aborts>>

\* Mutant: the second entry of a client is counted like the first.
DoubleEntryCounted(c) ==
  LET r == Home[c] IN
  /\ c \notin gone
  /\ aborts < MaxAbort
  /\ barriers[r] # None
  /\ c \in barriers[r].clients
  /\ barrier_update(r, barriers[r], 1, {c})
  /\ aborts' = aborts + 1
  /\ UNCHANGED <<inbox, events, heard, response, gone>>

\* enter_request_cb, double entry: barrier_add_client finds the sender in
\* b->clients, so the barrier is aborted and the second request refused.
DoubleEntry(c) ==
  LET r == Home[c] IN
  /\ c \notin gone
  /\ aborts < MaxAbort
  /\ barriers[r] # None
  /\ c \in barriers[r].clients
  /\ exit_event_send(r, ECONNABORTED)
  /\ aborts' = aborts + 1
  /\ UNCHANGED <<barriers, inbox, events, heard, response, gone>>

\* disconnect_request_cb.
DisconnectRequest(c) ==
  LET r == Home[c] IN
  /\ c \notin gone
  /\ aborts < MaxAbort
  /\ gone' = gone \cup {c}
  /\ aborts' = aborts + 1
  /\ IF barriers[r] # None /\ c \in barriers[r].clients
       THEN exit_event_send(r, ECONNABORTED)
       ELSE UNCHANGED up
  /\ UNCHANGED <<barriers, inbox, events, heard, response>>

\* Mutant: the count is reset before it is reported.
ReductionTimeoutReset(r) ==
  /\ barriers[r] # None
  /\ barriers[r].timer_armed
  /\ barriers' = [barriers EXCEPT ![r].timer_armed = FALSE,
                                  ![r].count = 0,
                                  ![r].who = {}]
  /\ UNCHANGED <<up, inbox, events, heard, response, gone, aborts>>

\* reduction_timeout_cb, with send_update_request.
ReductionTimeout(r) ==
  /\ barriers[r] # None
  /\ barriers[r].timer_armed
  /\ barriers' = [barriers EXCEPT ![r].timer_armed = FALSE,
                                  ![r].count = 0,
                                  ![r].who = {}]
  /\ up' = IF barriers[r].count > 0
             THEN [up EXCEPT ![r] = Append(@, [type |-> "update",
                                               count |-> barriers[r].count,
                                               who |-> barriers[r].who])]
             ELSE up
  /\ UNCHANGED <<inbox, events, heard, response, gone, aborts>>

\* update_request_cb.
UpdateRequest(r) ==
  /\ inbox[r] # << >>
  /\ Head(inbox[r]).type = "update"
  /\ barrier_update(r, barrier_lookup_create(r),
                    Head(inbox[r]).count, Head(inbox[r]).who)
  /\ inbox' = [inbox EXCEPT ![r] = Tail(@)]
  /\ UNCHANGED <<events, heard, response, gone, aborts>>

\* exit_event_cb: answer every cached request, then delete the barrier.
ExitEvent(r) ==
  /\ inbox[r] # << >>
  /\ Head(inbox[r]).type = "exit"
  /\ response' = [c \in Client |->
                    IF barriers[r] # None /\ c \in barriers[r].clients
                      THEN IF Head(inbox[r]).errnum = 0 THEN "ok" ELSE "aborted"
                      ELSE response[c]]
  /\ barriers' = [barriers EXCEPT ![r] = None]
  /\ inbox' = [inbox EXCEPT ![r] = Tail(@)]
  /\ UNCHANGED <<up, events, heard, gone, aborts>>

----------------------------------------------------------------------------
(* What the brokers do with the messages of their barrier modules. *)

\* A request for the module upstream.
RouteUpdate(r) ==
  /\ r # Root
  /\ up[r] # << >>
  /\ Head(up[r]).type = "update"
  /\ up' = [up EXCEPT ![r] = Tail(@)]
  /\ inbox' = [inbox EXCEPT ![Parent[r]] = Append(@, Head(up[r]))]
  /\ UNCHANGED <<barriers, events, heard, response, gone, aborts>>

\* An event climbs to the root broker.
RouteEvent(r) ==
  /\ r # Root
  /\ up[r] # << >>
  /\ Head(up[r]).type = "exit"
  /\ up' = [up EXCEPT ![r] = Tail(@), ![Parent[r]] = Append(@, Head(up[r]))]
  /\ UNCHANGED <<barriers, inbox, events, heard, response, gone, aborts>>

\* The root broker gives it the next sequence number and hands it to its own
\* modules (publisher_send).
Publish ==
  /\ up[Root] # << >>
  /\ up' = [up EXCEPT ![Root] = Tail(@)]
  /\ events' = Append(events, Head(up[Root]).errnum)
  /\ heard' = [heard EXCEPT ![Root] = @ + 1]
  /\ inbox' = [inbox EXCEPT ![Root] = Append(@, Head(up[Root]))]
  /\ UNCHANGED <<barriers, response, gone, aborts>>

\* The broker of r gets the next event from its parent, and queues it for its
\* modules ahead of anything its children send in reaction to it.
HearEvent(r) ==
  /\ r # Root
  /\ heard[r] < heard[Parent[r]]
  /\ heard' = [heard EXCEPT ![r] = @ + 1]
  /\ inbox' = [inbox EXCEPT ![r] = Append(@, Exit(events[heard[r] + 1]))]
  /\ UNCHANGED <<barriers, up, events, response, gone, aborts>>

Next ==
  \/ \E c \in Client :
       EnterRequest(c) \/ DoubleEntry(c) \/ DisconnectRequest(c)
  \/ \E r \in Rank :
       \/ ReductionTimeout(r) \/ UpdateRequest(r) \/ ExitEvent(r)
       \/ RouteUpdate(r) \/ RouteEvent(r) \/ HearEvent(r)
  \/ Publish

Spec == Init /\ [][Next]_vars

\* An armed timer fires, a message on a live connection is delivered, an event
\* is broadcast.  Nothing obliges a client to enter, leave or misbehave.
Fairness ==
  /\ \A r \in Rank : /\ WF_vars(ReductionTimeout(r))
                     /\ WF_vars(UpdateRequest(r))
                     /\ WF_vars(ExitEvent(r))
                     /\ WF_vars(RouteUpdate(r))
                     /\ WF_vars(RouteEvent(r))
                     /\ WF_vars(HearEvent(r))
  /\ WF_vars(Publish)

FairSpec == Spec /\ Fairness

----------------------------------------------------------------------------

\* A client is told that the barrier completed only when nprocs clients have
\* entered it: counts batched under the timer, reported late, or counted again
\* on a barrier entry that an earlier exit event deleted, never release early.
NoEarlyExit ==
  (\E c \in Client : response[c] = "ok") => Cardinality(Entered) >= NProcs

\* Once nprocs clients have entered, none has disconnected or entered twice, and
\* no other client enters before the exit event, every one of them is released:
\* no count is lost between the timers, the update requests and the parents.
AllReleased ==
  \A S \in SUBSET Client : Cardinality(S) = NProcs =>
    (aborts = 0 /\ Entered = S)
      ~> \/ aborts > 0
         \/ Entered # S
         \/ \A c \in S : response[c] = "ok"

\* The same, whoever else enters meanwhile.  This is not so: barrier_update tests
\* count == nprocs, and a batch that takes the count from below nprocs to above
\* it releases nobody.
ReleasedAnyway ==
  \A S \in SUBSET Client : Cardinality(S) = NProcs =>
    (aborts = 0 /\ Entered = S)
      ~> (aborts > 0 \/ \A c \in S : response[c] = "ok")

\* The header of barrier.c: a non-zero exit event means "the barrier is aborted
\* with an error".  No client completes a barrier that aborted for another.
AbortIsFinal ==
  ~ \E c, d \in Client : response[c] = "ok" /\ response[d] = "aborted"
============================================================================
