--------------------------- MODULE BarrierProofs ---------------------------
(***************************************************************************)
(* Proofs about Barrier, for any tree of brokers, any set of clients and   *)
(* any nprocs.  The type invariant needs to know that the root never       *)
(* reports to a parent and that no broker is ahead of the event sequence.  *)
(* NoEarlyExit rests on where an entry is counted: a client that entered   *)
(* is counted in at most one place, be it a barrier's count, an update on  *)
(* its way to the parent or one waiting for the parent's module, so that   *)
(* the counts a barrier adds up are those of disjoint sets of clients.     *)
(***************************************************************************)
EXTENDS Barrier, FiniteSetTheorems, TLAPS

\* What TypeOK needs to be inductive: the root's reduction timer is never armed,
\* the root broker has only exit events to publish, and no broker has heard of
\* an event that the root has not published.
Sequenced ==
  /\ barriers[Root] # None => ~ barriers[Root].timer_armed
  /\ \A i \in 1..Len(up[Root]) : up[Root][i].type = "exit"
  /\ \A r \in Rank : heard[r] <= Len(events)

TypeInv == TypeOK /\ Sequenced

\* Client c is counted by the barrier on rank r, or by the i-th message that
\* the channels ch (up or inbox) hold for r.
InBarrier(c, r) == barriers[r] # None /\ c \in barriers[r].who
Carries(ch, c, r, i) == /\ i \in 1..Len(ch[r])
                        /\ ch[r][i].type = "update"
                        /\ c \in ch[r][i].who

\* Only clients that have entered are counted.
CountedEntered ==
  \A c \in Client, r \in Rank :
    /\ InBarrier(c, r) => response[c] # "none"
    /\ \A i \in Nat : Carries(up, c, r, i) => response[c] # "none"
    /\ \A i \in Nat : Carries(inbox, c, r, i) => response[c] # "none"

\* No client is counted in two places.
CountedOnce ==
  \A c \in Client, r, s \in Rank :
    /\ InBarrier(c, r) /\ InBarrier(c, s) => r = s
    /\ \A i \in Nat : ~ (InBarrier(c, r) /\ Carries(up, c, s, i))
    /\ \A i \in Nat : ~ (InBarrier(c, r) /\ Carries(inbox, c, s, i))
    /\ \A i, k \in Nat : ~ (Carries(up, c, r, i) /\ Carries(inbox, c, s, k))
    /\ \A i, k \in Nat : Carries(up, c, r, i) /\ Carries(up, c, s, k)
                           => r = s /\ i = k
    /\ \A i, k \in Nat : Carries(inbox, c, r, i) /\ Carries(inbox, c, s, k)
                           => r = s /\ i = k

\* A count is the number of clients it stands for.
ChannelExact(ch) ==
  \A r \in Rank : \A i \in 1..Len(ch[r]) :
    ch[r][i].type = "update" => ch[r][i].count = Cardinality(ch[r][i].who)
CountsExact ==
  /\ \A r \in Rank : barriers[r] # None
                      => barriers[r].count = Cardinality(barriers[r].who)
  /\ ChannelExact(up)
  /\ ChannelExact(inbox)

Full == Cardinality(Entered) >= NProcs

\* A successful exit is sent, published, queued or answered only when nprocs
\* clients have entered.
HasExit(ch) == \E r \in Rank : \E i \in 1..Len(ch[r]) : ch[r][i] = Exit(0)
ExitsFull ==
  /\ HasExit(up) => Full
  /\ HasExit(inbox) => Full
  /\ \A i \in 1..Len(events) : events[i] = 0 => Full
  /\ \A c \in Client : response[c] = "ok" => Full

IInv == TypeInv /\ CountedEntered /\ CountedOnce /\ CountsExact /\ ExitsFull

-----------------------------------------------------------------------------
(* Types. *)

\* barrier_lookup_create returns a barrier, found or new.
LEMMA LookupType ==
  ASSUME TypeOK, NEW r \in Rank
  PROVE  /\ barrier_lookup_create(r) \in Entry
         /\ barriers[r] # None => barrier_lookup_create(r) = barriers[r]
  BY DEF TypeOK, barrier_lookup_create, Entry

\* barrier_update keeps the barrier a barrier, and never arms the root's timer.
LEMMA CountedType ==
  ASSUME NEW r \in Rank, NEW b \in Entry, NEW n \in Nat,
         NEW who \in SUBSET Client
  PROVE  /\ Counted(r, b, n, who) \in Entry
         /\ Counted(r, b, n, who).count = b.count + n
         /\ Counted(r, b, n, who).clients = b.clients
         /\ Counted(r, b, n, who).who = b.who \cup who
         /\ r = Root /\ ~ b.timer_armed => ~ Counted(r, b, n, who).timer_armed
<1>1. Counted(r, b, n, who) \in Entry
  <2>1. b.count + n \in Nat /\ b.who \cup who \in SUBSET Client
    BY DEF Entry
  <2>2. (b.timer_armed \/ (b.count + n # NProcs /\ r # Root)) \in BOOLEAN
    OBVIOUS
  <2> QED
    BY <2>1, <2>2, ZenonT(60) DEF Counted, Entry
<1>2. Counted(r, b, n, who).timer_armed
        = (b.timer_armed \/ (b.count + n # NProcs /\ r # Root))
  BY DEF Counted, Entry
<1>3. r = Root /\ ~ b.timer_armed => ~ Counted(r, b, n, who).timer_armed
  BY <1>2, ZenonT(60)
<1> QED
  BY <1>1, <1>3 DEF Counted, Entry

\* An exit event is a message.
LEMMA ExitType ==
  \A e \in {0, ECONNABORTED} :
    Exit(e) \in Msg /\ Exit(e).type = "exit" /\ Exit(e).errnum = e
  BY DEF Exit, Msg

\* A struct barrier is not None.
LEMMA EntryNotNone == \A b \in Entry : b # None
  BY NoneAssumption DEF Entry

\* A message put in a channel, or taken from it, leaves one.
LEMMA PutType ==
  ASSUME NEW ch \in [Rank -> Seq(Msg)], NEW r \in Rank, NEW m \in Msg
  PROVE  [ch EXCEPT ![r] = Append(@, m)] \in [Rank -> Seq(Msg)]
<1>1. Append(ch[r], m) \in Seq(Msg)
  OBVIOUS
<1> QED
  BY <1>1, ZenonT(60), SMTT(30)

LEMMA TakeType ==
  ASSUME NEW ch \in [Rank -> Seq(Msg)], NEW r \in Rank, ch[r] # << >>
  PROVE  /\ Head(ch[r]) \in Msg
         /\ [ch EXCEPT ![r] = Tail(@)] \in [Rank -> Seq(Msg)]
<1>1. Head(ch[r]) \in Msg /\ Tail(ch[r]) \in Seq(Msg)
  OBVIOUS
<1> QED
  BY <1>1, ZenonT(60), SMTT(30)

\* exit_event_send on rank r keeps the types.
LEMMA ExitSendType ==
  ASSUME TypeInv, NEW r \in Rank, NEW e \in {0, ECONNABORTED},
         exit_event_send(r, e)
  PROVE  /\ up' \in [Rank -> Seq(Msg)]
         /\ \A i \in 1..Len(up'[Root]) : up'[Root][i].type = "exit"
<1>1. Exit(e) \in Msg /\ Exit(e).type = "exit"
  BY ExitType
<1> QED
  <2>1. up \in [Rank -> Seq(Msg)] /\ \A i \in 1..Len(up[Root]) : up[Root][i].type = "exit"
    BY ZenonT(60), SMTT(30) DEF TypeInv, TypeOK, Sequenced
  <2>2. up' = [up EXCEPT ![r] = Append(@, Exit(e))]
    BY ZenonT(60), SMTT(30) DEF exit_event_send
  <2>3. up' \in [Rank -> Seq(Msg)]
    BY <1>1, <2>1, <2>2, PutType, ZenonT(60), SMTT(30)
  <2>4. up[Root] \in Seq(Msg) /\ (up'[Root] = up[Root] \/ up'[Root] = Append(up[Root], Exit(e)))
    BY <2>1, <2>2, TreeAssumption, ZenonT(60), SMTT(30)
  <2>5. ASSUME NEW s \in Seq(Msg), \A i \in 1..Len(s) : s[i].type = "exit",
               NEW m \in Msg, m.type = "exit"
        PROVE  \A i \in 1..Len(Append(s, m)) : Append(s, m)[i].type = "exit"
    BY <2>5, SMTT(20), SMTT(30), SMTT(60)
  <2> QED
    BY <1>1, <2>1, <2>3, <2>4, <2>5, ZenonT(60), SMTT(30)

\* barrier_update on rank r keeps the types.
LEMMA UpdateType ==
  ASSUME TypeInv, NEW r \in Rank, NEW b \in Entry, NEW n \in Nat,
         NEW who \in SUBSET Client, r = Root => ~ b.timer_armed,
         barrier_update(r, b, n, who)
  PROVE  /\ barriers' \in [Rank -> Entry \cup {None}]
         /\ up' \in [Rank -> Seq(Msg)]
         /\ barriers'[Root] # None => ~ barriers'[Root].timer_armed
         /\ \A i \in 1..Len(up'[Root]) : up'[Root][i].type = "exit"
<1>1. barriers' = [barriers EXCEPT ![r] = Counted(r, b, n, who)]
  BY DEF barrier_update
<1>2. up' = up \/ exit_event_send(r, 0)
  BY DEF barrier_update
<1>3. Counted(r, b, n, who) \in Entry
       /\ (r = Root => ~ Counted(r, b, n, who).timer_armed)
  BY CountedType
<1>5. barriers' \in [Rank -> Entry \cup {None}]
  BY <1>1, <1>3 DEF TypeInv, TypeOK
<1>6. barriers'[Root] # None => ~ barriers'[Root].timer_armed
  BY <1>1, <1>3, TreeAssumption DEF TypeInv, TypeOK, Sequenced
<1>7. /\ up' \in [Rank -> Seq(Msg)]
      /\ \A i \in 1..Len(up'[Root]) : up'[Root][i].type = "exit"
  BY <1>2, ExitSendType, ZenonT(60), SMTT(30) DEF TypeInv, TypeOK, Sequenced
<1> QED
  BY <1>5, <1>6, <1>7

\* The type invariant is inductive.
LEMMA TypeStep == TypeInv /\ [Next]_vars => TypeInv'
<1> SUFFICES ASSUME TypeInv, [Next]_vars
             PROVE  TypeInv'
  OBVIOUS
<1>a. /\ Root \in Rank
      /\ \A c \in Client : Home[c] \in Rank
      /\ \A r \in Rank \ {Root} : Parent[r] \in Rank /\ Parent[r] # r
  BY TreeAssumption, ClientAssumption
<1>1. ASSUME NEW c \in Client, EnterRequest(c)
      PROVE  TypeInv'
  <2> DEFINE r == Home[c]
             b == [barrier_lookup_create(r) EXCEPT !.clients = @ \cup {c}]
  <2>1. r \in Rank /\ barrier_lookup_create(r) \in Entry
    BY <1>a, LookupType DEF TypeInv
  <2>2. b \in Entry /\ b.timer_armed = barrier_lookup_create(r).timer_armed
    BY <2>1 DEF Entry
  <2>3. r = Root => ~ b.timer_armed
    BY <1>a, <2>2 DEF TypeInv, Sequenced, barrier_lookup_create
  <2>4. barrier_update(r, b, 1, {c})
    BY <1>a, <1>1 DEF EnterRequest
  <2> HIDE DEF b
  <2>5. /\ barriers' \in [Rank -> Entry \cup {None}]
        /\ up' \in [Rank -> Seq(Msg)]
        /\ barriers'[Root] # None => ~ barriers'[Root].timer_armed
        /\ \A i \in 1..Len(up'[Root]) : up'[Root][i].type = "exit"
    BY <2>1, <2>2, <2>3, <2>4, UpdateType
  <2> QED
    BY <1>a, <1>1, <2>5, ZenonT(60), SMTT(30) DEF EnterRequest, TypeInv, TypeOK, Sequenced
<1>2. ASSUME NEW c \in Client, DoubleEntry(c)
      PROVE  TypeInv'
  <2>1. /\ up' \in [Rank -> Seq(Msg)]
        /\ \A i \in 1..Len(up'[Root]) : up'[Root][i].type = "exit"
    BY <1>a, <1>2, ExitSendType DEF DoubleEntry
  <2>2. /\ UNCHANGED <<barriers, inbox, events, heard, response, gone>>
        /\ aborts' = aborts + 1
    BY <1>a, <1>2 DEF DoubleEntry
  <2> QED
    BY <2>1, <2>2 DEF TypeInv, TypeOK, Sequenced
<1>3. ASSUME NEW c \in Client, DisconnectRequest(c)
      PROVE  TypeInv'
  <2>1. up' = up \/ exit_event_send(Home[c], ECONNABORTED)
    BY <1>a, <1>3 DEF DisconnectRequest
  <2>2. /\ up' \in [Rank -> Seq(Msg)]
        /\ \A i \in 1..Len(up'[Root]) : up'[Root][i].type = "exit"
    BY <1>a, <2>1, ExitSendType, ZenonT(60), SMTT(30) DEF TypeInv, TypeOK, Sequenced
  <2> QED
    <3>1. UNCHANGED <<barriers, inbox, events, heard, response>> /\ gone' = gone \cup {c}
      BY <1>3, ZenonT(60), SMTT(30) DEF DisconnectRequest
    <3>2. gone' \in SUBSET Client
      BY <1>a, <3>1, ZenonT(60), SMTT(30) DEF TypeInv, TypeOK
    <3>3. aborts' \in Nat
      <4>1. aborts' = aborts + 1
        BY <1>3, ZenonT(60), SMTT(30) DEF DisconnectRequest
      <4>2. aborts \in Nat
        BY <1>a, ZenonT(60), SMTT(30) DEF TypeInv, TypeOK
      <4> QED
        BY <4>1, <4>2, SMTT(20), SMTT(30), SMTT(60)
    <3> QED
      BY <1>a, <2>2, <3>1, <3>2, <3>3, ZenonT(60), SMTT(30) DEF TypeInv, TypeOK, Sequenced
<1>4. ASSUME NEW r \in Rank, ReductionTimeout(r)
      PROVE  TypeInv'
  <2>1. barriers[r] \in Entry /\ r # Root
    BY <1>a, <1>4 DEF ReductionTimeout, TypeInv, TypeOK, Sequenced
  <2>2. barriers' \in [Rank -> Entry \cup {None}]
         /\ barriers'[Root] = barriers[Root]
    BY <1>a, <1>4, <2>1, ZenonT(60) DEF ReductionTimeout, TypeInv, TypeOK, Entry
  <2>3. up' \in [Rank -> Seq(Msg)] /\ up'[Root] = up[Root]
    <3> DEFINE m == [type |-> "update", count |-> barriers[r].count, who |-> barriers[r].who]
    <3>1. m \in Msg
      BY <2>1, SMTT(20), ZenonT(60), SMTT(30) DEF Entry, Msg
    <3>2. up \in [Rank -> Seq(Msg)]
      BY <1>a, ZenonT(60), SMTT(30) DEF TypeInv, TypeOK
    <3>3. up' = up \/ up' = [up EXCEPT ![r] = Append(@, m)]
      BY <1>4, ZenonT(60), SMTT(30) DEF ReductionTimeout
    <3> HIDE DEF m
    <3>4. [up EXCEPT ![r] = Append(@, m)] \in [Rank -> Seq(Msg)]
      BY <3>1, <3>2, PutType, ZenonT(60), SMTT(30)
    <3> QED
      BY <1>a, <2>1, <3>2, <3>3, <3>4, TreeAssumption, ZenonT(60), SMTT(30)
  <2> QED
    BY <1>a, <1>4, <2>2, <2>3, ZenonT(60), SMTT(30) DEF ReductionTimeout, TypeInv, TypeOK, Sequenced
<1>5. ASSUME NEW r \in Rank, UpdateRequest(r)
      PROVE  TypeInv'
  <2> DEFINE b == barrier_lookup_create(r)
             m == Head(inbox[r])
  <2>1. b \in Entry
    BY <1>a, LookupType DEF TypeInv
  <2>2. r = Root => ~ b.timer_armed
    BY DEF TypeInv, Sequenced, barrier_lookup_create
  <2>3. m \in Msg /\ m.type = "update" /\ inbox' \in [Rank -> Seq(Msg)]
    BY <1>a, <1>5 DEF UpdateRequest, TypeInv, TypeOK
  <2>4. m.count \in Nat /\ m.who \in SUBSET Client
    BY <2>3 DEF Msg
  <2>5. barrier_update(r, b, m.count, m.who)
    BY <1>a, <1>5 DEF UpdateRequest
  <2> HIDE DEF b, m
  <2>6. /\ barriers' \in [Rank -> Entry \cup {None}]
        /\ up' \in [Rank -> Seq(Msg)]
        /\ barriers'[Root] # None => ~ barriers'[Root].timer_armed
        /\ \A i \in 1..Len(up'[Root]) : up'[Root][i].type = "exit"
    BY <2>1, <2>2, <2>4, <2>5, UpdateType, SMTT(20), ZenonT(60), SMTT(30)
  <2> QED
    BY <1>a, <1>5, <2>3, <2>6, ZenonT(60), SMTT(30) DEF UpdateRequest, TypeInv, TypeOK, Sequenced
<1>6. ASSUME NEW r \in Rank, ExitEvent(r)
      PROVE  TypeInv'
  BY <1>a, <1>6, SMTT(20), ZenonT(60), SMTT(30) DEF ExitEvent, TypeInv, TypeOK, Sequenced
<1>7. ASSUME NEW r \in Rank, RouteUpdate(r)
      PROVE  TypeInv'
  <2>1. Parent[r] \in Rank
    BY <1>a, <1>7 DEF RouteUpdate
  <2> QED
    <3>1. up' \in [Rank -> Seq(Msg)] /\ up'[Root] = up[Root]
      BY <1>7 DEF RouteUpdate, TypeInv, TypeOK
    <3>2. Head(up[r]) \in Msg
      BY <1>7 DEF RouteUpdate, TypeInv, TypeOK
    <3>3. inbox' \in [Rank -> Seq(Msg)]
      <4>1. inbox \in [Rank -> Seq(Msg)]
        BY <1>a, ZenonT(60), SMTT(30) DEF TypeInv, TypeOK
      <4>2. inbox' = [inbox EXCEPT ![Parent[r]] = Append(@, Head(up[r]))]
        BY <1>7, ZenonT(60), SMTT(30) DEF RouteUpdate
      <4> QED
        BY <2>1, <3>2, <4>1, <4>2, PutType, ZenonT(60), SMTT(30)
    <3> QED
      BY <1>7, <3>1, <3>3, ZenonT(60) DEF RouteUpdate, TypeInv, TypeOK, Sequenced
<1>8. ASSUME NEW r \in Rank, RouteEvent(r)
      PROVE  TypeInv'
  <2>1. Parent[r] \in Rank /\ Head(up[r]) \in Msg /\ Head(up[r]).type = "exit"
    BY <1>a, <1>8, SMTT(20), SMTT(30), SMTT(60) DEF RouteEvent, TypeInv, TypeOK
  <2>2. up' \in [Rank -> Seq(Msg)]
    <3>1. /\ up \in [Rank -> Seq(Msg)]
          /\ [up EXCEPT ![r] = Tail(@)] \in [Rank -> Seq(Msg)]
      BY <1>a, <1>8, SMTT(20), SMTT(30), SMTT(60) DEF RouteEvent, TypeInv, TypeOK
    <3> DEFINE u == [up EXCEPT ![r] = Tail(@)]
               a == Append(up[Parent[r]], Head(up[r]))
    <3>2. a \in Seq(Msg)
      BY <2>1, <3>1
    <3>3. up' = [u EXCEPT ![Parent[r]] = a]
      BY <1>a, <1>8, <3>1 DEF RouteEvent
    <3> HIDE DEF u, a
    <3> QED
      BY <2>1, <3>1, <3>2, <3>3, ZenonT(60) DEF u
  <2>3. \A i \in 1..Len(up'[Root]) : up'[Root][i].type = "exit"
    <3>1. up'[Root] = up[Root] \/ up'[Root] = Append(up[Root], Head(up[r]))
      BY <1>a, <1>8, ZenonT(60), SMTT(30) DEF RouteEvent, TypeInv, TypeOK
    <3>2. up[Root] \in Seq(Msg)
      BY <1>a DEF TypeInv, TypeOK
    <3> QED
      <4>1. \A i \in 1..Len(up[Root]) : up[Root][i].type = "exit"
        BY <1>a, ZenonT(60), SMTT(30) DEF TypeInv, Sequenced
      <4>2. ASSUME NEW s \in Seq(Msg), \A i \in 1..Len(s) : s[i].type = "exit",
                   NEW m \in Msg, m.type = "exit"
            PROVE  \A i \in 1..Len(Append(s, m)) : Append(s, m)[i].type = "exit"
        BY <4>2, SMTT(20), SMTT(30), SMTT(60)
      <4> QED
        BY <2>1, <3>1, <3>2, <4>1, <4>2, ZenonT(60), SMTT(30)
  <2> QED
    BY <1>a, <1>8, <2>2, <2>3, ZenonT(60) DEF RouteEvent, TypeInv, TypeOK, Sequenced
<1>9. ASSUME Publish
      PROVE  TypeInv'
  <2>1. Head(up[Root]) \in Msg /\ Head(up[Root]).type = "exit"
    BY <1>a, <1>9, SMTT(20), SMTT(30), SMTT(60) DEF Publish, TypeInv, TypeOK, Sequenced
  <2>2. Head(up[Root]).errnum \in {0, ECONNABORTED}
    BY <2>1 DEF Msg
  <2> QED
    <3>1. /\ up' \in [Rank -> Seq(Msg)]
          /\ \A i \in 1..Len(up'[Root]) : up'[Root][i].type = "exit"
      BY <1>a, <1>9, <2>1, SMTT(20), ZenonT(60), SMTT(30) DEF Publish, TypeInv, TypeOK, Sequenced
    <3>2. /\ events' \in Seq({0, ECONNABORTED})
          /\ Len(events') = Len(events) + 1
      BY <1>a, <1>9, <2>2 DEF Publish, TypeInv, TypeOK
    <3>3. /\ heard' \in [Rank -> Nat]
          /\ \A r \in Rank : heard'[r] <= Len(events')
      <4>1. heard \in [Rank -> Nat] /\ \A r \in Rank : heard[r] <= Len(events)
        BY <1>a, ZenonT(60), SMTT(30) DEF TypeInv, TypeOK, Sequenced
      <4>2. heard' = [heard EXCEPT ![Root] = @ + 1] /\ events \in Seq({0, ECONNABORTED})
        BY <1>a, <1>9, ZenonT(60), SMTT(30) DEF Publish, TypeInv, TypeOK
      <4> QED
        <5>1. Len(events) \in Nat /\ Len(events') = Len(events) + 1
          BY <3>2, <4>2, SMTT(20), SMTT(30), SMTT(60)
        <5>2. ASSUME NEW r \in Rank
              PROVE  heard[r] \in Nat /\ heard[r] <= Len(events)
          BY <4>1, ZenonT(60), SMTT(30)
        <5>3. ASSUME NEW r \in Rank
              PROVE  heard'[r] = heard[r] \/ heard'[r] = heard[r] + 1
          BY <4>1, <4>2, ZenonT(60), SMTT(30)
        <5>4. ASSUME NEW r \in Rank
              PROVE  heard'[r] \in Nat /\ heard'[r] <= Len(events')
          BY <5>1, <5>2, <5>3, SMTT(20), SMTT(30), SMTT(60)
        <5>5. heard' = [r \in Rank |-> heard'[r]]
          BY <4>1, <4>2, ZenonT(60), SMTT(30)
        <5> QED
          BY <5>4, <5>5, ZenonT(60), SMTT(30)
    <3>4. inbox' \in [Rank -> Seq(Msg)]
      BY <1>a, <1>9, <2>1 DEF Publish, TypeInv, TypeOK
    <3> QED
      <4>1. UNCHANGED <<barriers, response, gone, aborts>>
        BY <1>9, ZenonT(60), SMTT(30) DEF Publish
      <4> QED
        BY <1>a, <3>1, <3>2, <3>3, <3>4, <4>1, ZenonT(60), SMTT(30) DEF TypeInv, TypeOK, Sequenced
<1>10. ASSUME NEW r \in Rank, HearEvent(r)
       PROVE  TypeInv'
  <2>1. Parent[r] \in Rank /\ heard[r] + 1 \in 1..Len(events)
    <3>1. Parent[r] \in Rank /\ heard[r] < heard[Parent[r]]
      BY <1>a, <1>10, TreeAssumption, ZenonT(60), SMTT(30) DEF HearEvent
    <3>2. heard[r] \in Nat /\ heard[Parent[r]] \in Nat /\ heard[Parent[r]] <= Len(events)
      BY <1>a, <3>1, ZenonT(60), SMTT(30) DEF TypeInv, TypeOK, Sequenced
    <3>3. Len(events) \in Nat
      <4>1. events \in Seq({0, ECONNABORTED})
        BY <1>a, ZenonT(60), SMTT(30) DEF TypeInv, TypeOK
      <4> QED
        BY <4>1, SMTT(20), SMTT(30), SMTT(60)
    <3> QED
      BY <3>1, <3>2, <3>3, SMTT(20), SMTT(30), SMTT(60)
  <2>2. Exit(events[heard[r] + 1]) \in Msg
    <3>1. events[heard[r] + 1] \in {0, ECONNABORTED}
      BY <2>1 DEF TypeInv, TypeOK
    <3> QED
      BY <3>1, ExitType
  <2> QED
    <3>1. /\ heard' \in [Rank -> Nat]
          /\ \A q \in Rank : heard'[q] <= Len(events)
      BY <1>10, <2>1, SMTT(20), SMTT(30), SMTT(60) DEF HearEvent, TypeInv, TypeOK, Sequenced
    <3>2. inbox' \in [Rank -> Seq(Msg)]
      BY <1>10, <2>2 DEF HearEvent, TypeInv, TypeOK
    <3> QED
      BY <1>10, <3>1, <3>2, ZenonT(60), SMTT(30) DEF HearEvent, TypeInv, TypeOK, Sequenced
<1>11. CASE UNCHANGED vars
  BY <1>a, <1>11 DEF vars, TypeInv, TypeOK, Sequenced
<1> QED
  BY <1>1, <1>2, <1>3, <1>4, <1>5, <1>6, <1>7, <1>8, <1>9, <1>10, <1>11, SMTT(20), ZenonT(60), SMTT(30)
     DEF Next

\* The variables of the barrier service always have their types.
THEOREM TypeCorrect == Spec => []TypeOK
<1>1. Init => TypeInv
  BY TreeAssumption DEF Init, TypeInv, TypeOK, Sequenced
<1>2. TypeInv => TypeOK
  BY DEF TypeInv
<1> QED
  BY <1>1, <1>2, TypeStep, PTL DEF Spec

-----------------------------------------------------------------------------
(* What sending and receiving a message does to the channels. *)

Sent(ch, q, m, ch2) == ch2 = [ch EXCEPT ![q] = Append(@, m)]
Took(ch, q, ch2) == ch2 = [ch EXCEPT ![q] = Tail(@)]

\* An exit event added to a channel counts no client.
LEMMA SendExit ==
  ASSUME NEW ch \in [Rank -> Seq(Msg)], NEW q \in Rank,
         NEW e \in {0, ECONNABORTED},
         NEW ch2 \in [Rank -> Seq(Msg)],
         Sent(ch, q, Exit(e), ch2)
  PROVE  /\ \A c \in Client, r \in Rank, i \in Nat :
              Carries(ch2, c, r, i) <=> Carries(ch, c, r, i)
         /\ ChannelExact(ch) => ChannelExact(ch2)
         /\ HasExit(ch2) => HasExit(ch) \/ e = 0
<1>1. Exit(e).type = "exit" /\ (Exit(e) = Exit(0) => e = 0)
  BY ExitType
<1>2. /\ \A r \in Rank : r # q => ch2[r] = ch[r]
      /\ ch2[q] = Append(ch[q], Exit(e))
  BY DEF Sent
<1>3. \A r \in Rank : ch[r] \in Seq(Msg)
  OBVIOUS
<1>4. ASSUME NEW c \in Client, NEW r \in Rank, NEW i \in Nat
      PROVE  Carries(ch2, c, r, i) <=> Carries(ch, c, r, i)
  BY <1>1, <1>2, <1>3, SMTT(20), ZenonT(60), SMTT(30) DEF Carries, Sent
<1>5. ChannelExact(ch) => ChannelExact(ch2)
  BY <1>1, <1>2, <1>3, SMTT(20), ZenonT(60), SMTT(30) DEF ChannelExact, Sent
<1>6. HasExit(ch2) => HasExit(ch) \/ e = 0
  BY <1>1, <1>2, <1>3, SMTT(20), ZenonT(60), SMTT(30) DEF HasExit, Sent
<1> QED
  BY <1>4, <1>5, <1>6

\* An update added to a channel counts the clients it names.
LEMMA SendUpdate ==
  ASSUME NEW ch \in [Rank -> Seq(Msg)], NEW q \in Rank,
         NEW m \in Msg, m.type = "update", m.count = Cardinality(m.who),
         NEW ch2 \in [Rank -> Seq(Msg)],
         Sent(ch, q, m, ch2)
  PROVE  /\ \A c \in Client, r \in Rank, i \in Nat :
              Carries(ch2, c, r, i)
                <=> \/ Carries(ch, c, r, i)
                    \/ r = q /\ i = Len(ch[q]) + 1 /\ c \in m.who
         /\ ChannelExact(ch) => ChannelExact(ch2)
         /\ HasExit(ch2) => HasExit(ch)
<1>1. /\ \A r \in Rank : r # q => ch2[r] = ch[r]
      /\ ch2[q] = Append(ch[q], m)
  BY DEF Sent
<1>2. \A r \in Rank : ch[r] \in Seq(Msg)
  OBVIOUS
<1>3. ASSUME NEW c \in Client, NEW r \in Rank, NEW i \in Nat
      PROVE  Carries(ch2, c, r, i)
                <=> \/ Carries(ch, c, r, i)
                    \/ r = q /\ i = Len(ch[q]) + 1 /\ c \in m.who
  BY <1>1, <1>2 DEF Carries, Sent
<1>4. ChannelExact(ch) => ChannelExact(ch2)
  BY <1>1, <1>2 DEF ChannelExact, Sent
<1>5. m # Exit(0)
  BY ExitType
<1>6. HasExit(ch2) => HasExit(ch)
  BY <1>1, <1>2, <1>5 DEF HasExit, Sent
<1> QED
  BY <1>3, <1>4, <1>6

\* The message received from a channel is gone, the others move up.
LEMMA Received ==
  ASSUME NEW ch \in [Rank -> Seq(Msg)], NEW q \in Rank, ch[q] # << >>,
         NEW ch2 \in [Rank -> Seq(Msg)], Took(ch, q, ch2)
  PROVE  /\ \A c \in Client, r \in Rank, i \in Nat :
              Carries(ch2, c, r, i)
                <=> \/ r # q /\ Carries(ch, c, r, i)
                    \/ r = q /\ i # 0 /\ Carries(ch, c, q, i + 1)
         /\ ChannelExact(ch) => ChannelExact(ch2)
         /\ HasExit(ch2) => HasExit(ch)
<1>1. \A r \in Rank : r # q => ch2[r] = ch[r]
  BY DEF Took
<1>2. /\ ch2[q] = Tail(ch[q])
      /\ ch[q] \in Seq(Msg) /\ Len(ch[q]) > 0
      /\ Len(ch2[q]) = Len(ch[q]) - 1
      /\ \A i \in 1..Len(ch2[q]) : ch2[q][i] = ch[q][i + 1]
  BY DEF Took
<1>3. ASSUME NEW c \in Client, NEW r \in Rank, NEW i \in Nat
      PROVE  Carries(ch2, c, r, i)
                <=> \/ r # q /\ Carries(ch, c, r, i)
                    \/ r = q /\ i # 0 /\ Carries(ch, c, q, i + 1)
  BY <1>1, <1>2, SMTT(20), ZenonT(60), SMTT(30) DEF Carries, Took
<1>4. ChannelExact(ch) => ChannelExact(ch2)
  BY <1>1, <1>2, SMTT(20), SMTT(30), SMTT(60) DEF ChannelExact, Took
<1>5. HasExit(ch2) => HasExit(ch)
  BY <1>1, <1>2, SMTT(20), ZenonT(60), SMTT(30) DEF HasExit, Took
<1> QED
  BY <1>3, <1>4, <1>5

\* What is known of the first message m of a channel.
LEMMA FirstMessage ==
  ASSUME NEW ch \in [Rank -> Seq(Msg)], NEW q \in Rank, ch[q] # << >>,
         NEW m \in Msg, m = Head(ch[q])
  PROVE  /\ m = Exit(0) => HasExit(ch)
         /\ m.type = "update"
              => /\ \A c \in Client : c \in m.who <=> Carries(ch, c, q, 1)
                 /\ ChannelExact(ch) => m.count = Cardinality(m.who)
<1>1. m = ch[q][1] /\ 1 \in 1..Len(ch[q])
  OBVIOUS
<1>2. m = Exit(0) => HasExit(ch)
  BY <1>1 DEF HasExit
<1>3. \A c \in Client : Carries(ch, c, q, 1) <=> m.type = "update" /\ c \in m.who
  BY <1>1 DEF Carries
<1>4. ChannelExact(ch) /\ m.type = "update" => m.count = Cardinality(m.who)
  BY <1>1 DEF ChannelExact
<1> QED
  BY <1>2, <1>3, <1>4

\* Entries are never taken back, so that a full barrier stays full.
LEMMA FullGrows ==
  ASSUME \A c \in Client : response[c] # "none" => response'[c] # "none", Full
  PROVE  Full'
<1>1. Entered \subseteq Entered' /\ Entered' \subseteq Client
  BY DEF Entered
<1>2. IsFiniteSet(Entered')
  BY <1>1, FS_Subset, ClientAssumption, SMTT(20), ZenonT(60), SMTT(30)
<1>3. /\ Cardinality(Entered) <= Cardinality(Entered')
      /\ Cardinality(Entered) \in Nat /\ Cardinality(Entered') \in Nat
  BY <1>1, <1>2, FS_Subset, FS_CardinalityType
<1> QED
  BY <1>3, NProcsAssumption DEF Full

-----------------------------------------------------------------------------
(* Counting. *)

\* exit_event_send counts nobody.
LEMMA ExitSendCounts ==
  ASSUME TypeInv, NEW r \in Rank, NEW e \in {0, ECONNABORTED},
         exit_event_send(r, e)
  PROVE  /\ \A c \in Client, s \in Rank, i \in Nat :
              Carries(up', c, s, i) <=> Carries(up, c, s, i)
         /\ ChannelExact(up) => ChannelExact(up')
         /\ HasExit(up') => HasExit(up) \/ e = 0
<1>1. /\ up \in [Rank -> Seq(Msg)] /\ up' \in [Rank -> Seq(Msg)]
      /\ Sent(up, r, Exit(e), up')
  BY ExitSendType, ZenonT(60) DEF TypeInv, TypeOK, exit_event_send, Sent
<1> QED
  BY <1>1, SendExit, ZenonT(60), SMTT(30)

\* barrier_update adds the counts of two disjoint sets of clients, and completes
\* the barrier only if nprocs clients have entered.
LEMMA UpdateCounts ==
  ASSUME TypeInv, NEW r \in Rank, NEW b \in Entry, NEW who \in SUBSET Client,
         b.count = Cardinality(b.who), b.who \cap who = {},
         \A c \in b.who \cup who : response'[c] # "none",
         barrier_update(r, b, Cardinality(who), who)
  PROVE  /\ \A s \in Rank \ {r} : barriers'[s] = barriers[s]
         /\ barriers'[r] # None /\ barriers'[r].who = b.who \cup who
         /\ barriers'[r].count = Cardinality(b.who \cup who)
         /\ \A c \in Client, s \in Rank, i \in Nat :
              Carries(up', c, s, i) <=> Carries(up, c, s, i)
         /\ ChannelExact(up) => ChannelExact(up')
         /\ HasExit(up') => HasExit(up) \/ Full'
<1> DEFINE n == Cardinality(who)
<1>1. IsFiniteSet(b.who) /\ IsFiniteSet(who) /\ b.who \in SUBSET Client
  BY FS_Subset, ClientAssumption, SMTT(20), ZenonT(60), SMTT(30) DEF Entry
<1>2. n \in Nat
  BY <1>1, FS_CardinalityType, SMTT(20), ZenonT(60), SMTT(30)
<1>3. Cardinality(b.who \cup who) = b.count + n
  <2>1. Cardinality(b.who \cup who)
          = Cardinality(b.who) + n - Cardinality(b.who \cap who)
    BY <1>1, FS_Union
  <2>2. Cardinality(b.who \cap who) = 0
    BY FS_EmptySet
  <2>3. b.count \in Nat
    BY ZenonT(60), SMTT(30) DEF Entry
  <2> QED
    BY <1>2, <2>1, <2>2, <2>3, SMTT(20), ZenonT(60), SMTT(30)
<1>4. /\ Counted(r, b, n, who) \in Entry
      /\ Counted(r, b, n, who).count = b.count + n
      /\ Counted(r, b, n, who).who = b.who \cup who
  BY <1>2, CountedType, SMTT(20), ZenonT(60), SMTT(30)
<1>5. barriers' = [barriers EXCEPT ![r] = Counted(r, b, n, who)]
  BY SMTT(20), ZenonT(60), SMTT(30) DEF barrier_update
<1>6. /\ \A s \in Rank \ {r} : barriers'[s] = barriers[s]
      /\ barriers'[r] = Counted(r, b, n, who)
  BY <1>5, SMTT(20), ZenonT(60), SMTT(30) DEF TypeInv, TypeOK
<1>7. b.count + n = NProcs => Full'
  <2>1. b.who \cup who \subseteq Entered' /\ Entered' \subseteq Client
    BY <1>1 DEF Entered
  <2>2. IsFiniteSet(Entered')
    BY <2>1, FS_Subset, ClientAssumption, SMTT(20), ZenonT(60), SMTT(30)
  <2>3. Cardinality(b.who \cup who) <= Cardinality(Entered')
    BY <2>1, <2>2, FS_Subset
  <2> QED
    BY <1>3, <2>3, NProcsAssumption, SMTT(20), ZenonT(60), SMTT(30) DEF Full
<1>8. \/ up' = up
      \/ b.count + n = NProcs /\ exit_event_send(r, 0)
  BY ZenonT(60), SMTT(30) DEF barrier_update
<1>9. /\ \A c \in Client, s \in Rank, i \in Nat :
           Carries(up', c, s, i) <=> Carries(up, c, s, i)
      /\ ChannelExact(up) => ChannelExact(up')
      /\ HasExit(up') => HasExit(up) \/ Full'
  BY <1>7, <1>8, ExitSendCounts, ZenonT(60), SMTT(30)
<1> QED
  BY <1>3, <1>4, <1>6, <1>9, EntryNotNone, ZenonT(60), SMTT(30)

\* The clients that the barrier found or created on r stands for.
LEMMA LookupCounts ==
  ASSUME TypeOK, CountsExact, NEW r \in Rank
  PROVE  /\ barrier_lookup_create(r) \in Entry
         /\ \A c \in Client : c \in barrier_lookup_create(r).who
                               <=> InBarrier(c, r)
         /\ barrier_lookup_create(r).count
              = Cardinality(barrier_lookup_create(r).who)
  BY FS_EmptySet
     DEF TypeOK, CountsExact, barrier_lookup_create, Entry, InBarrier

\* ExitsFull survives a step that takes back no entry and adds a successful
\* exit only to a full barrier.
LEMMA ExitsFullStep ==
  ASSUME ExitsFull,
         \A c \in Client : response[c] # "none" => response'[c] # "none",
         HasExit(up') => HasExit(up) \/ Full',
         HasExit(inbox') => HasExit(inbox) \/ Full',
         \A i \in 1..Len(events') : events'[i] = 0 => Full \/ Full',
         \A c \in Client : response'[c] = "ok"
                             => response[c] = "ok" \/ Full \/ Full'
  PROVE  ExitsFull'
<1>1. Full => Full'
  BY FullGrows
<1> QED
  BY <1>1 DEF ExitsFull

\* enter_request_cb counts a client that was counted nowhere.
LEMMA EnterCounts ==
  ASSUME IInv, NEW c \in Client, EnterRequest(c)
  PROVE  CountedEntered' /\ CountedOnce' /\ CountsExact' /\ ExitsFull'
<1> DEFINE r == Home[c]
           b0 == barrier_lookup_create(r)
           b == [b0 EXCEPT !.clients = @ \cup {c}]
<1>1. /\ r \in Rank /\ b0 \in Entry
      /\ \A d \in Client : d \in b0.who <=> InBarrier(d, r)
      /\ b0.count = Cardinality(b0.who)
  BY LookupCounts, ClientAssumption DEF IInv, TypeInv
<1>2. b \in Entry /\ b.count = b0.count /\ b.who = b0.who
  BY <1>1 DEF Entry
<1>3. /\ response[c] = "none"
      /\ response' = [response EXCEPT ![c] = "waiting"]
      /\ UNCHANGED <<inbox, events>>
      /\ barrier_update(r, b, 1, {c})
  BY DEF EnterRequest
<1>4. /\ response'[c] = "waiting"
      /\ \A d \in Client : d # c => response'[d] = response[d]
      /\ \A d \in Client : response[d] # "none" => response'[d] # "none"
  BY <1>3 DEF IInv, TypeInv, TypeOK
<1>5. Cardinality({c}) = 1
  BY FS_Singleton
<1>6. b.who \cap {c} = {}
  BY <1>1, <1>2, <1>3 DEF IInv, CountedEntered
<1>7. \A d \in b.who \cup {c} : response'[d] # "none"
  BY <1>1, <1>2, <1>4, ZenonT(60), SMTT(30) DEF IInv, CountedEntered, Entry
<1> HIDE DEF b
<1>8. /\ \A s \in Rank \ {r} : barriers'[s] = barriers[s]
      /\ barriers'[r] # None /\ barriers'[r].who = b.who \cup {c}
      /\ barriers'[r].count = Cardinality(b.who \cup {c})
      /\ \A d \in Client, s \in Rank, i \in Nat :
           Carries(up', d, s, i) <=> Carries(up, d, s, i)
      /\ ChannelExact(up) => ChannelExact(up')
      /\ HasExit(up') => HasExit(up) \/ Full'
  <2>1. barrier_update(r, b, Cardinality({c}), {c})
    BY <1>3, <1>5, ZenonT(60), SMTT(30)
  <2> QED
    BY <1>1, <1>2, <1>6, <1>7, <2>1, UpdateCounts, ZenonT(60) DEF IInv
<1>9. \A d \in Client, s \in Rank :
        InBarrier(d, s)' <=> InBarrier(d, s) \/ (d = c /\ s = r)
  BY <1>1, <1>2, <1>8 DEF InBarrier
<1>10. \A d \in Client, s \in Rank, i \in Nat :
         Carries(inbox', d, s, i) <=> Carries(inbox, d, s, i)
  BY <1>3, ZenonT(60), SMTT(30)
<1>11. CountedEntered'
  BY <1>4, <1>8, <1>9, <1>10, SMTT(20), ZenonT(60), SMTT(30) DEF IInv, CountedEntered
<1>12. CountedOnce'
  <2>1. \A s \in Rank : /\ ~InBarrier(c, s)
                       /\ \A i \in Nat : ~Carries(up, c, s, i) /\ ~Carries(inbox, c, s, i)
    BY <1>3, ZenonT(60), SMTT(30) DEF IInv, CountedEntered
  <2>2. \A d \in Client, s \in Rank, i \in Nat :
          /\ Carries(up', d, s, i) <=> Carries(up, d, s, i)
          /\ Carries(inbox', d, s, i) <=> Carries(inbox, d, s, i)
    BY <1>8, <1>10
  <2>3. ASSUME NEW d \in Client, NEW s \in Rank, NEW t \in Rank
        PROVE  /\ InBarrier(d, s)' /\ InBarrier(d, t)' => s = t
               /\ \A i \in Nat : ~(InBarrier(d, s)' /\ Carries(up', d, t, i))
               /\ \A i \in Nat : ~(InBarrier(d, s)' /\ Carries(inbox', d, t, i))
    <3>1. CASE d = c
      BY <1>9, <2>1, <2>2, <3>1, ZenonT(60)
    <3>2. CASE d # c
      BY <1>9, <2>2, <3>2, SMTT(20), SMTT(30), SMTT(60) DEF IInv, CountedOnce
    <3> QED
      BY <3>1, <3>2
  <2>4. ASSUME NEW d \in Client, NEW s \in Rank, NEW t \in Rank, NEW i \in Nat, NEW k \in Nat
        PROVE  /\ ~(Carries(up', d, s, i) /\ Carries(inbox', d, t, k))
               /\ Carries(up', d, s, i) /\ Carries(up', d, t, k) => s = t /\ i = k
               /\ Carries(inbox', d, s, i) /\ Carries(inbox', d, t, k) => s = t /\ i = k
    BY <2>2, SMTT(20), SMTT(30), SMTT(60) DEF IInv, CountedOnce
  <2> QED
    BY <2>3, <2>4, ZenonT(200) DEF CountedOnce
<1>13. CountsExact'
  BY <1>1, <1>3, <1>8, ZenonT(60) DEF IInv, CountsExact
<1>14. ExitsFull'
  <2>1. HasExit(inbox') => HasExit(inbox)
    BY <1>3
  <2>2. \A i \in 1..Len(events') : events'[i] = 0 => Full
    BY <1>3, ZenonT(60), SMTT(30) DEF IInv, ExitsFull
  <2>3. \A d \in Client : response'[d] = "ok" => response[d] = "ok"
    BY <1>4
  <2> QED
    BY <1>4, <1>8, <2>1, <2>2, <2>3, ExitsFullStep, ZenonT(60) DEF IInv
<1> QED
  BY <1>11, <1>12, <1>13, <1>14, SMTT(20), ZenonT(60), SMTT(30)

\* update_request_cb counts in the barrier what it no longer counts in the inbox.
LEMMA UpdateRequestCounts ==
  ASSUME IInv, NEW r \in Rank, UpdateRequest(r)
  PROVE  CountedEntered' /\ CountedOnce' /\ CountsExact' /\ ExitsFull'
<1> DEFINE b == barrier_lookup_create(r)
           m == Head(inbox[r])
<1>1. /\ b \in Entry /\ b.count = Cardinality(b.who)
      /\ \A d \in Client : d \in b.who <=> InBarrier(d, r)
  BY LookupCounts, ZenonT(60), SMTT(30) DEF IInv, TypeInv
<1>2. /\ inbox[r] # << >> /\ m.type = "update"
      /\ barrier_update(r, b, m.count, m.who)
      /\ inbox' = [inbox EXCEPT ![r] = Tail(@)]
      /\ UNCHANGED <<events, response>>
  BY DEF UpdateRequest
<1>3. /\ inbox \in [Rank -> Seq(Msg)] /\ inbox' \in [Rank -> Seq(Msg)]
      /\ inbox[r] # << >> /\ m \in Msg /\ Took(inbox, r, inbox')
  BY <1>2, SMTT(20), SMTT(30), SMTT(60) DEF IInv, TypeInv, TypeOK, Took
<1>4. m.who \in SUBSET Client /\ m = Head(inbox[r])
  BY <1>2, <1>3, ZenonT(60), SMTT(30) DEF Msg
<1> HIDE DEF b, m
<1>5. /\ \A c \in Client, s \in Rank, i \in Nat :
           Carries(inbox', c, s, i)
             <=> \/ s # r /\ Carries(inbox, c, s, i)
                 \/ s = r /\ i # 0 /\ Carries(inbox, c, r, i + 1)
      /\ ChannelExact(inbox')
      /\ HasExit(inbox') => HasExit(inbox)
      /\ \A c \in Client : c \in m.who <=> Carries(inbox, c, r, 1)
      /\ m.count = Cardinality(m.who)
  <2>1. ChannelExact(inbox)
    BY ZenonT(60), SMTT(30) DEF IInv, CountsExact
  <2>2. /\ \A c \in Client, s \in Rank, i \in Nat :
             Carries(inbox', c, s, i)
               <=> \/ s # r /\ Carries(inbox, c, s, i)
                   \/ s = r /\ i # 0 /\ Carries(inbox, c, r, i + 1)
        /\ ChannelExact(inbox) => ChannelExact(inbox')
        /\ HasExit(inbox') => HasExit(inbox)
    BY <1>3, Received, ZenonT(60), SMTT(30)
  <2>3. /\ \A c \in Client : c \in m.who <=> Carries(inbox, c, r, 1)
        /\ ChannelExact(inbox) => m.count = Cardinality(m.who)
    BY <1>2, <1>3, <1>4, FirstMessage, ZenonT(60), SMTT(30) DEF m
  <2> QED
    BY <2>1, <2>2, <2>3
<1>6. b.who \cap m.who = {}
  BY <1>1, <1>4, <1>5, ZenonT(60), SMTT(30) DEF IInv, CountedOnce
<1>7. \A c \in b.who \cup m.who : response'[c] # "none"
  BY <1>1, <1>2, <1>4, <1>5, ZenonT(60), SMTT(30) DEF IInv, CountedEntered, Entry
<1>8. /\ \A s \in Rank \ {r} : barriers'[s] = barriers[s]
      /\ barriers'[r] # None /\ barriers'[r].who = b.who \cup m.who
      /\ barriers'[r].count = Cardinality(b.who \cup m.who)
      /\ \A d \in Client, s \in Rank, i \in Nat :
           Carries(up', d, s, i) <=> Carries(up, d, s, i)
      /\ ChannelExact(up) => ChannelExact(up')
      /\ HasExit(up') => HasExit(up) \/ Full'
  <2>1. barrier_update(r, b, Cardinality(m.who), m.who)
    BY <1>2, <1>5, ZenonT(60), SMTT(30)
  <2> QED
    BY <1>1, <1>4, <1>6, <1>7, <2>1, UpdateCounts, ZenonT(60) DEF IInv
<1>9. \A d \in Client, s \in Rank :
        InBarrier(d, s)' <=> \/ InBarrier(d, s)
                             \/ s = r /\ Carries(inbox, d, r, 1)
  BY <1>1, <1>5, <1>8, ZenonT(60), SMTT(30) DEF InBarrier
<1>10. CountedEntered'
  <2> SUFFICES ASSUME NEW c \in Client, NEW s \in Rank
               PROVE  /\ InBarrier(c, s)' => response'[c] # "none"
                      /\ \A i \in Nat : Carries(up', c, s, i)
                                          => response'[c] # "none"
                      /\ \A i \in Nat : Carries(inbox', c, s, i)
                                          => response'[c] # "none"
    BY DEF CountedEntered
  <2>1. InBarrier(c, s)' => response'[c] # "none"
    BY <1>2, <1>9, ZenonT(60), SMTT(30) DEF IInv, CountedEntered
  <2>2. \A i \in Nat : Carries(up', c, s, i) => response'[c] # "none"
    BY <1>2, <1>8, ZenonT(60), SMTT(30) DEF IInv, CountedEntered
  <2>3. \A i \in Nat : Carries(inbox', c, s, i) => response'[c] # "none"
    <3>1. \A i \in Nat : i + 1 \in Nat
      BY SMTT(20), SMTT(30), SMTT(60)
    <3> QED
      BY <1>2, <1>5, <3>1, ZenonT(60), SMTT(30), SMTT(60) DEF IInv, CountedEntered
  <2> QED
    BY <2>1, <2>2, <2>3, SMTT(20), ZenonT(60), SMTT(30)
<1>11. CountedOnce'
  <2>1. /\ \A i \in Nat : i + 1 \in Nat
        /\ \A i, k \in Nat : i + 1 = k + 1 => i = k
    BY SMTT(20), SMTT(30), SMTT(60)
  <2>2. CountedOnce
    BY ZenonT(60), SMTT(30) DEF IInv
  <2> SUFFICES ASSUME NEW c \in Client, NEW s \in Rank, NEW t \in Rank, NEW i \in Nat, NEW k \in Nat
               PROVE  /\ InBarrier(c, s)' /\ InBarrier(c, t)' => s = t
                      /\ ~ (InBarrier(c, s)' /\ Carries(up', c, t, i))
                      /\ ~ (InBarrier(c, s)' /\ Carries(inbox', c, t, i))
                      /\ ~ (Carries(up', c, s, i) /\ Carries(inbox', c, t, k))
                      /\ Carries(up', c, s, i) /\ Carries(up', c, t, k) => s = t /\ i = k
                      /\ Carries(inbox', c, s, i) /\ Carries(inbox', c, t, k) => s = t /\ i = k
    BY ZenonT(200), SMTT(30) DEF CountedOnce
  <2>3. InBarrier(c, s)' /\ InBarrier(c, t)' => s = t
    BY <1>9, <2>2, ZenonT(60), SMTT(30) DEF CountedOnce
  <2>4. ~ (InBarrier(c, s)' /\ Carries(up', c, t, i))
    BY <1>8, <1>9, <2>2, ZenonT(60), SMTT(30) DEF CountedOnce
  <2>5. ~ (InBarrier(c, s)' /\ Carries(inbox', c, t, i))
    BY <1>5, <1>9, <2>1, <2>2, ZenonT(60), SMTT(30), SMTT(60) DEF CountedOnce
  <2>6. ~ (Carries(up', c, s, i) /\ Carries(inbox', c, t, k))
    BY <1>5, <1>8, <2>1, <2>2, ZenonT(60), SMTT(30) DEF CountedOnce
  <2>7. Carries(up', c, s, i) /\ Carries(up', c, t, k) => s = t /\ i = k
    BY <1>8, <2>2, ZenonT(60), SMTT(30) DEF CountedOnce
  <2>8. Carries(inbox', c, s, i) /\ Carries(inbox', c, t, k) => s = t /\ i = k
    BY <1>5, <2>1, <2>2, ZenonT(60), SMTT(30), SMTT(60) DEF CountedOnce
  <2> QED
    BY <2>3, <2>4, <2>5, <2>6, <2>7, <2>8, ZenonT(60), SMTT(30)
<1>12. CountsExact'
  BY <1>5, <1>8, ZenonT(60) DEF IInv, CountsExact
<1>13. ExitsFull'
  <2>1. \A i \in 1..Len(events') : events'[i] = 0 => Full
    BY <1>2 DEF IInv, ExitsFull
  <2> QED
    BY <1>2, <1>5, <1>8, <2>1, ExitsFullStep, ZenonT(60) DEF IInv
<1> QED
  BY <1>10, <1>11, <1>12, <1>13

\* reduction_timeout_cb counts in its message what the barrier no longer counts.
LEMMA TimeoutCounts ==
  ASSUME IInv, NEW r \in Rank, ReductionTimeout(r)
  PROVE  CountedEntered' /\ CountedOnce' /\ CountsExact' /\ ExitsFull'
<1> DEFINE b == barriers[r]
           m == [type |-> "update", count |-> b.count, who |-> b.who]
<1>1. b \in Entry /\ b # None /\ b.count = Cardinality(b.who)
  BY ZenonT(60), SMTT(30) DEF IInv, TypeInv, TypeOK, CountsExact, ReductionTimeout
<1>2. m \in Msg /\ m.type = "update" /\ m.count = Cardinality(m.who)
      /\ m.who = b.who
  BY <1>1 DEF Entry, Msg
<1>3. /\ \A s \in Rank \ {r} : barriers'[s] = barriers[s]
      /\ barriers'[r].count = 0 /\ barriers'[r].who = {}
  BY <1>1 DEF IInv, TypeInv, TypeOK, ReductionTimeout, Entry
<1>4. UNCHANGED <<inbox, events, response>>
  BY DEF ReductionTimeout
<1>5. up \in [Rank -> Seq(Msg)]
  BY DEF IInv, TypeInv, TypeOK
<1>6. \/ b.count = 0 /\ up' = up
      \/ up' = [up EXCEPT ![r] = Append(@, m)]
  BY <1>1 DEF ReductionTimeout, Entry
<1> HIDE DEF m
<1>7. up' \in [Rank -> Seq(Msg)] /\ (up' = up \/ Sent(up, r, m, up'))
  <2>1. Append(up[r], m) \in Seq(Msg)
    BY <1>2, <1>5, SMTT(20), SMTT(30), SMTT(60)
  <2> QED
    BY <1>5, <1>6, <2>1, ZenonT(60) DEF Sent
<1>8. /\ \A c \in Client, s \in Rank, i \in Nat :
           Carries(up', c, s, i)
             => \/ Carries(up, c, s, i)
                \/ s = r /\ i = Len(up[r]) + 1 /\ c \in b.who
      /\ ChannelExact(up')
      /\ HasExit(up') => HasExit(up)
  <2>1. ChannelExact(up)
    BY DEF IInv, CountsExact
  <2>2. CASE up' = up
    BY <2>1, <2>2, ZenonT(60), SMTT(30)
  <2>3. CASE Sent(up, r, m, up')
    <3>1. /\ \A c \in Client, s \in Rank, i \in Nat :
               Carries(up', c, s, i)
                 <=> \/ Carries(up, c, s, i)
                     \/ s = r /\ i = Len(up[r]) + 1 /\ c \in m.who
          /\ ChannelExact(up) => ChannelExact(up')
          /\ HasExit(up') => HasExit(up)
      BY <1>2, <1>5, <1>7, <2>3, SendUpdate, ZenonT(60)
    <3> QED
      BY <1>2, <2>1, <3>1
  <2> QED
    BY <1>7, <2>2, <2>3, ZenonT(60), SMTT(30)
<1>9. \A d \in Client, s \in Rank :
        /\ InBarrier(d, s)' => InBarrier(d, s) /\ s # r
        /\ d \in b.who => InBarrier(d, r)
  BY <1>1, <1>3 DEF InBarrier
<1>10. \A d \in Client, s \in Rank, i \in Nat :
         Carries(inbox', d, s, i) <=> Carries(inbox, d, s, i)
  BY <1>4, ZenonT(60), SMTT(30)
<1> HIDE DEF b
<1>11. CountedEntered'
  BY <1>4, <1>8, <1>9, <1>10, ZenonT(60), SMTT(30) DEF IInv, CountedEntered
<1>12. CountedOnce'
  BY <1>8, <1>9, <1>10 DEF IInv, CountedOnce
<1>13. CountsExact'
  BY <1>3, <1>4, <1>8, FS_EmptySet, ZenonT(60) DEF IInv, CountsExact
<1>14. ExitsFull'
  <2>1. \A i \in 1..Len(events') : events'[i] = 0 => Full
    BY <1>4 DEF IInv, ExitsFull
  <2>2. HasExit(inbox') => HasExit(inbox)
    BY <1>4
  <2> QED
    BY <1>4, <1>8, <2>1, <2>2, ExitsFullStep, SMTT(20), ZenonT(60), SMTT(30) DEF IInv
<1> QED
  BY <1>11, <1>12, <1>13, <1>14, SMTT(20), ZenonT(60), SMTT(30)

\* A message of type exit is Exit of its errnum.
LEMMA ExitMessage ==
  ASSUME NEW m \in Msg, m.type = "exit"
  PROVE  m.errnum \in {0, ECONNABORTED} /\ m = Exit(m.errnum)
  BY DEF Msg, Exit

\* A step in which an abort is sent, at most, counts nobody.
LEMMA AbortCounts ==
  ASSUME IInv, NEW r \in Rank,
         up' = up \/ exit_event_send(r, ECONNABORTED),
         UNCHANGED <<barriers, inbox, events, response>>
  PROVE  CountedEntered' /\ CountedOnce' /\ CountsExact' /\ ExitsFull'
<1>1. /\ \A c \in Client, s \in Rank, i \in Nat :
           Carries(up', c, s, i) <=> Carries(up, c, s, i)
      /\ ChannelExact(up) => ChannelExact(up')
      /\ HasExit(up') => HasExit(up)
  BY ExitSendCounts, SMTT(20), SMTT(30), SMTT(60) DEF IInv, ECONNABORTED
<1>2. \A c \in Client, s \in Rank, i \in Nat :
        /\ InBarrier(c, s)' <=> InBarrier(c, s)
        /\ Carries(inbox', c, s, i) <=> Carries(inbox, c, s, i)
  BY ZenonT(60), SMTT(30) DEF InBarrier
<1>3. CountedEntered'
  BY <1>1, <1>2, ZenonT(60), SMTT(30) DEF IInv, CountedEntered
<1>4. CountedOnce'
  BY <1>1, <1>2 DEF IInv, CountedOnce
<1>5. CountsExact'
  BY <1>1, ZenonT(60), SMTT(30) DEF IInv, CountsExact
<1>6. ExitsFull'
  <2>1. Full' <=> Full
    BY ZenonT(60), SMTT(30) DEF Full, Entered
  <2> QED
    BY <1>1, <2>1 DEF IInv, ExitsFull
<1> QED
  BY <1>3, <1>4, <1>5, <1>6, SMTT(20), ZenonT(60), SMTT(30)

\* exit_event_cb counts no more clients, and releases those of the barrier with
\* success only if it is full.
LEMMA ExitEventCounts ==
  ASSUME IInv, NEW r \in Rank, ExitEvent(r)
  PROVE  CountedEntered' /\ CountedOnce' /\ CountsExact' /\ ExitsFull'
<1> DEFINE m == Head(inbox[r])
<1>1. /\ inbox \in [Rank -> Seq(Msg)] /\ inbox' \in [Rank -> Seq(Msg)]
      /\ inbox[r] # << >> /\ m \in Msg /\ m.type = "exit"
      /\ Took(inbox, r, inbox')
  BY SMTT(20), SMTT(30), SMTT(60) DEF ExitEvent, IInv, TypeInv, TypeOK, Took
<1>2. /\ \A c \in Client, s \in Rank, i \in Nat :
           Carries(inbox', c, s, i)
             <=> \/ s # r /\ Carries(inbox, c, s, i)
                 \/ s = r /\ i # 0 /\ Carries(inbox, c, r, i + 1)
      /\ ChannelExact(inbox) => ChannelExact(inbox')
      /\ HasExit(inbox') => HasExit(inbox)
  BY <1>1, Received, ZenonT(60)
<1>3. m.errnum = 0 => Full
  <2>1. m.errnum = 0 => m = Exit(0)
    BY <1>1, ExitMessage, SMTT(20), ZenonT(60), SMTT(30)
  <2> QED
    BY <1>1, <2>1, FirstMessage, ZenonT(60) DEF IInv, ExitsFull
<1>4. /\ UNCHANGED <<up, events>>
      /\ \A s \in Rank \ {r} : barriers'[s] = barriers[s]
      /\ barriers'[r] = None
  BY DEF ExitEvent, IInv, TypeInv, TypeOK
<1>5. \A c \in Client :
        \/ response'[c] = response[c]
        \/ response'[c] = "aborted"
        \/ response'[c] = "ok" /\ m.errnum = 0
  BY ZenonT(60), SMTT(30) DEF ExitEvent
<1> HIDE DEF m
<1>6. \A c \in Client, s \in Rank :
        InBarrier(c, s)' => s # r /\ InBarrier(c, s)
  BY <1>4, ZenonT(60), SMTT(30) DEF InBarrier
<1>7. \A c \in Client, s \in Rank, i \in Nat :
        Carries(up', c, s, i) <=> Carries(up, c, s, i)
  BY <1>4
<1>8. CountedEntered'
  <2>1. \A c \in Client : response[c] # "none" => response'[c] # "none"
    BY <1>5, ZenonT(60), SMTT(30)
  <2>2. \A c \in Client, s \in Rank : InBarrier(c, s)' => response'[c] # "none"
    BY <1>6, <2>1, ZenonT(60), SMTT(30) DEF IInv, CountedEntered
  <2>3. \A c \in Client, s \in Rank, i \in Nat :
          Carries(up', c, s, i) => response'[c] # "none"
    BY <1>7, <2>1, ZenonT(60), SMTT(30) DEF IInv, CountedEntered
  <2>4. \A c \in Client, s \in Rank, i \in Nat :
          Carries(inbox', c, s, i) => response'[c] # "none"
    <3>1. \A i \in Nat : i + 1 \in Nat
      BY SMTT(20), SMTT(30), SMTT(60)
    <3> QED
      BY <1>2, <2>1, <3>1, ZenonT(60), SMTT(30), SMTT(60) DEF IInv, CountedEntered
  <2> QED
    BY <2>2, <2>3, <2>4, ZenonT(60), SMTT(30) DEF CountedEntered
<1>9. CountedOnce'
  <2>1. /\ \A i \in Nat : i + 1 \in Nat
        /\ \A i, k \in Nat : i + 1 = k + 1 => i = k
    BY SMTT(20), SMTT(30), SMTT(60)
  <2>2. CountedOnce
    BY ZenonT(60), SMTT(30) DEF IInv
  <2> SUFFICES ASSUME NEW c \in Client, NEW s \in Rank, NEW t \in Rank, NEW i \in Nat, NEW k \in Nat
               PROVE  /\ InBarrier(c, s)' /\ InBarrier(c, t)' => s = t
                      /\ ~ (InBarrier(c, s)' /\ Carries(up', c, t, i))
                      /\ ~ (InBarrier(c, s)' /\ Carries(inbox', c, t, i))
                      /\ ~ (Carries(up', c, s, i) /\ Carries(inbox', c, t, k))
                      /\ Carries(up', c, s, i) /\ Carries(up', c, t, k) => s = t /\ i = k
                      /\ Carries(inbox', c, s, i) /\ Carries(inbox', c, t, k) => s = t /\ i = k
    BY ZenonT(200), SMTT(30) DEF CountedOnce
  <2>3. InBarrier(c, s)' /\ InBarrier(c, t)' => s = t
    BY <1>6, <2>2, ZenonT(60), SMTT(30) DEF CountedOnce
  <2>4. ~ (InBarrier(c, s)' /\ Carries(up', c, t, i))
    BY <1>6, <1>7, <2>2, ZenonT(60), SMTT(30) DEF CountedOnce
  <2>5. ~ (InBarrier(c, s)' /\ Carries(inbox', c, t, i))
    BY <1>2, <1>6, <2>1, <2>2, ZenonT(60), SMTT(30), SMTT(60) DEF CountedOnce
  <2>6. ~ (Carries(up', c, s, i) /\ Carries(inbox', c, t, k))
    BY <1>2, <1>7, <2>1, <2>2, ZenonT(60), SMTT(30) DEF CountedOnce
  <2>7. Carries(up', c, s, i) /\ Carries(up', c, t, k) => s = t /\ i = k
    BY <1>7, <2>2, ZenonT(60), SMTT(30) DEF CountedOnce
  <2>8. Carries(inbox', c, s, i) /\ Carries(inbox', c, t, k) => s = t /\ i = k
    BY <1>2, <2>1, <2>2, ZenonT(60), SMTT(30), SMTT(60) DEF CountedOnce
  <2> QED
    BY <2>3, <2>4, <2>5, <2>6, <2>7, <2>8, ZenonT(60), SMTT(30)
<1>10. CountsExact'
  BY <1>2, <1>4, SMTT(20), ZenonT(60), SMTT(30) DEF IInv, CountsExact
<1>11. ExitsFull'
  <2>1. \A i \in 1..Len(events') : events'[i] = 0 => Full
    BY <1>4, SMTT(20), ZenonT(60), SMTT(30) DEF IInv, ExitsFull
  <2>2. HasExit(up') => HasExit(up)
    BY <1>4, ZenonT(60), SMTT(30)
  <2> QED
    BY <1>2, <1>3, <1>5, <2>1, <2>2, ExitsFullStep, ZenonT(60) DEF IInv
<1> QED
  BY <1>8, <1>9, <1>10, <1>11, ZenonT(60), SMTT(30)

\* Routing a message counts in the parent's inbox what up counted.
LEMMA RouteUpdateCounts ==
  ASSUME IInv, NEW r \in Rank, RouteUpdate(r)
  PROVE  CountedEntered' /\ CountedOnce' /\ CountsExact' /\ ExitsFull'
<1> DEFINE m == Head(up[r])
           p == Parent[r]
<1>1. /\ up \in [Rank -> Seq(Msg)] /\ up' \in [Rank -> Seq(Msg)]
      /\ up[r] # << >> /\ m \in Msg /\ m.type = "update"
      /\ Took(up, r, up')
  <2>1. up \in [Rank -> Seq(Msg)]
    BY ZenonT(60), SMTT(30) DEF IInv, TypeInv, TypeOK
  <2>2. up[r] # << >> /\ m.type = "update" /\ up' = [up EXCEPT ![r] = Tail(@)]
    BY ZenonT(60), SMTT(30) DEF RouteUpdate
  <2>3. m \in Msg /\ up' \in [Rank -> Seq(Msg)]
    BY <2>1, <2>2, TakeType, ZenonT(60), SMTT(30)
  <2> QED
    BY <2>1, <2>2, <2>3, ZenonT(60), SMTT(30) DEF Took
<1>2. p \in Rank
  BY TreeAssumption, ZenonT(60), SMTT(30) DEF RouteUpdate
<1>3. /\ inbox \in [Rank -> Seq(Msg)]
      /\ inbox' = [inbox EXCEPT ![p] = Append(@, m)]
      /\ UNCHANGED <<barriers, events, response>>
  BY DEF RouteUpdate, IInv, TypeInv, TypeOK
<1>4. ChannelExact(up) /\ ChannelExact(inbox)
  BY DEF IInv, CountsExact
<1>5. m = Head(up[r])
  BY ZenonT(60), SMTT(30)
<1> HIDE DEF m, p
<1>6. /\ \A c \in Client : c \in m.who <=> Carries(up, c, r, 1)
      /\ m.count = Cardinality(m.who)
  BY <1>1, <1>4, <1>5, FirstMessage, ZenonT(60)
<1>7. /\ \A c \in Client, s \in Rank, i \in Nat :
           Carries(up', c, s, i)
             <=> \/ s # r /\ Carries(up, c, s, i)
                 \/ s = r /\ i # 0 /\ Carries(up, c, r, i + 1)
      /\ ChannelExact(up')
      /\ HasExit(up') => HasExit(up)
  BY <1>1, <1>4, Received, ZenonT(60), SMTT(30)
<1>8. inbox' \in [Rank -> Seq(Msg)] /\ Sent(inbox, p, m, inbox')
  BY <1>1, <1>2, <1>3, SMTT(20), ZenonT(60), SMTT(30) DEF Sent
<1>9. inbox \in [Rank -> Seq(Msg)]
  BY <1>3
<1>10. /\ \A c \in Client, s \in Rank, i \in Nat :
            Carries(inbox', c, s, i)
              <=> \/ Carries(inbox, c, s, i)
                  \/ s = p /\ i = Len(inbox[p]) + 1 /\ c \in m.who
       /\ ChannelExact(inbox) => ChannelExact(inbox')
       /\ HasExit(inbox') => HasExit(inbox)
  BY <1>1, <1>2, <1>6, <1>8, <1>9, SendUpdate, ZenonT(60)
<1>11. UNCHANGED <<events, response>>
       /\ \A c \in Client, s \in Rank : InBarrier(c, s)' <=> InBarrier(c, s)
  BY <1>3, ZenonT(60), SMTT(30) DEF InBarrier
<1>12. CountedEntered'
  <2>1. \A c \in Client, s \in Rank : InBarrier(c, s)' => response'[c] # "none"
    BY <1>11 DEF IInv, CountedEntered
  <2>2. \A c \in Client, s \in Rank, i \in Nat :
          Carries(up', c, s, i) => response'[c] # "none"
    BY <1>7, <1>11, SMTT(20), SMTT(30), SMTT(60) DEF IInv, CountedEntered
  <2>3. \A c \in Client, s \in Rank, i \in Nat :
          Carries(inbox', c, s, i) => response'[c] # "none"
    BY <1>6, <1>10, <1>11 DEF IInv, CountedEntered
  <2> QED
    BY <2>1, <2>2, <2>3, ZenonT(60) DEF CountedEntered
<1>13. CountedOnce'
  <2>1. ASSUME NEW c \in Client, NEW s \in Rank, NEW t \in Rank
        PROVE  /\ InBarrier(c, s)' /\ InBarrier(c, t)' => s = t
               /\ \A i \in Nat : ~(InBarrier(c, s)' /\ Carries(up', c, t, i))
    BY <1>7, <1>11, SMTT(20), SMTT(30), SMTT(60) DEF IInv, CountedOnce
  <2>a. \A c \in Client, s \in Rank, i \in Nat : Carries(up', c, s, i) =>
          \E j \in Nat : Carries(up, c, s, j) /\ (IF s = r THEN j = i + 1 /\ j # 1 ELSE j = i)
    BY <1>7, SMTT(20), SMTT(30), SMTT(60)
  <2>b. \A c \in Client, s \in Rank, i \in Nat : Carries(inbox', c, s, i) =>
          \/ Carries(inbox, c, s, i)
          \/ s = p /\ i = Len(inbox[p]) + 1 /\ Carries(up, c, r, 1)
    BY <1>6, <1>10, ZenonT(60), SMTT(30)
  <2>2. ASSUME NEW c \in Client, NEW s \in Rank, NEW t \in Rank, NEW i \in Nat,
               InBarrier(c, s)', Carries(inbox', c, t, i)
        PROVE  FALSE
    <3>1. InBarrier(c, s)
      BY <1>11, <2>2
    <3>2. ~Carries(inbox, c, t, i) /\ ~Carries(up, c, r, 1)
      BY <3>1, ZenonT(60), SMTT(30) DEF IInv, CountedOnce
    <3> QED
      BY <2>b, <2>2, <3>2
  <2>3. ASSUME NEW c \in Client, NEW s \in Rank, NEW t \in Rank, NEW i \in Nat, NEW k \in Nat,
               Carries(up', c, s, i), Carries(inbox', c, t, k)
        PROVE  FALSE
    <3>1. PICK j \in Nat : Carries(up, c, s, j) /\ (IF s = r THEN j = i + 1 /\ j # 1 ELSE j = i)
      BY <2>a, <2>3
    <3>2. ~Carries(inbox, c, t, k)
      BY <3>1 DEF IInv, CountedOnce
    <3>3. Carries(up, c, r, 1)
      BY <2>b, <2>3, <3>2
    <3>4. s = r /\ j = 1
      BY <3>1, <3>3, ZenonT(60), SMTT(30) DEF IInv, CountedOnce
    <3> QED
      BY <3>1, <3>4
  <2>4. ASSUME NEW c \in Client, NEW s \in Rank, NEW t \in Rank, NEW i \in Nat, NEW k \in Nat,
               Carries(up', c, s, i), Carries(up', c, t, k)
        PROVE  s = t /\ i = k
    <3>1. PICK j \in Nat : Carries(up, c, s, j) /\ (IF s = r THEN j = i + 1 /\ j # 1 ELSE j = i)
      BY <2>a, <2>4
    <3>2. PICK l \in Nat : Carries(up, c, t, l) /\ (IF t = r THEN l = k + 1 /\ l # 1 ELSE l = k)
      BY <2>a, <2>4
    <3>3. s = t /\ j = l
      BY <3>1, <3>2 DEF IInv, CountedOnce
    <3> QED
      BY <3>1, <3>2, <3>3, SMTT(20), SMTT(30), SMTT(60)
  <2>5. ASSUME NEW c \in Client, NEW s \in Rank, NEW t \in Rank, NEW i \in Nat, NEW k \in Nat,
               Carries(inbox', c, s, i), Carries(inbox', c, t, k)
        PROVE  s = t /\ i = k
    <3>1. CASE Carries(up, c, r, 1)
      <4>1. ~Carries(inbox, c, s, i) /\ ~Carries(inbox, c, t, k)
        BY <3>1, ZenonT(60), SMTT(30) DEF IInv, CountedOnce
      <4> QED
        BY <2>b, <2>5, <4>1
    <3>2. CASE ~Carries(up, c, r, 1)
      <4>1. Carries(inbox, c, s, i) /\ Carries(inbox, c, t, k)
        BY <2>b, <2>5, <3>2, ZenonT(60), SMTT(30)
      <4> QED
        BY <4>1, ZenonT(60), SMTT(30) DEF IInv, CountedOnce
    <3> QED
      BY <3>1, <3>2
  <2> QED
    BY <2>1, <2>2, <2>3, <2>4, <2>5, ZenonT(200) DEF CountedOnce
<1>14. CountsExact'
  BY <1>3, <1>4, <1>7, <1>10, ZenonT(60), SMTT(30) DEF IInv, CountsExact
<1>15. ExitsFull'
  <2>1. \A i \in 1..Len(events') : events'[i] = 0 => Full
    BY <1>11, ZenonT(60), SMTT(30) DEF IInv, ExitsFull
  <2> QED
    BY <1>7, <1>10, <1>11, <2>1, ExitsFullStep, SMTT(20), ZenonT(60), SMTT(30) DEF IInv
<1> QED
  BY <1>12, <1>13, <1>14, <1>15, ZenonT(60), SMTT(30)

\* An event on its way to the root counts nobody.
LEMMA RouteEventCounts ==
  ASSUME IInv, NEW r \in Rank, RouteEvent(r)
  PROVE  CountedEntered' /\ CountedOnce' /\ CountsExact' /\ ExitsFull'
<1> DEFINE m == Head(up[r])
           p == Parent[r]
           u == [up EXCEPT ![r] = Tail(@)]
<1>1. /\ up \in [Rank -> Seq(Msg)] /\ up[r] # << >>
      /\ m \in Msg /\ m.type = "exit"
      /\ UNCHANGED <<barriers, inbox, events, response>>
  BY DEF RouteEvent, IInv, TypeInv, TypeOK
<1>2. p \in Rank /\ p # r
  BY TreeAssumption DEF RouteEvent
<1>3. u \in [Rank -> Seq(Msg)] /\ Took(up, r, u) /\ u[p] = up[p]
  BY <1>1, <1>2, SMTT(20), SMTT(30), SMTT(60) DEF Took
<1>4. up' = [u EXCEPT ![p] = Append(up[p], m)]
  BY <1>3 DEF RouteEvent
<1>5. m.errnum \in {0, ECONNABORTED} /\ m = Exit(m.errnum)
  BY <1>1, ExitMessage, ZenonT(60), SMTT(30)
<1>6. m.errnum = 0 => HasExit(up)
  BY <1>1, <1>5, FirstMessage
<1> HIDE DEF m, p, u
<1>7. up' \in [Rank -> Seq(Msg)] /\ Sent(u, p, Exit(m.errnum), up')
  <2>1. Append(u[p], m) \in Seq(Msg)
    BY <1>1, <1>2, <1>3
  <2> QED
    BY <1>2, <1>3, <1>4, <1>5, <2>1, ZenonT(60) DEF Sent
<1>8. /\ \A c \in Client, s \in Rank, i \in Nat :
           Carries(u, c, s, i)
             <=> \/ s # r /\ Carries(up, c, s, i)
                 \/ s = r /\ i # 0 /\ Carries(up, c, r, i + 1)
      /\ ChannelExact(up) => ChannelExact(u)
      /\ HasExit(u) => HasExit(up)
  BY <1>1, <1>3, Received, ZenonT(60)
<1>9. /\ \A c \in Client, s \in Rank, i \in Nat :
           Carries(up', c, s, i) <=> Carries(u, c, s, i)
      /\ ChannelExact(u) => ChannelExact(up')
      /\ HasExit(up') => HasExit(u) \/ m.errnum = 0
  BY <1>2, <1>3, <1>5, <1>7, SendExit, ZenonT(60)
<1>10. /\ \A c \in Client, s \in Rank : InBarrier(c, s)' <=> InBarrier(c, s)
       /\ \A c \in Client, s \in Rank, i \in Nat :
            Carries(inbox', c, s, i) <=> Carries(inbox, c, s, i)
  BY <1>1, ZenonT(60), SMTT(30) DEF InBarrier
<1>11. CountedEntered'
  <2>1. \A c \in Client, s \in Rank, i \in Nat :
          Carries(up', c, s, i) => response[c] # "none"
    BY <1>8, <1>9, SMTT(20), SMTT(30), SMTT(60) DEF IInv, CountedEntered
  <2> QED
    BY <1>1, <1>10, <2>1, ZenonT(60), SMTT(30) DEF IInv, CountedEntered
<1>12. CountedOnce'
  <2>1. \A c \in Client, s \in Rank, i \in Nat :
          Carries(up', c, s, i)
            <=> \/ s # r /\ Carries(up, c, s, i)
                \/ s = r /\ i # 0 /\ Carries(up, c, r, i + 1)
    BY <1>8, <1>9, ZenonT(60), SMTT(30)
  <2> QED
    BY <1>10, <2>1, SMTT(20), SMTT(30), SMTT(60) DEF IInv, CountedOnce
<1>13. CountsExact'
  BY <1>1, <1>8, <1>9, ZenonT(60), SMTT(30) DEF IInv, CountsExact
<1>14. ExitsFull'
  <2>1. Full' <=> Full
    BY <1>1 DEF Full, Entered
  <2> QED
    BY <1>1, <1>6, <1>8, <1>9, <2>1, ZenonT(60), SMTT(30) DEF IInv, ExitsFull
<1> QED
  BY <1>11, <1>12, <1>13, <1>14, ZenonT(60), SMTT(30)

\* The root publishes an event: it counts nobody, and keeps its errnum.
LEMMA PublishCounts ==
  ASSUME IInv, Publish
  PROVE  CountedEntered' /\ CountedOnce' /\ CountsExact' /\ ExitsFull'
<1> DEFINE m == Head(up[Root])
<1>1. /\ Root \in Rank
      /\ up \in [Rank -> Seq(Msg)] /\ up' \in [Rank -> Seq(Msg)]
      /\ up[Root] # << >> /\ m \in Msg /\ m.type = "exit"
      /\ Took(up, Root, up')
  BY TreeAssumption, SMTT(20), SMTT(30), SMTT(60) DEF Publish, IInv, TypeInv, TypeOK, Sequenced, Took
<1>2. m.errnum \in {0, ECONNABORTED} /\ m = Exit(m.errnum)
  BY <1>1, ExitMessage, ZenonT(60), SMTT(30)
<1>3. m.errnum = 0 => Full
  BY <1>1, <1>2, FirstMessage, ZenonT(60), SMTT(30) DEF IInv, ExitsFull
<1>4. /\ UNCHANGED <<barriers, response>>
      /\ events \in Seq({0, ECONNABORTED})
      /\ events' = Append(events, m.errnum)
  BY DEF Publish, IInv, TypeInv, TypeOK
<1>5. /\ inbox \in [Rank -> Seq(Msg)] /\ inbox' \in [Rank -> Seq(Msg)]
      /\ Sent(inbox, Root, Exit(m.errnum), inbox')
  <2>1. inbox \in [Rank -> Seq(Msg)] /\ inbox' = [inbox EXCEPT ![Root] = Append(@, m)]
    BY ZenonT(60), SMTT(30) DEF Publish, IInv, TypeInv, TypeOK
  <2>2. Append(inbox[Root], m) \in Seq(Msg)
    BY <1>1, <2>1, SMTT(20), SMTT(30), SMTT(60)
  <2> HIDE DEF m
  <2> QED
    BY <1>2, <2>1, <2>2, ZenonT(60) DEF Sent
<1> HIDE DEF m
<1>6. /\ \A c \in Client, s \in Rank, i \in Nat :
           Carries(up', c, s, i)
             <=> \/ s # Root /\ Carries(up, c, s, i)
                 \/ s = Root /\ i # 0 /\ Carries(up, c, Root, i + 1)
      /\ ChannelExact(up) => ChannelExact(up')
      /\ HasExit(up') => HasExit(up)
  BY <1>1, Received, ZenonT(60), SMTT(30)
<1>7. /\ \A c \in Client, s \in Rank, i \in Nat :
           Carries(inbox', c, s, i) <=> Carries(inbox, c, s, i)
      /\ ChannelExact(inbox) => ChannelExact(inbox')
      /\ HasExit(inbox') => HasExit(inbox) \/ m.errnum = 0
  BY <1>1, <1>2, <1>5, SendExit, ZenonT(60)
<1>8. \A c \in Client, s \in Rank : InBarrier(c, s)' <=> InBarrier(c, s)
  BY <1>4 DEF InBarrier
<1>9. CountedEntered'
  <2>1. \A c \in Client, s \in Rank, i \in Nat :
          Carries(up', c, s, i) => response[c] # "none"
    BY <1>6, SMTT(20), SMTT(30), SMTT(60) DEF IInv, CountedEntered
  <2> QED
    BY <1>4, <1>7, <1>8, <2>1 DEF IInv, CountedEntered
<1>10. CountedOnce'
  BY <1>6, <1>7, <1>8, SMTT(20), SMTT(30), SMTT(60) DEF IInv, CountedOnce
<1>11. CountsExact'
  BY <1>4, <1>6, <1>7 DEF IInv, CountsExact
<1>12. ExitsFull'
  <2>1. \A i \in 1..Len(events') : events'[i] = 0 => Full
    BY <1>2, <1>3, <1>4 DEF IInv, ExitsFull
  <2>2. \A c \in Client : response'[c] = response[c]
    BY <1>4, ZenonT(60), SMTT(30)
  <2>3. Full => Full'
    BY <2>2, FullGrows
  <2> QED
    BY <1>3, <1>6, <1>7, <2>1, <2>2, <2>3, ExitsFullStep, ZenonT(60) DEF IInv
<1> QED
  BY <1>9, <1>10, <1>11, <1>12, ZenonT(60), SMTT(30)

\* A broker hears of an event: it counts nobody, and keeps its errnum.
LEMMA HearEventCounts ==
  ASSUME IInv, NEW r \in Rank, HearEvent(r)
  PROVE  CountedEntered' /\ CountedOnce' /\ CountsExact' /\ ExitsFull'
<1> DEFINE e == events[heard[r] + 1]
<1>1. heard[r] + 1 \in 1..Len(events) /\ e \in {0, ECONNABORTED}
  <2>1. Parent[r] \in Rank
    BY TreeAssumption, ZenonT(60), SMTT(30) DEF HearEvent
  <2>2. heard[r] + 1 \in 1..Len(events)
    <3>1. heard[r] < heard[Parent[r]]
      BY ZenonT(60), SMTT(30) DEF HearEvent
    <3>2. heard[r] \in Nat /\ heard[Parent[r]] \in Nat /\ Len(events) \in Nat
      BY <2>1, SMTT(20), SMTT(30), SMTT(60) DEF IInv, TypeInv, TypeOK
    <3>3. heard[Parent[r]] <= Len(events)
      BY <2>1 DEF IInv, TypeInv, Sequenced
    <3> QED
      BY <3>1, <3>2, <3>3, SMTT(20), SMTT(30), SMTT(60)
  <2> QED
    BY <2>2, SMTT(20), SMTT(30), SMTT(60) DEF IInv, TypeInv, TypeOK
<1>2. e = 0 => Full
  BY <1>1, ZenonT(60), SMTT(30) DEF IInv, ExitsFull
<1>3. /\ UNCHANGED <<barriers, up, events, response>>
      /\ inbox \in [Rank -> Seq(Msg)]
      /\ inbox' = [inbox EXCEPT ![r] = Append(@, Exit(e))]
  BY DEF HearEvent, IInv, TypeInv, TypeOK
<1> HIDE DEF e
<1>4. /\ inbox \in [Rank -> Seq(Msg)] /\ inbox' \in [Rank -> Seq(Msg)]
      /\ Sent(inbox, r, Exit(e), inbox')
  <2>1. Exit(e) \in Msg
    BY <1>1, ExitType
  <2>2. Append(inbox[r], Exit(e)) \in Seq(Msg)
    BY <1>3, <2>1, SMTT(20), SMTT(30), SMTT(60)
  <2> QED
    BY <1>3, <2>2 DEF Sent
<1>5. /\ \A c \in Client, s \in Rank, i \in Nat :
           Carries(inbox', c, s, i) <=> Carries(inbox, c, s, i)
      /\ ChannelExact(inbox) => ChannelExact(inbox')
      /\ HasExit(inbox') => HasExit(inbox) \/ e = 0
  BY <1>1, <1>4, SendExit, ZenonT(60)
<1>6. UNCHANGED <<barriers, up, events, response>>
  BY <1>3, ZenonT(60), SMTT(30)
<1>7. \A c \in Client, s \in Rank, i \in Nat :
        /\ InBarrier(c, s)' <=> InBarrier(c, s)
        /\ Carries(up', c, s, i) <=> Carries(up, c, s, i)
  BY <1>6, ZenonT(60), SMTT(30) DEF InBarrier
<1>8. CountedEntered'
  BY <1>5, <1>6, <1>7, ZenonT(60), SMTT(30) DEF IInv, CountedEntered
<1>9. CountedOnce'
  BY <1>5, <1>7, SMTT(20), SMTT(30), SMTT(60) DEF IInv, CountedOnce
<1>10. CountsExact'
  BY <1>5, <1>6, ZenonT(60), SMTT(30) DEF IInv, CountsExact
<1>11. ExitsFull'
  <2>1. Full' <=> Full
    BY <1>6, ZenonT(60), SMTT(30) DEF Full, Entered
  <2> QED
    BY <1>2, <1>5, <1>6, <2>1, ZenonT(60), SMTT(30) DEF IInv, ExitsFull
<1> QED
  BY <1>8, <1>9, <1>10, <1>11

\* Every step counts each client at most once.
LEMMA CountingStep == IInv /\ [Next]_vars => IInv'
<1> SUFFICES ASSUME IInv, [Next]_vars
             PROVE  CountedEntered' /\ CountedOnce' /\ CountsExact' /\ ExitsFull'
  BY TypeStep DEF IInv
<1>1. ASSUME NEW c \in Client, EnterRequest(c)
      PROVE  CountedEntered' /\ CountedOnce' /\ CountsExact' /\ ExitsFull'
  BY <1>1, EnterCounts
<1>2. ASSUME NEW c \in Client, DoubleEntry(c)
      PROVE  CountedEntered' /\ CountedOnce' /\ CountsExact' /\ ExitsFull'
  <2>1. /\ exit_event_send(Home[c], ECONNABORTED) /\ Home[c] \in Rank
        /\ UNCHANGED <<barriers, inbox, events, response>>
    BY <1>2, ClientAssumption DEF DoubleEntry
  <2> QED
    BY <2>1, AbortCounts, ZenonT(60), SMTT(30)
<1>3. ASSUME NEW c \in Client, DisconnectRequest(c)
      PROVE  CountedEntered' /\ CountedOnce' /\ CountsExact' /\ ExitsFull'
  <2>1. /\ up' = up \/ exit_event_send(Home[c], ECONNABORTED)
        /\ Home[c] \in Rank
        /\ UNCHANGED <<barriers, inbox, events, response>>
    BY <1>3, ClientAssumption, ZenonT(60), SMTT(30) DEF DisconnectRequest
  <2> QED
    BY <2>1, AbortCounts, ZenonT(60), SMTT(30)
<1>4. ASSUME NEW r \in Rank,
             \/ ReductionTimeout(r) \/ UpdateRequest(r) \/ ExitEvent(r)
             \/ RouteUpdate(r) \/ RouteEvent(r) \/ HearEvent(r)
      PROVE  CountedEntered' /\ CountedOnce' /\ CountsExact' /\ ExitsFull'
  BY <1>4, TimeoutCounts, UpdateRequestCounts, ExitEventCounts,
     RouteUpdateCounts, RouteEventCounts, HearEventCounts
<1>5. CASE Publish
  BY <1>5, PublishCounts
<1>6. CASE UNCHANGED vars
  <2>1. /\ up' = up /\ Root \in Rank
        /\ UNCHANGED <<barriers, inbox, events, response>>
    BY <1>6, TreeAssumption DEF vars
  <2> QED
    BY <2>1, AbortCounts
<1> QED
  BY <1>1, <1>2, <1>3, <1>4, <1>5, <1>6, ZenonT(60), SMTT(30) DEF Next

\* For any tree, any clients and any nprocs, and whatever aborts do meanwhile: a
\* client is told that the barrier completed only when nprocs clients entered.
THEOREM Safety == Spec => []NoEarlyExit
<1>1. Init => IInv
  <2> SUFFICES ASSUME Init
               PROVE  IInv
    BY ZenonT(60), SMTT(30)
  <2>1. TypeInv
    BY TreeAssumption, SMTT(20), SMTT(30), SMTT(60) DEF Init, TypeInv, TypeOK, Sequenced
  <2>2. \A c \in Client, r \in Rank, i \in Nat :
          ~ InBarrier(c, r) /\ ~ Carries(up, c, r, i) /\ ~ Carries(inbox, c, r, i)
    BY SMTT(20), SMTT(30), SMTT(60) DEF Init, InBarrier, Carries
  <2>3. CountedEntered /\ CountedOnce
    BY <2>2, SMTT(20), SMTT(30), SMTT(60) DEF CountedEntered, CountedOnce
  <2>4. CountsExact
    BY DEF Init, CountsExact, ChannelExact
  <2>5. ExitsFull
    BY DEF Init, ExitsFull, HasExit
  <2> QED
    BY <2>1, <2>3, <2>4, <2>5 DEF IInv
<1>2. IInv => NoEarlyExit
  BY DEF IInv, ExitsFull, NoEarlyExit, Full
<1> QED
  BY <1>1, <1>2, CountingStep, PTL DEF Spec

=============================================================================
