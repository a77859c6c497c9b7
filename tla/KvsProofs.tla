------------------------------ MODULE KvsProofs ------------------------------
(***************************************************************************)
(* What TLAPS proves of one namespace of the KVS, for every set of ranks   *)
(* and requests, every tree of ranks, and however often the namespace is   *)
(* created: the roots that ranks and clients hold are versions that the    *)
(* leader published (RootsAgree), and no rank steps back within an         *)
(* incarnation, but for a rank that is not next to the leader and then     *)
(* only to version 0 (NeverBack).                                          *)
(*                                                                         *)
(* Inv is the inductive invariant.  What it says of a history of versions, *)
(* of a queue or of a root is defined on values, not on the variables, so  *)
(* that a lemma can compare the value before a step with the one after.    *)
(* The requests in the channels, the pending transactions and the          *)
(* directories themselves stay opaque: neither theorem depends on them.    *)
(***************************************************************************)
EXTENDS Kvs, TLAPS

Incs == 1..MaxCreates

(* Published and its like are stated of a given history of versions, so     *)
(* that they can be compared before and after a step.                       *)
PublishedIn(lg, inc, seq, ref) ==
    \/ seq = 0 /\ ref = EmptyDir
    \/ \E i \in DOMAIN lg : lg[i].inc = inc /\ lg[i].seq = seq /\ lg[i].ref = ref

(* A version of one of the n incarnations created so far. *)
VersionIn(lg, n, inc, seq, ref) ==
    inc \in Incs /\ inc <= n /\ PublishedIn(lg, inc, seq, ref)

Refs(lg) == {EmptyDir} \cup {lg[i].ref : i \in DOMAIN lg}

IsSeq(s) == s \in Seq({s[i] : i \in DOMAIN s})

LogOK(lg, n) ==
    /\ IsSeq(lg)
    /\ \A i \in DOMAIN lg : /\ lg[i].inc \in Incs /\ lg[i].inc <= n
                            /\ lg[i].seq \in Nat /\ lg[i].seq > 0

RootsOK(rt, lg, n) ==
    /\ rt \in [Ranks -> [st : {"none", "up", "removed"}, ref : Refs(lg), seq : Nat, inc : Nat]]
    /\ \A r \in Ranks : rt[r].st # "none" => VersionIn(lg, n, rt[r].inc, rt[r].seq, rt[r].ref)

Answers == {"off", "idle", "sent", "waiting", "loading", "gone", "ok", "err"}

RespsOK(rs, lg) ==
    /\ rs \in [Requests -> [st : Answers, seq : Nat, ref : Refs(lg), n : Nat]]
    /\ \A q \in Requests : rs[q].st \in {"loading", "ok"} =>
          \E inc \in Incs : PublishedIn(lg, inc, rs[q].seq, rs[q].ref)

(* The messages that carry a root. *)
Carries(m) == m.t = "setroot" \/ (m.t = "root" /\ m.ok)

GoodMessage(m, lg, n) ==
    Carries(m) => m.seq \in Nat /\ VersionIn(lg, n, m.inc, m.seq, m.ref)

BoxOK(s, lg, n) == IsSeq(s) /\ \A i \in DOMAIN s : GoodMessage(s[i], lg, n)

(* The leader has published nothing of an incarnation at version 0. *)
FreshOK(rt, lg) == rt.st = "up" /\ rt.seq = 0 => \A i \in DOMAIN lg : lg[i].inc # rt.inc

(* The messages that take a root to version 0.  Those on their way to a     *)
(* rank next to the leader find it without a later version of the           *)
(* incarnation, and it will not get one before them: neither from what its  *)
(* KVS has to handle (s) nor from what its broker has to deliver (t).       *)
Resets(m) == Carries(m) /\ m.seq = 0

Older(m, inc) == Carries(m) /\ m.inc = inc => m.seq = 0

FitsBox(r, rt, s) ==
    \A k \in DOMAIN s : Resets(s[k]) =>
        /\ r # Leader
        /\ rt.st = "up" /\ rt.inc = s[k].inc => rt.seq = 0
        /\ \A i \in 1..(k - 1) : Older(s[i], s[k].inc)

FitsWire(rt, s, t) ==
    \A k \in DOMAIN t : Resets(t[k]) =>
        /\ rt.st = "up" /\ rt.inc = t[k].inc => rt.seq = 0
        /\ \A i \in DOMAIN s : Older(s[i], t[k].inc)
        /\ \A i \in 1..(k - 1) : Older(t[i], t[k].inc)

(* What is under way to rank r, whose root is rt. *)
Pipe(r, rt, s, t, lg, n) ==
    /\ BoxOK(s, lg, n) /\ BoxOK(t, lg, n)
    /\ r \in NextToLeader => FitsBox(r, rt, s) /\ FitsWire(rt, s, t)

(* The leader's events do not pass through a wire. *)
WireOf(w, r) == IF r = Leader THEN <<>> ELSE w[r]

Pipes(rt, ib, w, lg, n) ==
    /\ ib = [r \in Ranks |-> ib[r]]
    /\ w = [r \in Followers |-> w[r]]
    /\ \A r \in Ranks : Pipe(r, rt[r], ib[r], WireOf(w, r), lg, n)

UsedType == [creates : Nat, faults : Nat, expires : Nat, max : Scenarios]

Inv ==
    /\ LogOK(log, used.creates)
    /\ used \in UsedType
    /\ RootsOK(root, log, used.creates)
    /\ root[Leader].st = "none" => ready = <<>>
    /\ RespsOK(resp, log)
    /\ FreshOK(root[Leader], log)
    /\ Pipes(root, inbox, wire, log, used.creates)

-----------------------------------------------------------------------------
(* Sequences *)

\* A sequence of anything is a sequence of its own elements.
LEMMA SeqIs ==
    ASSUME NEW S, NEW s \in Seq(S)
    PROVE  IsSeq(s)
<1>1. \A i \in 1..Len(s) : s[i] \in {s[k] : k \in DOMAIN s}
  OBVIOUS
<1> QED
  BY <1>1 DEF IsSeq

\* What Append does to a queue or to the history of versions.
LEMMA SeqAppend ==
    ASSUME NEW s, IsSeq(s), NEW e
    PROVE  /\ IsSeq(Append(s, e))
           /\ Len(s) \in Nat /\ DOMAIN s = 1..Len(s)
           /\ DOMAIN Append(s, e) = 1..(Len(s) + 1)
           /\ \A i \in DOMAIN s : Append(s, e)[i] = s[i]
           /\ Append(s, e)[Len(s) + 1] = e
<1> DEFINE S == {s[i] : i \in DOMAIN s} \cup {e}
<1>1. s \in Seq(S)
  BY DEF IsSeq
<1> HIDE DEF S
<1>2. e \in S
  BY DEF S
<1>3. Append(s, e) \in Seq(S)
  BY <1>1, <1>2
<1>4. IsSeq(Append(s, e))
  BY <1>3, SeqIs, ZenonT(60), SMTT(30)
<1> QED
  BY <1>1, <1>2, <1>4

\* What taking the head off a queue leaves.
LEMMA SeqTail ==
    ASSUME NEW s, IsSeq(s), s # <<>>
    PROVE  /\ IsSeq(Tail(s))
           /\ DOMAIN s = 1..Len(s) /\ Len(s) \in Nat /\ 1 \in DOMAIN s /\ Head(s) = s[1]
           /\ DOMAIN Tail(s) = 1..(Len(s) - 1)
           /\ \A i \in DOMAIN Tail(s) : i + 1 \in DOMAIN s /\ Tail(s)[i] = s[i + 1]
<1> DEFINE S == {s[i] : i \in DOMAIN s}
<1>1. s \in Seq(S)
  BY DEF IsSeq
<1> HIDE DEF S
<1>2. Tail(s) \in Seq(S)
  BY <1>1
<1>3. IsSeq(Tail(s))
  BY <1>2, SeqIs, ZenonT(60), SMTT(30)
<1> QED
  BY <1>1, <1>3

-----------------------------------------------------------------------------
(* The history of versions only grows *)

Extends(l1, l2) == \A i \in DOMAIN l1 : i \in DOMAIN l2 /\ l2[i] = l1[i]

\* A version stays a version.
LEMMA VersionStays ==
    ASSUME NEW l1, NEW l2, Extends(l1, l2), NEW n \in Nat, NEW m \in Nat, n <= m,
           NEW inc, NEW seq, NEW ref
    PROVE  /\ PublishedIn(l1, inc, seq, ref) => PublishedIn(l2, inc, seq, ref)
           /\ VersionIn(l1, n, inc, seq, ref) => VersionIn(l2, m, inc, seq, ref)
<1>1. PublishedIn(l1, inc, seq, ref) => PublishedIn(l2, inc, seq, ref)
  BY DEF Extends, PublishedIn
<1>2. \A i \in Incs : i \in Nat
  BY BoundAssumption DEF Incs
<1> QED
  BY <1>1, <1>2 DEF VersionIn

\* The directory of a version is one of those published.
LEMMA VersionRef ==
    ASSUME NEW lg, NEW inc, NEW seq, NEW ref, PublishedIn(lg, inc, seq, ref)
    PROVE  ref \in Refs(lg)
BY DEF PublishedIn, Refs

\* The directories published stay published.
LEMMA RefsStay ==
    ASSUME NEW l1, NEW l2, Extends(l1, l2)
    PROVE  Refs(l1) \subseteq Refs(l2)
BY DEF Extends, Refs

\* What the ranks hold stays valid.
LEMMA RootsStay ==
    ASSUME NEW l1, NEW l2, Extends(l1, l2), NEW n \in Nat, NEW m \in Nat, n <= m,
           NEW rt, RootsOK(rt, l1, n)
    PROVE  RootsOK(rt, l2, m)
<1>1. Refs(l1) \subseteq Refs(l2)
  BY RefsStay
<1>2. rt \in [Ranks -> [st : {"none", "up", "removed"}, ref : Refs(l2), seq : Nat, inc : Nat]]
  BY <1>1 DEF RootsOK
<1> QED
  BY <1>2, VersionStays DEF RootsOK

\* What the clients were told stays valid.
LEMMA RespsStay ==
    ASSUME NEW l1, NEW l2, Extends(l1, l2), NEW rs, RespsOK(rs, l1)
    PROVE  RespsOK(rs, l2)
<1>1. Refs(l1) \subseteq Refs(l2)
  BY RefsStay
<1>2. rs \in [Requests -> [st : Answers, seq : Nat, ref : Refs(l2), n : Nat]]
  BY <1>1 DEF RespsOK
<1>3. \A inc, seq, ref : PublishedIn(l1, inc, seq, ref) => PublishedIn(l2, inc, seq, ref)
  BY DEF Extends, PublishedIn
<1> QED
  BY <1>2, <1>3 DEF RespsOK

\* What is under way to a rank stays valid.
LEMMA BoxStays ==
    ASSUME NEW l1, NEW l2, Extends(l1, l2), NEW n \in Nat, NEW m \in Nat, n <= m,
           NEW s, BoxOK(s, l1, n)
    PROVE  BoxOK(s, l2, m)
BY VersionStays DEF BoxOK, GoodMessage

-----------------------------------------------------------------------------
(* Answers *)

\* A client answered with a published version knows a published version.
LEMMA AnsweredOK ==
    ASSUME NEW lg, NEW rs, RespsOK(rs, lg), NEW S, NEW seq \in Nat, NEW inc \in Incs, NEW ref,
           PublishedIn(lg, inc, seq, ref)
    PROVE  RespsOK(Answered(rs, S, "ok", seq, ref), lg)
<1>1. ref \in Refs(lg)
  BY VersionRef
<1>2. Answered(rs, S, "ok", seq, ref)
        \in [Requests -> [st : Answers, seq : Nat, ref : Refs(lg), n : Nat]]
  BY <1>1 DEF RespsOK, Answered, Answers
<1>3. ASSUME NEW q \in Requests
      PROVE  IF q \in S THEN /\ Answered(rs, S, "ok", seq, ref)[q].seq = seq
                             /\ Answered(rs, S, "ok", seq, ref)[q].ref = ref
             ELSE Answered(rs, S, "ok", seq, ref)[q] = rs[q]
  BY DEF Answered
<1> QED
  BY <1>2, <1>3 DEF RespsOK

\* An error carries no version.
LEMMA FailOK ==
    ASSUME NEW lg, NEW rs, RespsOK(rs, lg), NEW S
    PROVE  RespsOK(Fail(rs, S), lg)
<1>1. EmptyDir \in Refs(lg)
  BY DEF Refs
<1>2. Fail(rs, S) \in [Requests -> [st : Answers, seq : Nat, ref : Refs(lg), n : Nat]]
  BY <1>1 DEF RespsOK, Answered, Answers, Fail
<1>3. ASSUME NEW q \in Requests
      PROVE  IF q \in S THEN Fail(rs, S)[q].st = "err" ELSE Fail(rs, S)[q] = rs[q]
  BY DEF Answered, Fail
<1> QED
  BY <1>2, <1>3 DEF RespsOK

\* A request that is relayed, held or dropped has no answer.
LEMMA MarkOK ==
    ASSUME NEW lg, RespsOK(resp, lg), NEW q, NEW what \in {"sent", "waiting", "gone"}
    PROVE  RespsOK(Mark(q, what), lg)
<1>1. Mark(q, what) \in [Requests -> [st : Answers, seq : Nat, ref : Refs(lg), n : Nat]]
  BY ZenonT(60), SMTT(30) DEF RespsOK, Mark, Answers
<1>2. ASSUME NEW p \in Requests
      PROVE  IF p = q THEN Mark(q, what)[p].st = what ELSE Mark(q, what)[p] = resp[p]
  BY DEF RespsOK, Mark
<1> QED
  BY <1>1, <1>2 DEF RespsOK

\* setroot leaves the other ranks alone; r takes the version or stays.
SetTo(r, inc, seq) ==
    /\ \A p \in Ranks : p # r => root'[p] = root[p]
    /\ \/ root'[r] = root[r]
       \/ /\ root'[r].st = "up" /\ root'[r].inc = inc /\ root'[r].seq = seq
          /\ seq = 0 \/ seq > root[r].seq

\* setroot: the root stays or is the new version, which is no step back except
\* to a version 0.
LEMMA SetRootOK ==
    ASSUME NEW lg, NEW n, RootsOK(root, lg, n), NEW rs, RespsOK(rs, lg),
           NEW r \in Ranks, NEW ref, NEW seq \in Nat, NEW inc, VersionIn(lg, n, inc, seq, ref),
           SetRoot(r, rs, ref, seq, inc)
    PROVE  /\ RootsOK(root', lg, n)
           /\ RespsOK(resp', lg)
           /\ SetTo(r, inc, seq)
<1>1. inc \in Incs /\ inc \in Nat /\ PublishedIn(lg, inc, seq, ref)
  BY BoundAssumption DEF VersionIn, Incs
<1>2. RespsOK(Answered(rs, {q \in WaitersOf(r) : Req[q].seq <= seq}, "ok", seq, ref), lg)
  BY <1>1, AnsweredOK
<1>3. RespsOK(resp', lg)
  BY <1>2 DEF SetRoot
<1>4. CASE root' = root
  BY <1>3, <1>4 DEF SetTo
<1>5. CASE /\ root' = [root EXCEPT ![r] = [st |-> "up", ref |-> ref, seq |-> seq, inc |-> inc]]
           /\ seq = 0 \/ seq > root[r].seq
  <2>1. ref \in Refs(lg)
    BY <1>1, VersionRef
  <2>2. /\ \A p \in Ranks : p # r => root'[p] = root[p]
        /\ root'[r].st = "up" /\ root'[r].inc = inc
        /\ root'[r].seq = seq /\ root'[r].ref = ref
    BY <1>5 DEF RootsOK
  <2>3. root' \in [Ranks -> [st : {"none", "up", "removed"}, ref : Refs(lg), seq : Nat, inc : Nat]]
    BY <1>1, <1>5, <2>1 DEF RootsOK
  <2>4. \A p \in Ranks : root'[p].st # "none" =>
            VersionIn(lg, n, root'[p].inc, root'[p].seq, root'[p].ref)
    BY <2>2 DEF RootsOK
  <2> QED
    BY <1>3, <1>5, <2>2, <2>3, <2>4 DEF RootsOK, SetTo
<1> QED
  BY <1>4, <1>5 DEF SetRoot

-----------------------------------------------------------------------------
(* Queues *)

\* A valid message may be queued.
LEMMA BoxAppend ==
    ASSUME NEW s, NEW lg, NEW n, BoxOK(s, lg, n), NEW e, GoodMessage(e, lg, n)
    PROVE  BoxOK(Append(s, e), lg, n)
BY SeqAppend DEF BoxOK

\* The head of a valid queue is valid, and so is the rest.
LEMMA BoxTail ==
    ASSUME NEW s, NEW lg, NEW n, BoxOK(s, lg, n), s # <<>>
    PROVE  BoxOK(Tail(s), lg, n) /\ GoodMessage(Head(s), lg, n)
BY SeqTail DEF BoxOK

\* A message that carries no version 0 may go to the KVS of any rank.
LEMMA FitsAppend ==
    ASSUME NEW r, NEW rt, NEW s, IsSeq(s), FitsBox(r, rt, s), NEW e, ~Resets(e)
    PROVE  FitsBox(r, rt, Append(s, e))
<1> DEFINE t == Append(s, e)
<1>1. /\ Len(s) \in Nat /\ DOMAIN s = 1..Len(s) /\ DOMAIN t = 1..(Len(s) + 1)
      /\ \A i \in DOMAIN s : t[i] = s[i]
      /\ t[Len(s) + 1] = e
  BY SeqAppend
<1> HIDE DEF t
<1>2. SUFFICES ASSUME NEW k \in DOMAIN t, Resets(t[k])
               PROVE  /\ r # Leader
                      /\ rt.st = "up" /\ rt.inc = t[k].inc => rt.seq = 0
                      /\ \A i \in 1..(k - 1) : Older(t[i], t[k].inc)
  BY DEF FitsBox, t
<1>3. k \in DOMAIN s /\ \A i \in 1..(k - 1) : i \in DOMAIN s /\ t[i] = s[i]
  BY <1>1, <1>2
<1>4. Resets(s[k]) /\ t[k] = s[k]
  BY <1>1, <1>2, <1>3
<1> QED
  BY <1>3, <1>4 DEF FitsBox

\* A message may go to the broker of a rank if it carries no version 0, or if
\* nothing later is at the rank or before it.
LEMMA WireAppend ==
    ASSUME NEW rt, NEW s, NEW t, IsSeq(t), FitsWire(rt, s, t), NEW e,
           Resets(e) => /\ rt.st = "up" /\ rt.inc = e.inc => rt.seq = 0
                        /\ \A i \in DOMAIN s : Older(s[i], e.inc)
                        /\ \A i \in DOMAIN t : Older(t[i], e.inc)
    PROVE  FitsWire(rt, s, Append(t, e))
<1> DEFINE u == Append(t, e)
<1>1. /\ Len(t) \in Nat /\ DOMAIN t = 1..Len(t) /\ DOMAIN u = 1..(Len(t) + 1)
      /\ \A i \in DOMAIN t : u[i] = t[i]
      /\ u[Len(t) + 1] = e
  BY SeqAppend
<1> HIDE DEF u
<1>2. SUFFICES ASSUME NEW k \in DOMAIN u, Resets(u[k])
               PROVE  /\ rt.st = "up" /\ rt.inc = u[k].inc => rt.seq = 0
                      /\ \A i \in DOMAIN s : Older(s[i], u[k].inc)
                      /\ \A i \in 1..(k - 1) : Older(u[i], u[k].inc)
  BY DEF FitsWire, u
<1>3. \A i \in 1..(k - 1) : i \in DOMAIN t /\ u[i] = t[i]
  BY <1>1, <1>2
<1>4. CASE k = Len(t) + 1
  <2>1. u[k] = e
    BY <1>1, <1>4
  <2> QED
    BY <1>2, <1>3, <2>1, SMTT(20), ZenonT(60), SMTT(30)
<1>5. CASE k # Len(t) + 1
  <2>1. k \in DOMAIN t /\ u[k] = t[k]
    BY <1>1, <1>2, <1>5
  <2> QED
    BY <1>2, <1>3, <2>1 DEF FitsWire
<1> QED
  BY <1>4, <1>5

\* The head of a queue is handled, and the root stays, goes or becomes the one
\* that the head carries.
LEMMA FitsTail ==
    ASSUME NEW r, NEW rt, NEW s, IsSeq(s), s # <<>>, FitsBox(r, rt, s), NEW rt2,
           \/ rt2 = rt
           \/ rt2.st # "up"
           \/ Carries(Head(s)) /\ rt2.inc = Head(s).inc /\ rt2.seq = Head(s).seq
    PROVE  FitsBox(r, rt2, Tail(s))
<1> DEFINE t == Tail(s)
<1>1. /\ DOMAIN s = 1..Len(s) /\ Len(s) \in Nat /\ 1 \in DOMAIN s /\ Head(s) = s[1]
      /\ DOMAIN t = 1..(Len(s) - 1)
      /\ \A i \in DOMAIN t : i + 1 \in DOMAIN s /\ t[i] = s[i + 1]
  BY SeqTail
<1> HIDE DEF t
<1>2. SUFFICES ASSUME NEW k \in DOMAIN t, Resets(t[k])
               PROVE  /\ r # Leader
                      /\ rt2.st = "up" /\ rt2.inc = t[k].inc => rt2.seq = 0
                      /\ \A i \in 1..(k - 1) : Older(t[i], t[k].inc)
  BY DEF FitsBox, t
<1>3. k \in Nat /\ k + 1 \in DOMAIN s /\ t[k] = s[k + 1] /\ 1 \in 1..((k + 1) - 1)
  BY <1>1, <1>2
<1>4. /\ r # Leader
      /\ rt.st = "up" /\ rt.inc = t[k].inc => rt.seq = 0
      /\ \A i \in 1..((k + 1) - 1) : Older(s[i], t[k].inc)
  BY <1>2, <1>3 DEF FitsBox
<1>5. \A i \in 1..(k - 1) : i + 1 \in 1..((k + 1) - 1) /\ t[i] = s[i + 1]
  BY <1>1, <1>2, <1>3, SMTT(20), ZenonT(60), SMTT(30)
<1>6. Older(Head(s), t[k].inc)
  BY <1>1, <1>3, <1>4
<1> QED
  BY <1>4, <1>5, <1>6 DEF Older

\* The same, for what the broker has still to deliver.
LEMMA WireTail ==
    ASSUME NEW rt, NEW s, IsSeq(s), s # <<>>, NEW t, FitsWire(rt, s, t), NEW rt2,
           \/ rt2 = rt
           \/ rt2.st # "up"
           \/ Carries(Head(s)) /\ rt2.inc = Head(s).inc /\ rt2.seq = Head(s).seq
    PROVE  FitsWire(rt2, Tail(s), t)
<1>1. /\ 1 \in DOMAIN s /\ Head(s) = s[1]
      /\ \A i \in DOMAIN Tail(s) : i + 1 \in DOMAIN s /\ Tail(s)[i] = s[i + 1]
  BY SeqTail
<1>2. SUFFICES ASSUME NEW k \in DOMAIN t, Resets(t[k])
               PROVE  /\ rt2.st = "up" /\ rt2.inc = t[k].inc => rt2.seq = 0
                      /\ \A i \in DOMAIN Tail(s) : Older(Tail(s)[i], t[k].inc)
                      /\ \A i \in 1..(k - 1) : Older(t[i], t[k].inc)
  BY DEF FitsWire
<1>3. /\ rt.st = "up" /\ rt.inc = t[k].inc => rt.seq = 0
      /\ \A i \in DOMAIN s : Older(s[i], t[k].inc)
      /\ \A i \in 1..(k - 1) : Older(t[i], t[k].inc)
  BY <1>2 DEF FitsWire
<1>4. Older(Head(s), t[k].inc)
  BY <1>1, <1>3
<1>5. \A i \in DOMAIN Tail(s) : Older(Tail(s)[i], t[k].inc)
  BY <1>1, <1>3
<1> QED
  BY <1>3, <1>4, <1>5 DEF Older

\* A broker delivers the first message, or drops it.
LEMMA WireMove ==
    ASSUME NEW r, r # Leader, NEW rt, NEW s, IsSeq(s), NEW t, IsSeq(t), t # <<>>,
           FitsBox(r, rt, s), FitsWire(rt, s, t)
    PROVE  /\ FitsBox(r, rt, Append(s, Head(t)))
           /\ FitsWire(rt, Append(s, Head(t)), Tail(t))
           /\ FitsWire(rt, s, Tail(t))
<1> DEFINE e == Head(t)
           s2 == Append(s, e)
           u == Tail(t)
<1>1. /\ Len(s) \in Nat /\ DOMAIN s = 1..Len(s) /\ DOMAIN s2 = 1..(Len(s) + 1)
      /\ \A i \in DOMAIN s : s2[i] = s[i]
      /\ s2[Len(s) + 1] = e
  BY SeqAppend
<1>2. /\ DOMAIN t = 1..Len(t) /\ Len(t) \in Nat /\ 1 \in DOMAIN t /\ e = t[1]
      /\ DOMAIN u = 1..(Len(t) - 1)
      /\ \A i \in DOMAIN u : i + 1 \in DOMAIN t /\ u[i] = t[i + 1]
  BY SeqTail
<1> HIDE DEF e, s2, u
<1>3. Resets(e) => /\ rt.st = "up" /\ rt.inc = e.inc => rt.seq = 0
                   /\ \A i \in DOMAIN s : Older(s[i], e.inc)
  BY <1>2 DEF FitsWire
<1>4. FitsBox(r, rt, s2)
  <2>1. SUFFICES ASSUME NEW k \in DOMAIN s2, Resets(s2[k])
                 PROVE  /\ rt.st = "up" /\ rt.inc = s2[k].inc => rt.seq = 0
                        /\ \A i \in 1..(k - 1) : Older(s2[i], s2[k].inc)
    BY DEF FitsBox
  <2>2. \A i \in 1..(k - 1) : i \in DOMAIN s /\ s2[i] = s[i]
    BY <1>1, <2>1
  <2>3. CASE k = Len(s) + 1
    BY <1>1, <1>3, <2>1, <2>2, <2>3
  <2>4. CASE k # Len(s) + 1
    <3>1. k \in DOMAIN s /\ s2[k] = s[k]
      BY <1>1, <2>1, <2>4
    <3> QED
      BY <2>1, <2>2, <3>1 DEF FitsBox
  <2> QED
    BY <2>3, <2>4
<1>5. ASSUME NEW k \in DOMAIN u, Resets(u[k])
      PROVE  /\ rt.st = "up" /\ rt.inc = u[k].inc => rt.seq = 0
             /\ \A i \in DOMAIN s : Older(s[i], u[k].inc)
             /\ \A i \in 1..(k - 1) : Older(u[i], u[k].inc)
             /\ Older(e, u[k].inc)
  <2>1. k \in Nat /\ k + 1 \in DOMAIN t /\ u[k] = t[k + 1] /\ 1 \in 1..((k + 1) - 1)
    BY <1>2, <1>5
  <2>2. /\ rt.st = "up" /\ rt.inc = u[k].inc => rt.seq = 0
        /\ \A i \in DOMAIN s : Older(s[i], u[k].inc)
        /\ \A i \in 1..((k + 1) - 1) : Older(t[i], u[k].inc)
    BY <1>5, <2>1 DEF FitsWire
  <2>3. \A i \in 1..(k - 1) : i + 1 \in 1..((k + 1) - 1) /\ u[i] = t[i + 1]
    BY <1>2, <1>5, <2>1, SMTT(20), ZenonT(60), SMTT(30)
  <2> QED
    BY <1>2, <2>1, <2>2, <2>3
<1>6. FitsWire(rt, s, u)
  BY <1>5 DEF FitsWire
<1>7. \A i \in DOMAIN s2 : s2[i] = e \/ (i \in DOMAIN s /\ s2[i] = s[i])
  BY <1>1
<1>8. FitsWire(rt, s2, u)
  BY <1>5, <1>7 DEF FitsWire
<1> QED
  BY <1>4, <1>6, <1>8 DEF e, s2, u

-----------------------------------------------------------------------------
(* What is under way to the ranks *)

\* The root goes, or is the leader's.
LEMMA PipeRoot ==
    ASSUME NEW r, NEW rt, NEW s, NEW t, NEW lg, NEW n, Pipe(r, rt, s, t, lg, n), NEW rt2,
           rt2 = rt \/ rt2.st # "up" \/ (r = Leader /\ t = <<>>)
    PROVE  Pipe(r, rt2, s, t, lg, n)
<1>1. t = <<>> => DOMAIN t = {}
  OBVIOUS
<1> QED
  BY <1>1 DEF Pipe, FitsBox, FitsWire

\* The history grows.
LEMMA PipeStays ==
    ASSUME NEW l1, NEW l2, Extends(l1, l2), NEW n \in Nat, NEW m \in Nat, n <= m,
           NEW r, NEW rt, NEW s, NEW t, Pipe(r, rt, s, t, l1, n)
    PROVE  Pipe(r, rt, s, t, l2, m)
<1>1. BoxOK(s, l1, n) /\ BoxOK(t, l1, n)
  BY DEF Pipe
<1>2. BoxOK(s, l2, m) /\ BoxOK(t, l2, m)
  BY <1>1, BoxStays
<1> QED
  BY <1>2 DEF Pipe

\* The leader's KVS gets an event.
LEMMA PipeBox ==
    ASSUME NEW r, NEW rt, NEW s, NEW lg, NEW n, Pipe(r, rt, s, <<>>, lg, n), NEW e,
           GoodMessage(e, lg, n), ~Resets(e)
    PROVE  Pipe(r, rt, Append(s, e), <<>>, lg, n)
<1>1. BoxOK(s, lg, n) /\ IsSeq(s)
  BY DEF Pipe, BoxOK
<1>2. BoxOK(Append(s, e), lg, n)
  BY <1>1, BoxAppend
<1>3. r \in NextToLeader => FitsBox(r, rt, Append(s, e))
  BY <1>1, FitsAppend DEF Pipe
<1>4. FitsWire(rt, Append(s, e), <<>>)
  BY DEF FitsWire
<1> QED
  BY <1>2, <1>3, <1>4 DEF Pipe

\* A broker gets a message on its wire.
LEMMA PipeWire ==
    ASSUME NEW r, NEW rt, NEW s, NEW t, NEW lg, NEW n, Pipe(r, rt, s, t, lg, n), NEW e,
           GoodMessage(e, lg, n), ~Resets(e) \/ r \notin NextToLeader
    PROVE  Pipe(r, rt, s, Append(t, e), lg, n)
<1>1. BoxOK(s, lg, n) /\ BoxOK(t, lg, n) /\ IsSeq(t)
  BY DEF Pipe, BoxOK
<1>2. BoxOK(Append(t, e), lg, n)
  BY <1>1, BoxAppend
<1>3. r \in NextToLeader => FitsBox(r, rt, s) /\ FitsWire(rt, s, Append(t, e))
  BY <1>1, WireAppend DEF Pipe
<1> QED
  BY <1>1, <1>2, <1>3 DEF Pipe

\* The leader answers a getroot with a version 0: it has published nothing of
\* the incarnation yet, so nothing of it is under way to the follower or there.
LEMMA PipeFresh ==
    ASSUME NEW r, NEW rt, NEW s, NEW t, NEW lg, NEW n, Pipe(r, rt, s, t, lg, n), NEW e,
           GoodMessage(e, lg, n),
           rt.st = "up" => VersionIn(lg, n, rt.inc, rt.seq, rt.ref),
           \A i \in DOMAIN lg : lg[i].inc # e.inc
    PROVE  Pipe(r, rt, s, Append(t, e), lg, n)
<1>1. BoxOK(s, lg, n) /\ BoxOK(t, lg, n) /\ IsSeq(t)
  BY DEF Pipe, BoxOK
<1>2. BoxOK(Append(t, e), lg, n)
  BY <1>1, BoxAppend
<1>3. rt.st = "up" /\ rt.inc = e.inc => rt.seq = 0
  BY DEF VersionIn, PublishedIn
<1>4. \A i \in DOMAIN s : Older(s[i], e.inc)
  BY <1>1 DEF BoxOK, GoodMessage, VersionIn, PublishedIn, Older
<1>5. \A i \in DOMAIN t : Older(t[i], e.inc)
  BY <1>1, SMTT(20), SMTT(30), ZenonT(60), SMTT(60)
     DEF BoxOK, GoodMessage, VersionIn, PublishedIn, Older
<1>6. r \in NextToLeader => FitsBox(r, rt, s) /\ FitsWire(rt, s, Append(t, e))
  BY <1>1, <1>3, <1>4, <1>5, WireAppend, SMTT(20), SMTT(30), ZenonT(60), SMTT(60) DEF Pipe
<1> QED
  BY <1>1, <1>2, <1>6 DEF Pipe

\* A KVS handles its first message.
LEMMA PipeTake ==
    ASSUME NEW r, NEW rt, NEW s, NEW t, NEW lg, NEW n, Pipe(r, rt, s, t, lg, n), s # <<>>, NEW rt2,
           \/ rt2 = rt
           \/ rt2.st # "up"
           \/ Carries(Head(s)) /\ rt2.inc = Head(s).inc /\ rt2.seq = Head(s).seq
    PROVE  Pipe(r, rt2, Tail(s), t, lg, n)
<1>1. BoxOK(s, lg, n) /\ BoxOK(t, lg, n) /\ IsSeq(s)
  BY DEF Pipe, BoxOK
<1>2. BoxOK(Tail(s), lg, n)
  BY <1>1, BoxTail
<1>3. r \in NextToLeader => FitsBox(r, rt2, Tail(s)) /\ FitsWire(rt2, Tail(s), t)
  BY <1>1, FitsTail, WireTail DEF Pipe
<1> QED
  BY <1>1, <1>2, <1>3 DEF Pipe

\* A broker delivers or drops its first message.
LEMMA PipeMove ==
    ASSUME NEW r, r # Leader, NEW rt, NEW s, NEW t, NEW lg, NEW n, Pipe(r, rt, s, t, lg, n), t # <<>>
    PROVE  /\ Pipe(r, rt, Append(s, Head(t)), Tail(t), lg, n)
           /\ Pipe(r, rt, s, Tail(t), lg, n)
           /\ GoodMessage(Head(t), lg, n)
<1>1. BoxOK(s, lg, n) /\ BoxOK(t, lg, n) /\ IsSeq(s) /\ IsSeq(t)
  BY DEF Pipe, BoxOK
<1>2. BoxOK(Tail(t), lg, n) /\ GoodMessage(Head(t), lg, n)
  BY <1>1, BoxTail
<1>3. BoxOK(Append(s, Head(t)), lg, n)
  BY <1>1, <1>2, BoxAppend
<1>4. r \in NextToLeader => /\ FitsBox(r, rt, s)
                            /\ FitsBox(r, rt, Append(s, Head(t)))
                            /\ FitsWire(rt, Append(s, Head(t)), Tail(t))
                            /\ FitsWire(rt, s, Tail(t))
  BY <1>1, WireMove DEF Pipe
<1> QED
  BY <1>1, <1>2, <1>3, <1>4 DEF Pipe

\* A message is put on the wire of one follower.
LEMMA PipesWire ==
    ASSUME NEW rt, NEW ib, NEW w, NEW lg, NEW n, Pipes(rt, ib, w, lg, n),
           NEW c \in Followers, NEW e, Pipe(c, rt[c], ib[c], Append(w[c], e), lg, n)
    PROVE  Pipes(rt, ib, [w EXCEPT ![c] = Append(@, e)], lg, n)
<1> DEFINE w2 == [w EXCEPT ![c] = Append(@, e)]
<1>1. /\ w = [r \in Followers |-> w[r]]
      /\ ib = [r \in Ranks |-> ib[r]]
      /\ \A r \in Ranks : Pipe(r, rt[r], ib[r], WireOf(w, r), lg, n)
  BY DEF Pipes
<1>2. /\ w2 = [r \in Followers |-> w2[r]]
      /\ w2[c] = Append(w[c], e)
      /\ \A r \in Followers : r # c => w2[r] = w[r]
  BY <1>1, ZenonT(60), SMTT(30)
<1> HIDE DEF w2
<1>3. \A r \in Ranks : r # c => WireOf(w2, r) = WireOf(w, r)
  BY <1>2 DEF WireOf, Ranks
<1>4. WireOf(w2, c) = Append(w[c], e)
  BY <1>2, LeaderAssumption DEF WireOf
<1>5. \A r \in Ranks : Pipe(r, rt[r], ib[r], WireOf(w2, r), lg, n)
  BY <1>1, <1>3, <1>4, ZenonT(60), SMTT(30)
<1>6. Pipes(rt, ib, w2, lg, n)
  BY <1>1, <1>2, <1>5, ZenonT(60), SMTT(30) DEF Pipes
<1> QED
  BY <1>6 DEF w2

\* A broker sends an event other than a version 0 on to its children.
LEMMA PipesForward ==
    ASSUME NEW rt, NEW ib, NEW w, NEW lg, NEW n, Pipes(rt, ib, w, lg, n), NEW r, NEW e,
           GoodMessage(e, lg, n), ~Resets(e) \/ r # Leader
    PROVE  Pipes(rt, ib, Forward(w, r, e), lg, n)
<1> DEFINE w2 == Forward(w, r, e)
<1>1. /\ ib = [p \in Ranks |-> ib[p]]
      /\ \A p \in Ranks : Pipe(p, rt[p], ib[p], WireOf(w, p), lg, n)
  BY DEF Pipes
<1>2. /\ w2 = [p \in Followers |-> w2[p]]
      /\ \A p \in Followers : w2[p] = IF Parent[p] = r THEN Append(w[p], e) ELSE w[p]
  BY DEF Forward
<1> HIDE DEF w2
<1>3. ASSUME NEW p \in Ranks PROVE Pipe(p, rt[p], ib[p], WireOf(w2, p), lg, n)
  <2>1. CASE p = Leader
    <3>1. WireOf(w2, p) = WireOf(w, p)
      BY <2>1 DEF WireOf
    <3> QED
      BY <1>1, <3>1
  <2>2. CASE p # Leader
    <3>1. p \in Followers /\ WireOf(w2, p) = w2[p] /\ WireOf(w, p) = w[p]
      BY <2>2 DEF WireOf, Ranks
    <3>2. CASE Parent[p] = r
      <4>1. ~Resets(e) \/ p \notin NextToLeader
        BY <2>2, <3>2 DEF NextToLeader
      <4>2. Pipe(p, rt[p], ib[p], w[p], lg, n)
        BY <1>1, <3>1
      <4>3. Pipe(p, rt[p], ib[p], Append(w[p], e), lg, n)
        BY <4>1, <4>2, PipeWire
      <4> QED
        BY <1>2, <3>1, <3>2, <4>3, ZenonT(60), SMTT(30)
    <3>3. CASE Parent[p] # r
      BY <1>1, <1>2, <3>1, <3>3
    <3> QED
      BY <3>2, <3>3
  <2> QED
    BY <2>1, <2>2
<1>4. Pipes(rt, ib, w2, lg, n)
  BY <1>1, <1>2, <1>3, ZenonT(60), SMTT(30) DEF Pipes
<1> QED
  BY <1>4 DEF w2

-----------------------------------------------------------------------------
(* Requests *)

\* A root in use is a version of an incarnation that was created.
LEMMA UpVersion ==
    ASSUME Inv, NEW r \in Ranks, root[r].st = "up"
    PROVE  /\ root[r].seq \in Nat /\ root[r].inc \in Incs /\ root[r].inc <= used.creates
           /\ PublishedIn(log, root[r].inc, root[r].seq, root[r].ref)
BY ZenonT(60), SMTT(30) DEF Inv, RootsOK, VersionIn

\* Whichever handler takes a request, the client learns of a published version
\* or of none, the roots stay, and the leader has a transaction only for a root.
LEMMA HandleOK ==
    ASSUME Inv, NEW q, Handle(q)
    PROVE  /\ RespsOK(resp', log)
           /\ UNCHANGED root
           /\ root[Leader].st = "none" => ready' = ready
<1> DEFINE r == Req[q].rank
<1>1. RespsOK(resp, log)
  BY ZenonT(60), SMTT(30) DEF Inv
<1>2. CASE NoRootHere(q, r)
  <2>1. RespsOK(Fail(resp, {q}), log) /\ RespsOK(Mark(q, "sent"), log)
    BY <1>1, FailOK, MarkOK, SMTT(20), ZenonT(60), SMTT(30)
  <2> QED
    BY <1>2, <2>1 DEF NoRootHere
<1>3. CASE root[r].st = "up" /\ CommitHere(q, r)
  <2>1. RespsOK(Mark(q, "sent"), log)
    BY <1>1, MarkOK
  <2>2. root[Leader].st = "none" => ready' = ready
    BY <1>3, SMTT(20), ZenonT(60), SMTT(30) DEF CommitHere
  <2> QED
    BY <1>3, <2>1, <2>2 DEF CommitHere
<1>4. CASE root[r].st = "up" /\ FenceHere(q, r)
  <2>1. RespsOK(Mark(q, "sent"), log)
    BY <1>1, MarkOK
  <2>2. root[Leader].st = "none" => ready' = ready
    BY <1>4, SMTT(20), SMTT(30), ZenonT(60), SMTT(60) DEF FenceHere
  <2> QED
    BY <1>4, <2>1, <2>2 DEF FenceHere
<1>5. ASSUME root[r].st = "up", q \in Requests
      PROVE  RespsOK(Answered(resp, {q}, "ok", root[r].seq, root[r].ref), log)
  <2>1. r \in Ranks
    BY <1>5, RanksAssumption
  <2> QED
    BY <1>1, <1>5, <2>1, UpVersion, AnsweredOK
<1>6. q \notin Requests => \A seq, ref : Answered(resp, {q}, "ok", seq, ref) = resp
  BY <1>1, ZenonT(60), SMTT(30) DEF RespsOK, Answered
<1>7. CASE root[r].st = "up" /\ WaitHere(q, r)
  <2>1. RespsOK(Mark(q, "waiting"), log)
    BY <1>1, MarkOK
  <2> QED
    BY <1>1, <1>5, <1>6, <1>7, <2>1 DEF WaitHere
<1>8. CASE root[r].st = "up" /\ LookupHere(q, r)
  <2> DEFINE new == [resp[q] EXCEPT !.st = "loading", !.seq = root[r].seq, !.ref = root[r].ref]
  <2>1. UNCHANGED <<root, ready>>
    BY <1>8 DEF LookupHere
  <2>2. \/ resp' = Answered(resp, {q}, "ok", root[r].seq, root[r].ref)
        \/ resp' = [resp EXCEPT ![q] = new]
    BY <1>8 DEF LookupHere
  <2>3. CASE q \notin Requests
    <3>1. [resp EXCEPT ![q] = new] = resp
      BY <1>1, <2>3, ZenonT(60), SMTT(30) DEF RespsOK
    <3> QED
      BY <1>1, <1>6, <2>1, <2>2, <2>3, <3>1
  <2>4. CASE q \in Requests
    <3>1. r \in Ranks
      BY <2>4, RanksAssumption, SMTT(20), SMTT(30), ZenonT(60), SMTT(60)
    <3>2. /\ root[r].seq \in Nat /\ root[r].inc \in Incs
          /\ PublishedIn(log, root[r].inc, root[r].seq, root[r].ref)
      BY <1>8, <3>1, UpVersion
    <3>3. root[r].ref \in Refs(log)
      BY <3>2, VersionRef, ZenonT(60), SMTT(30)
    <3>4. /\ new \in [st : Answers, seq : Nat, ref : Refs(log), n : Nat]
          /\ new.seq = root[r].seq /\ new.ref = root[r].ref
      BY <1>1, <2>4, <3>2, <3>3, ZenonT(60), SMTT(30) DEF RespsOK, Answers
    <3> HIDE DEF new
    <3>5. RespsOK([resp EXCEPT ![q] = new], log)
      BY <1>1, <2>4, <3>2, <3>4, SMTT(20), SMTT(30), ZenonT(60), SMTT(60) DEF RespsOK
    <3> QED
      BY <1>5, <1>8, <2>1, <2>2, <2>4, <3>5
  <2> QED
    BY <2>3, <2>4
<1> QED
  BY <1>2, <1>3, <1>4, <1>7, <1>8 DEF Handle

\* A step that leaves the roots, the queues and the history alone.
LEMMA QuietStep ==
    ASSUME Inv, RespsOK(resp', log), UNCHANGED <<root, inbox, wire, log, used>>,
           root[Leader].st = "none" => ready' = ready
    PROVE  Inv'
BY DEF Inv

\* A client's request, the replay of a lookup and a disconnect keep Inv.
LEMMA RequestStep ==
    ASSUME Inv, NEW q \in Requests, Request(q) \/ LookupReplay(q) \/ Disconnect(q)
    PROVE  Inv' /\ UNCHANGED root
<1>1. RespsOK(resp, log)
  BY SMTT(20), ZenonT(60), SMTT(30) DEF Inv
<1>2. CASE Request(q)
  BY <1>2, HandleOK, QuietStep, SMTT(20), SMTT(30), ZenonT(60), SMTT(60) DEF Request
<1>3. CASE LookupReplay(q)
  <2>1. RespsOK(Fail(resp, {q}), log)
    BY <1>1, FailOK, ZenonT(60), SMTT(30)
  <2>2. PICK inc \in Incs : PublishedIn(log, inc, resp[q].seq, resp[q].ref)
    BY <1>1, <1>3, ZenonT(60), SMTT(30) DEF LookupReplay, RespsOK
  <2>3. RespsOK(Answered(resp, {q}, "ok", resp[q].seq, resp[q].ref), log)
    <3>1. resp[q].seq \in Nat
      BY <1>1, ZenonT(60), SMTT(30) DEF RespsOK
    <3> QED
      BY <1>1, <2>2, <3>1, AnsweredOK
  <2> QED
    BY <1>3, <2>1, <2>3, QuietStep DEF LookupReplay
<1>4. CASE Disconnect(q)
  <2>1. RespsOK(Mark(q, "gone"), log)
    BY <1>1, MarkOK, SMTT(20), ZenonT(60), SMTT(30)
  <2> QED
    BY <1>4, <2>1, QuietStep DEF Disconnect
<1> QED
  BY <1>2, <1>3, <1>4

-----------------------------------------------------------------------------
(* Transactions *)

\* No rank steps back within an incarnation, or only to version 0 when it is not
\* next to the leader: NeverBack is [][Advances]_vars.
Advances ==
    \A r \in Ranks :
        root[r].st = "up" /\ root'[r].st = "up" /\ root'[r].inc = root[r].inc
            => \/ root'[r].seq >= root[r].seq
               \/ r \notin NextToLeader /\ root'[r].seq = 0

\* A step that leaves the roots alone takes none of them back.
LEMMA RootSame ==
    ASSUME Inv, UNCHANGED root
    PROVE  Advances
BY DEF Inv, RootsOK, Advances

\* A new version at the end of the history.
LEMMA LogAppend ==
    ASSUME NEW lg, NEW n, LogOK(lg, n), NEW e, e.inc \in Incs, e.inc <= n, e.seq \in Nat, e.seq > 0
    PROVE  /\ LogOK(Append(lg, e), n)
           /\ Extends(lg, Append(lg, e))
           /\ PublishedIn(Append(lg, e), e.inc, e.seq, e.ref)
<1> DEFINE l2 == Append(lg, e)
<1>1. /\ Len(lg) \in Nat /\ DOMAIN lg = 1..Len(lg) /\ DOMAIN l2 = 1..(Len(lg) + 1)
      /\ \A i \in DOMAIN lg : l2[i] = lg[i]
      /\ l2[Len(lg) + 1] = e /\ IsSeq(l2)
  BY SeqAppend DEF LogOK
<1> HIDE DEF l2
<1>2. \A i \in DOMAIN l2 : l2[i] = e \/ (i \in DOMAIN lg /\ l2[i] = lg[i])
  BY <1>1
<1>3. LogOK(l2, n)
  BY <1>1, <1>2 DEF LogOK
<1>4. Extends(lg, l2) /\ Len(lg) + 1 \in DOMAIN l2
  BY <1>1 DEF Extends
<1>5. PublishedIn(l2, e.inc, e.seq, e.ref)
  BY <1>1, <1>4 DEF PublishedIn
<1> QED
  BY <1>3, <1>4, <1>5 DEF l2

\* An event other than a version 0 goes to the leader and down the tree.
LEMMA PublishOK ==
    ASSUME NEW lg, NEW n, NEW rt, Pipes(rt, inbox, wire, lg, n), NEW e, GoodMessage(e, lg, n),
           ~Resets(e), Publish(e)
    PROVE  Pipes(rt, inbox', wire', lg, n)
<1>1. Pipes(rt, inbox, wire', lg, n)
  BY PipesForward, ZenonT(60), SMTT(30) DEF Publish
<1>2. inbox' = [inbox EXCEPT ![Leader] = Append(@, e)]
  BY DEF Publish
<1>3. /\ inbox = [r \in Ranks |-> inbox[r]]
      /\ wire' = [r \in Followers |-> wire'[r]]
      /\ \A r \in Ranks : Pipe(r, rt[r], inbox[r], WireOf(wire', r), lg, n)
  BY <1>1, ZenonT(60), SMTT(30) DEF Pipes
<1>4. /\ Leader \in Ranks
      /\ inbox' = [r \in Ranks |-> inbox'[r]]
      /\ inbox'[Leader] = Append(inbox[Leader], e)
      /\ \A r \in Ranks : r # Leader => inbox'[r] = inbox[r]
  BY <1>2, <1>3, ZenonT(60), SMTT(30) DEF Ranks
<1>5. Pipe(Leader, rt[Leader], inbox'[Leader], WireOf(wire', Leader), lg, n)
  <2>1. Pipe(Leader, rt[Leader], inbox[Leader], <<>>, lg, n)
    BY <1>3, <1>4 DEF WireOf
  <2>2. Pipe(Leader, rt[Leader], Append(inbox[Leader], e), <<>>, lg, n)
    BY <2>1, PipeBox
  <2> QED
    BY <1>4, <2>2 DEF WireOf
<1>6. \A r \in Ranks : Pipe(r, rt[r], inbox'[r], WireOf(wire', r), lg, n)
  BY <1>3, <1>4, <1>5, ZenonT(60), SMTT(30)
<1> QED
  BY <1>3, <1>4, <1>6, ZenonT(60), SMTT(30) DEF Pipes

\* The roots that change go out of use or are the leader's.
LEMMA PipesRoot ==
    ASSUME NEW rt, NEW ib, NEW w, NEW lg, NEW n, Pipes(rt, ib, w, lg, n), NEW rt2,
           \A r \in Ranks : rt2[r] = rt[r] \/ rt2[r].st # "up" \/ r = Leader
    PROVE  Pipes(rt2, ib, w, lg, n)
<1>1. \A r \in Ranks : Pipe(r, rt[r], ib[r], WireOf(w, r), lg, n)
  BY ZenonT(60), SMTT(30) DEF Pipes
<1>2. \A r \in Ranks : r = Leader => WireOf(w, r) = <<>>
  BY DEF WireOf
<1>3. \A r \in Ranks : Pipe(r, rt2[r], ib[r], WireOf(w, r), lg, n)
  BY <1>1, <1>2, PipeRoot, ZenonT(60), SMTT(30)
<1> QED
  BY <1>3, ZenonT(60), SMTT(30) DEF Pipes

\* The history of versions grows.
LEMMA PipesStay ==
    ASSUME NEW l1, NEW l2, Extends(l1, l2), NEW n \in Nat, NEW m \in Nat, n <= m,
           NEW rt, NEW ib, NEW w, Pipes(rt, ib, w, l1, n)
    PROVE  Pipes(rt, ib, w, l2, m)
<1>1. \A r \in Ranks : Pipe(r, rt[r], ib[r], WireOf(w, r), l1, n)
  BY ZenonT(60), SMTT(30) DEF Pipes
<1>2. \A r \in Ranks : Pipe(r, rt[r], ib[r], WireOf(w, r), l2, m)
  BY <1>1, PipeStays, ZenonT(60), SMTT(30)
<1> QED
  BY <1>2, ZenonT(60), SMTT(30) DEF Pipes

\* The leader takes a version, records it and publishes it.
LEMMA NewVersion ==
    ASSUME Inv, root[Leader].st = "up",
           NEW n, n = used.creates, used' \in UsedType, used'.creates = n,
           NEW ref, NEW seq \in Nat, seq > 0, seq > root[Leader].seq, NEW inc \in Incs, inc <= n,
           NEW ver, ver.inc = inc, ver.seq = seq, ver.ref = ref,
           NEW ev, ev.t = "setroot", ev.inc = inc, ev.seq = seq, ev.ref = ref,
           SetRoot(Leader, resp, ref, seq, inc), log' = Append(log, ver), Publish(ev)
    PROVE  Inv' /\ Advances
<1>1. Leader \in Ranks /\ n \in Nat /\ n <= n
  BY DEF Ranks, Inv, UsedType
<1>2. /\ LogOK(log, n) /\ RootsOK(root, log, n) /\ RespsOK(resp, log)
      /\ Pipes(root, inbox, wire, log, n)
  BY ZenonT(60), SMTT(30) DEF Inv
<1>3. LogOK(log', n) /\ Extends(log, log') /\ PublishedIn(log', inc, seq, ref)
  BY <1>1, <1>2, LogAppend, ZenonT(60), SMTT(30)
<1>4. VersionIn(log', n, inc, seq, ref)
  BY <1>3, ZenonT(60), SMTT(30) DEF VersionIn
<1>5. RootsOK(root, log', n)
  BY <1>1, <1>2, <1>3, RootsStay, ZenonT(60), SMTT(30)
<1>6. RespsOK(resp, log')
  BY <1>2, <1>3, RespsStay, ZenonT(60), SMTT(30)
<1>7. Pipes(root, inbox, wire, log', n)
  BY <1>1, <1>2, <1>3, PipesStay, ZenonT(60), SMTT(30)
<1>8. /\ RootsOK(root', log', n) /\ RespsOK(resp', log')
      /\ \A p \in Ranks : p # Leader => root'[p] = root[p]
  <2>1. RootsOK(root', log', n) /\ RespsOK(resp', log') /\ SetTo(Leader, inc, seq)
    BY <1>1, <1>4, <1>5, <1>6, SetRootOK, ZenonT(60), SMTT(30)
  <2> QED
    BY <2>1, ZenonT(60), SMTT(30) DEF SetTo
<1>9. root'[Leader].st = "up" /\ root'[Leader].seq = seq /\ root'[Leader].inc = inc
  <2>1. root' = [root EXCEPT ![Leader] = [st |-> "up", ref |-> ref, seq |-> seq, inc |-> inc]]
    BY ZenonT(60), SMTT(30) DEF SetRoot
  <2> QED
    BY <1>1, <1>2, <2>1 DEF RootsOK
<1>10. Pipes(root', inbox, wire, log', n)
  BY <1>7, <1>8, PipesRoot, ZenonT(60), SMTT(30)
<1>11. GoodMessage(ev, log', n) /\ ~Resets(ev)
  <2>1. seq # 0
    BY SMTT(20), SMTT(30), SMTT(60)
  <2> QED
    BY <1>4, <2>1, ZenonT(60), SMTT(30) DEF GoodMessage, Resets
<1>12. Pipes(root', inbox', wire', log', n)
  BY <1>10, <1>11, PublishOK, ZenonT(60), SMTT(30)
<1>13. FreshOK(root'[Leader], log')
  <2>1. seq # 0
    BY SMTT(20), SMTT(30), SMTT(60)
  <2> QED
    BY <1>9, <2>1, ZenonT(60), SMTT(30) DEF FreshOK
<1>14. root'[Leader].st # "none"
  BY <1>9, ZenonT(60), SMTT(30)
<1>15. Inv'
  BY <1>3, <1>8, <1>12, <1>13, <1>14, ZenonT(60), SMTT(30) DEF Inv
<1>16. \A p \in Ranks : root[p].seq \in Nat /\ root'[p].seq \in Nat
  BY <1>2, <1>8, ZenonT(60), SMTT(30) DEF RootsOK
<1>17. Advances
  BY <1>8, <1>9, <1>16 DEF Advances
<1> QED
  BY <1>15, <1>17, ZenonT(60), SMTT(30)

\* A transaction is applied: the leader publishes the next version.
LEMMA TxnCommitted ==
    ASSUME Inv, NEW kts, TxnDone(kts, "none"), root[Leader].st = "up",
           used' \in UsedType, used'.creates = used.creates
    PROVE  Inv' /\ Advances
<1> DEFINE ref == ApplyOps(root[Leader].ref, Head(kts).ops)
           seq == root[Leader].seq + 1
           inc == root[Leader].inc
           ver == [inc |-> inc, seq |-> seq, ref |-> ref, ops |-> Head(kts).ops]
           ev == [t |-> "setroot", names |-> Head(kts).names, ref |-> ref, seq |-> seq, inc |-> inc]
<1>1. SetRoot(Leader, resp, ref, seq, inc) /\ log' = Append(log, ver) /\ Publish(ev)
  BY DEF TxnDone
<1>2. root[Leader].seq \in Nat /\ inc \in Incs /\ inc <= used.creates
  BY UpVersion DEF Ranks
<1>3. seq \in Nat /\ seq > 0 /\ seq > root[Leader].seq
  BY <1>2
<1>4. /\ ver.inc = inc /\ ver.seq = seq /\ ver.ref = ref
      /\ ev.t = "setroot" /\ ev.inc = inc /\ ev.seq = seq /\ ev.ref = ref
  BY ZenonT(60), SMTT(30)
<1> HIDE DEF ref, seq, inc, ver, ev
<1> QED
  BY <1>1, <1>2, <1>3, <1>4, NewVersion, ZenonT(60), SMTT(30)

\* A step that changes the queues only, and what the leader has to do.
LEMMA QueueStep ==
    ASSUME Inv, UNCHANGED <<root, resp, log>>,
           used' \in UsedType, used'.creates = used.creates,
           root[Leader].st # "none" \/ ready' = ready,
           Pipes(root, inbox', wire', log, used.creates)
    PROVE  Inv' /\ Advances
<1>1. Inv'
  BY DEF Inv
<1> QED
  BY <1>1, RootSame, SMTT(20), SMTT(30), ZenonT(60), SMTT(60)

\* A transaction fails, and its clients are told unless its parts are retried.
LEMMA TxnFailed ==
    ASSUME Inv, NEW kts, NEW errnum, errnum # "none", TxnDone(kts, errnum), root[Leader].st # "none",
           used' \in UsedType, used'.creates = used.creates
    PROVE  Inv' /\ Advances
<1> DEFINE ev == [t |-> "error", names |-> Head(kts).names]
<1>1. UNCHANGED <<root, resp, log>> /\ (UNCHANGED <<inbox, wire>> \/ Publish(ev))
  BY DEF TxnDone
<1>2. GoodMessage(ev, log, used.creates) /\ ~Resets(ev)
  BY DEF GoodMessage, Resets, Carries
<1>3. Pipes(root, inbox, wire, log, used.creates)
  BY ZenonT(60), SMTT(30) DEF Inv
<1> HIDE DEF ev
<1>4. Pipes(root, inbox', wire', log, used.creates)
  <2>1. CASE UNCHANGED <<inbox, wire>>
    BY <1>3, <2>1
  <2>2. CASE Publish(ev)
    BY <1>2, <1>3, <2>2, PublishOK
  <2> QED
    BY <1>1, <2>1, <2>2
<1> QED
  BY <1>1, <1>4, QueueStep, ZenonT(60), SMTT(30)

\* transaction_check_cb, and the end of the loads and stores of the head.
LEMMA TransactionStep ==
    ASSUME Inv, TransactionCheck \/ TransactionResume \/ TransactionFault
    PROVE  Inv' /\ Advances
<1>1. ready # <<>>
  BY DEF TransactionCheck, TransactionResume, TransactionFault, HeadReady
<1>2. root[Leader].st \in {"up", "removed"}
  BY <1>1 DEF Inv, RootsOK, Ranks
<1>3. /\ used' \in UsedType
      /\ used'.creates = used.creates
  BY DEF Inv, UsedType, TransactionCheck, TransactionResume, TransactionFault
<1>4. ASSUME NEW kts, TxnDone(kts, TxnResult(Head(kts))) PROVE Inv' /\ Advances
  <2>1. CASE TxnResult(Head(kts)) = "none"
    <3>1. root[Leader].st = "up"
      BY <1>2, <2>1 DEF TxnResult
    <3> QED
      BY <1>3, <1>4, <2>1, <3>1, TxnCommitted
  <2>2. CASE TxnResult(Head(kts)) # "none"
    BY <1>2, <1>3, <1>4, <2>2, TxnFailed, SMTT(20), ZenonT(60), SMTT(30)
  <2> QED
    BY <2>1, <2>2
<1>5. CASE TransactionCheck
  <2>1. CASE root[Leader].st = "up" /\ TxnStall(MergeReady(ready))
    <3>1. UNCHANGED <<root, resp, log, inbox, wire, used>>
      BY <1>5, <2>1 DEF TransactionCheck, TxnStall
    <3>2. RespsOK(resp', log)
      BY <3>1, SMTT(20), ZenonT(60), SMTT(30) DEF Inv
    <3> QED
      BY <2>1, <3>1, <3>2, QuietStep, RootSame, SMTT(20), SMTT(30), ZenonT(60), SMTT(60)
  <2> QED
    BY <1>4, <1>5, <2>1 DEF TransactionCheck
<1>6. CASE TransactionResume
  BY <1>4, <1>6, SMTT(20), ZenonT(60), SMTT(30) DEF TransactionResume
<1>7. CASE TransactionFault
  <2>1. PICK err \in {"ENOTSUP", "EIO"} : TxnDone(ready, err)
    BY <1>7, SMTT(20), SMTT(30), ZenonT(60), SMTT(60) DEF TransactionFault
  <2> QED
    BY <1>2, <1>3, <2>1, TxnFailed
<1> QED
  BY <1>5, <1>6, <1>7

-----------------------------------------------------------------------------
(* Messages *)

\* The answer to a getroot carries a version.  A version 0 may only be the
\* leader's when it goes to a rank next to the leader.
LEMMA GetrootOK ==
    ASSUME Inv, NEW c \in Followers, NEW d \in Ranks, d = Leader \/ Parent[c] = d, NEW m, NEW ch,
           GetrootRequest(c, d, m, ch)
    PROVE  Pipes(root, inbox, wire', log, used.creates)
<1> DEFINE e == [t |-> "root", q |-> m.q, via |-> m.via, ok |-> TRUE,
                 ref |-> root[d].ref, seq |-> root[d].seq, inc |-> root[d].inc]
           none == NoSuchRoot(m.q, m.via)
<1>1. \/ UNCHANGED wire
      \/ root[d].st = "up" /\ wire' = [wire EXCEPT ![c] = Append(@, e)]
      \/ wire' = [wire EXCEPT ![c] = Append(@, none)]
  BY ZenonT(60), SMTT(30) DEF GetrootRequest
<1>2. c \in Ranks /\ c # Leader
  BY LeaderAssumption, ZenonT(60), SMTT(30) DEF Ranks
<1>3. Pipes(root, inbox, wire, log, used.creates)
  BY ZenonT(60), SMTT(30) DEF Inv
<1>4. Pipe(c, root[c], inbox[c], wire[c], log, used.creates)
  BY <1>2, <1>3, ZenonT(60), SMTT(30) DEF Pipes, WireOf
<1>5. Pipe(c, root[c], inbox[c], Append(wire[c], none), log, used.creates)
  <2>1. GoodMessage(none, log, used.creates) /\ ~Resets(none)
    BY DEF GoodMessage, Resets, Carries, NoSuchRoot
  <2> QED
    BY <1>4, <2>1, PipeWire, ZenonT(60), SMTT(30)
<1>6. e.ref = root[d].ref /\ e.seq = root[d].seq /\ e.inc = root[d].inc
  BY ZenonT(60), SMTT(30)
<1> HIDE DEF e, none
<1>7. ASSUME root[d].st = "up"
      PROVE  Pipe(c, root[c], inbox[c], Append(wire[c], e), log, used.creates)
  <2>1. GoodMessage(e, log, used.creates)
    BY <1>6, <1>7, UpVersion, SMTT(20), ZenonT(60), SMTT(30) DEF GoodMessage, VersionIn
  <2>2. CASE ~Resets(e) \/ c \notin NextToLeader
    BY <1>4, <2>1, <2>2, PipeWire, ZenonT(60), SMTT(30)
  <2>3. CASE Resets(e) /\ c \in NextToLeader
    <3>1. d = Leader
      BY <1>2, <2>3, SMTT(20), SMTT(30), ZenonT(60), SMTT(60) DEF NextToLeader
    <3>2. \A i \in DOMAIN log : log[i].inc # e.inc
      BY <1>6, <1>7, <2>3, <3>1, ZenonT(60), SMTT(30) DEF Resets, Inv, FreshOK
    <3>3. root[c].st = "up" => VersionIn(log, used.creates, root[c].inc, root[c].seq, root[c].ref)
      BY <1>2 DEF Inv, RootsOK
    <3> QED
      BY <1>4, <2>1, <3>2, <3>3, PipeFresh, ZenonT(60), SMTT(30)
  <2> QED
    BY <2>2, <2>3
<1>8. CASE UNCHANGED wire
  BY <1>3, <1>8
<1>9. CASE root[d].st = "up" /\ wire' = [wire EXCEPT ![c] = Append(@, e)]
  <2>1. Pipes(root, inbox, [wire EXCEPT ![c] = Append(@, e)], log, used.creates)
    BY <1>3, <1>7, <1>9, PipesWire, ZenonT(60), SMTT(30)
  <2> QED
    BY <1>9, <2>1, SMTT(20), SMTT(30), ZenonT(60), SMTT(60)
<1>10. CASE wire' = [wire EXCEPT ![c] = Append(@, none)]
  <2>1. Pipes(root, inbox, [wire EXCEPT ![c] = Append(@, none)], log, used.creates)
    BY <1>3, <1>5, PipesWire
  <2> QED
    BY <1>10, <2>1
<1> QED
  BY <1>1, <1>8, <1>9, <1>10

\* A request that was put back at the head of the queue is handled.
LEMMA AgainStep ==
    ASSUME Inv, NEW r \in Followers, Again(r)
    PROVE  Inv' /\ Advances
<1> DEFINE m == Head(requeue[r])
<1>1. UNCHANGED <<inbox, log, used>> /\ r \in Ranks /\ used \in UsedType
  BY DEF Again, Inv, Ranks
<1>2. CASE Handle(m.q) /\ UNCHANGED wire
  <2>1. /\ RespsOK(resp', log) /\ UNCHANGED root
        /\ root[Leader].st = "none" => ready' = ready
    BY <1>2, HandleOK, SMTT(20), SMTT(30), ZenonT(60), SMTT(60)
  <2> QED
    BY <1>1, <1>2, <2>1, QuietStep, RootSame
<1>3. ASSUME NEW c \in Followers, Parent[c] = r, NEW m2, GetrootRequest(c, r, m2, chan),
             UNCHANGED <<root, ready, resp>>
      PROVE  Inv' /\ Advances
  <2>1. Pipes(root, inbox, wire', log, used.creates)
    BY <1>1, <1>3, GetrootOK, SMTT(20), SMTT(30), ZenonT(60), SMTT(60)
  <2> QED
    BY <1>1, <1>3, <2>1, QueueStep, SMTT(20), SMTT(30), ZenonT(60), SMTT(60)
<1> QED
  BY <1>2, <1>3, SMTT(20), SMTT(30), ZenonT(60), SMTT(60) DEF Again

\* The answer to a getroot, and relayed commits and fences.
LEMMA ServeStep ==
    ASSUME Inv, NEW c \in Followers, NEW d \in {Leader, Parent[c]}, Serve(c, d)
    PROVE  Inv' /\ Advances
<1>1. /\ UNCHANGED <<root, resp, log, used>>
      /\ used' \in UsedType /\ used'.creates = used.creates
  BY DEF Serve, Inv
<1>2. Pipes(root, inbox, wire, log, used.creates)
  BY ZenonT(60), SMTT(30) DEF Inv
<1>3. d \in Ranks /\ (d = Leader \/ Parent[c] = d)
  BY ParentAssumption, SMTT(20), SMTT(30), ZenonT(60), SMTT(60) DEF Ranks
<1>4. ASSUME NEW m, NEW ch, GetrootRequest(c, d, m, ch), UNCHANGED <<ready, inbox>>
      PROVE  Inv' /\ Advances
  <2>1. Pipes(root, inbox, wire', log, used.creates)
    BY <1>3, <1>4, GetrootOK
  <2> QED
    BY <1>1, <1>4, <2>1, QueueStep
<1>5. ASSUME NEW m, Relay(m) PROVE Inv' /\ Advances
  <2>1. CASE root[Leader].st = "up"
    <3>1. UNCHANGED <<inbox, wire>>
      BY <1>5, <2>1, SMTT(20), SMTT(30), ZenonT(60), SMTT(60) DEF Relay
    <3> QED
      BY <1>1, <1>2, <2>1, <3>1, QueueStep, ZenonT(60), SMTT(30)
  <2>2. CASE root[Leader].st # "up"
    <3> DEFINE e == [t |-> "error", names |-> {IF m.t = "relaycommit" THEN m.q ELSE Req[m.q].name}]
    <3>1. Publish(e) /\ UNCHANGED ready
      BY <1>5, <2>2, ZenonT(60), SMTT(30) DEF Relay
    <3>2. GoodMessage(e, log, used.creates) /\ ~Resets(e)
      BY DEF GoodMessage, Resets, Carries
    <3> HIDE DEF e
    <3>3. Pipes(root, inbox', wire', log, used.creates)
      BY <1>2, <3>1, <3>2, PublishOK, ZenonT(60), SMTT(30)
    <3> QED
      BY <1>1, <3>1, <3>3, QueueStep, ZenonT(60), SMTT(30)
  <2> QED
    BY <2>1, <2>2
<1> QED
  BY <1>4, <1>5, SMTT(20), SMTT(30), ZenonT(60), SMTT(60) DEF Serve

\* A broker passes on the first message on its wire.
LEMMA DeliverStep ==
    ASSUME Inv, NEW r \in Followers, Deliver(r)
    PROVE  Inv' /\ Advances
<1> DEFINE m == Head(wire[r])
           rest == [wire EXCEPT ![r] = Tail(@)]
           n == used.creates
<1>1. /\ wire[r] # <<>>
      /\ wire' = rest \/ wire' = Forward(rest, r, m)
      /\ inbox' = inbox \/ inbox' = [inbox EXCEPT ![r] = Append(@, m)]
      /\ UNCHANGED <<root, ready, resp, log, used>>
  BY SMTT(20), SMTT(30), ZenonT(60), SMTT(60) DEF Deliver
<1>2. r \in Ranks /\ r # Leader /\ used \in UsedType
  BY LeaderAssumption DEF Ranks, Inv
<1>3. Pipes(root, inbox, wire, log, n)
  BY ZenonT(60), SMTT(30) DEF Inv
<1>4. /\ inbox = [p \in Ranks |-> inbox[p]] /\ wire = [p \in Followers |-> wire[p]]
      /\ \A p \in Ranks : Pipe(p, root[p], inbox[p], WireOf(wire, p), log, n)
  BY <1>3, ZenonT(60), SMTT(30) DEF Pipes
<1>5. Pipe(r, root[r], inbox[r], wire[r], log, n)
  BY <1>2, <1>4, ZenonT(60), SMTT(30) DEF WireOf
<1>6. /\ Pipe(r, root[r], Append(inbox[r], m), Tail(wire[r]), log, n)
      /\ Pipe(r, root[r], inbox[r], Tail(wire[r]), log, n)
      /\ GoodMessage(m, log, n)
  BY <1>1, <1>2, <1>5, PipeMove
<1>7. /\ rest = [p \in Followers |-> rest[p]] /\ rest[r] = Tail(wire[r])
      /\ \A p \in Followers : p # r => rest[p] = wire[p]
  BY <1>4, ZenonT(60), SMTT(30)
<1> HIDE DEF m, rest, n
<1>8. /\ inbox' = [p \in Ranks |-> inbox'[p]]
      /\ inbox'[r] = inbox[r] \/ inbox'[r] = Append(inbox[r], m)
      /\ \A p \in Ranks : p # r => inbox'[p] = inbox[p]
  BY <1>1, <1>2, <1>4
<1>9. Pipes(root, inbox', rest, log, n)
  <2>1. \A p \in Ranks : p # r => WireOf(rest, p) = WireOf(wire, p)
    BY <1>7 DEF WireOf, Ranks
  <2>2. WireOf(rest, r) = Tail(wire[r])
    BY <1>2, <1>7 DEF WireOf
  <2>3. \A p \in Ranks : Pipe(p, root[p], inbox'[p], WireOf(rest, p), log, n)
    BY <1>4, <1>6, <1>8, <2>1, <2>2, ZenonT(60), SMTT(30)
  <2> QED
    BY <1>7, <1>8, <2>3, ZenonT(60), SMTT(30) DEF Pipes
<1>10. Pipes(root, inbox', wire', log, n)
  BY <1>1, <1>2, <1>6, <1>9, PipesForward, ZenonT(60), SMTT(30)
<1> QED
  BY <1>1, <1>2, <1>10, QueueStep, ZenonT(60), SMTT(30) DEF n

\* start_root_remove: the root is kept as it was, out of use.
LEMMA RemoveOK ==
    ASSUME Inv, NEW r \in Ranks, StartRootRemove(r), root[r].st = "up"
    PROVE  /\ RootsOK(root', log, used.creates)
           /\ RespsOK(resp', log)
           /\ root'[r].st = "removed"
           /\ \A p \in Ranks : p # r => root'[p] = root[p]
<1>1. root' = [root EXCEPT ![r].st = "removed"]
  BY DEF StartRootRemove
<1>2. /\ root'[r].st = "removed" /\ root'[r].seq = root[r].seq
      /\ root'[r].inc = root[r].inc /\ root'[r].ref = root[r].ref
      /\ \A p \in Ranks : p # r => root'[p] = root[p]
  BY <1>1 DEF Inv, RootsOK
<1>3. root' \in [Ranks -> [st : {"none", "up", "removed"}, ref : Refs(log), seq : Nat, inc : Nat]]
  <2>1. root \in [Ranks -> [st : {"none", "up", "removed"}, ref : Refs(log), seq : Nat, inc : Nat]]
    BY ZenonT(60), SMTT(30) DEF Inv, RootsOK
  <2> QED
    BY <1>1, <2>1
<1>4. RootsOK(root', log, used.creates)
  <2>1. \A p \in Ranks : root[p].st # "none" =>
            VersionIn(log, used.creates, root[p].inc, root[p].seq, root[p].ref)
    BY DEF Inv, RootsOK
  <2> QED
    BY <1>2, <1>3, <2>1, SMTT(20), SMTT(30), ZenonT(60), SMTT(60) DEF RootsOK
<1> DEFINE open == {n \in DOMAIN treq[r] : ~treq[r][n].processed}
           S == (IF r = Leader THEN WaitersOf(r) ELSE {}) \cup CopiesOf(r, open)
           again == IF r = Leader THEN {} ELSE WaitersOf(r)
<1>5. resp' = [q \in Requests |-> IF q \in again THEN [resp[q] EXCEPT !.st = "sent"]
                                  ELSE Fail(resp, S)[q]]
  BY Zenon DEF StartRootRemove
<1> HIDE DEF again, S
<1>6. RespsOK(resp, log) /\ RespsOK(Fail(resp, S), log)
  BY FailOK DEF Inv
<1>7. resp' \in [Requests -> [st : Answers, seq : Nat, ref : Refs(log), n : Nat]]
  BY <1>5, <1>6, ZenonT(60), SMTT(30) DEF RespsOK, Answers
<1>8. \A q \in Requests : resp'[q].st = "sent" \/ resp'[q] = Fail(resp, S)[q]
  BY <1>5, <1>6, ZenonT(60), SMTT(30) DEF RespsOK
<1>9. RespsOK(resp', log)
  BY <1>6, <1>7, <1>8, SMTT(20), ZenonT(60), SMTT(30) DEF RespsOK
<1> QED
  BY <1>2, <1>4, <1>9

\* A step that changes the root of one rank, and not to an older version, is an
\* advance.
LEMMA OneAdvances ==
    ASSUME NEW r \in Ranks, \A p \in Ranks : root[p].seq \in Nat,
           \A p \in Ranks : p # r => root'[p] = root[p],
           root[r].st = "up" /\ root'[r].st = "up" /\ root'[r].inc = root[r].inc
             => \/ root'[r].seq >= root[r].seq
                \/ r \notin NextToLeader /\ root'[r].seq = 0
    PROVE  Advances
BY SMTT(20), SMTT(30), SMTT(60) DEF Advances

\* A rank takes the head of its queue, and its root stays, goes or becomes the
\* version that the head carries.
LEMMA TakeStep ==
    ASSUME Inv, NEW r \in Ranks, inbox[r] # <<>>, inbox' = [inbox EXCEPT ![r] = Tail(@)],
           Pipes(root, inbox, wire', log, used.creates),
           UNCHANGED <<ready, log, used>>,
           RootsOK(root', log, used.creates), RespsOK(resp', log),
           \A p \in Ranks : p # r => root'[p] = root[p],
           \/ root'[r] = root[r]
           \/ root'[r].st = "removed"
           \/ /\ Carries(Head(inbox[r]))
              /\ root'[r].st = "up"
              /\ root'[r].inc = Head(inbox[r]).inc /\ root'[r].seq = Head(inbox[r]).seq
              /\ root[r].st # "up" \/ Head(inbox[r]).seq = 0 \/ Head(inbox[r]).seq > root[r].seq
    PROVE  Inv' /\ Advances
<1> DEFINE m == Head(inbox[r])
           n == used.creates
<1>1. /\ inbox = [p \in Ranks |-> inbox[p]] /\ wire' = [p \in Followers |-> wire'[p]]
      /\ \A p \in Ranks : Pipe(p, root[p], inbox[p], WireOf(wire', p), log, n)
  BY ZenonT(60), SMTT(30) DEF Pipes
<1>2. /\ inbox' = [p \in Ranks |-> inbox'[p]]
      /\ inbox'[r] = Tail(inbox[r])
      /\ \A p \in Ranks : p # r => inbox'[p] = inbox[p]
  BY <1>1, ZenonT(60), SMTT(30)
<1>3. Pipe(r, root'[r], inbox'[r], WireOf(wire', r), log, n)
  <2>1. Pipe(r, root[r], inbox[r], WireOf(wire', r), log, n)
    BY <1>1, ZenonT(60), SMTT(30)
  <2>2. \/ root'[r] = root[r]
        \/ root'[r].st # "up"
        \/ Carries(m) /\ root'[r].inc = m.inc /\ root'[r].seq = m.seq
    BY ZenonT(60), SMTT(30)
  <2> QED
    BY <1>2, <2>1, <2>2, PipeTake, ZenonT(60), SMTT(30)
<1>4. GoodMessage(m, log, n)
  <2>1. BoxOK(inbox[r], log, n)
    BY <1>1, ZenonT(60), SMTT(30) DEF Pipe
  <2> QED
    BY <2>1, BoxTail, ZenonT(60), SMTT(30)
<1>5. r \in NextToLeader /\ Resets(m)
        => r # Leader /\ (root[r].st = "up" /\ root[r].inc = m.inc => root[r].seq = 0)
  <2>1. IsSeq(inbox[r]) /\ (r \in NextToLeader => FitsBox(r, root[r], inbox[r]))
    BY <1>1, ZenonT(60), SMTT(30) DEF Pipe, BoxOK
  <2>2. 1 \in DOMAIN inbox[r] /\ m = inbox[r][1]
    BY <2>1, SeqTail, ZenonT(60), SMTT(30)
  <2> QED
    BY <2>1, <2>2 DEF FitsBox
<1>6. FreshOK(root'[Leader], log)
  <2>1. FreshOK(root[Leader], log) /\ Leader \in Ranks /\ Leader \in NextToLeader
    BY ZenonT(60), SMTT(30) DEF Inv, Ranks, NextToLeader
  <2>2. CASE r = Leader
    BY <1>5, <2>1, <2>2, ZenonT(60), SMTT(30) DEF FreshOK, Resets
  <2>3. CASE r # Leader
    BY <2>1, <2>3
  <2> QED
    BY <2>2, <2>3, ZenonT(60), SMTT(30)
<1>7. root'[Leader].st = "none" => ready' = <<>>
  BY ZenonT(60), SMTT(30) DEF Inv, Ranks
<1>8. Inv'
  <2>1. \A p \in Ranks : Pipe(p, root'[p], inbox'[p], WireOf(wire', p), log, n)
    BY <1>1, <1>2, <1>3, ZenonT(60), SMTT(30)
  <2>2. Pipes(root', inbox', wire', log, n)
    BY <1>1, <1>2, <2>1, ZenonT(60), SMTT(30) DEF Pipes
  <2> QED
    BY <1>6, <1>7, <2>2, ZenonT(60), SMTT(30) DEF Inv
<1>9. Advances
  <2>1. root[r].seq \in Nat /\ root'[r].seq \in Nat /\ \A p \in Ranks : root[p].seq \in Nat
    BY ZenonT(60), SMTT(30) DEF Inv, RootsOK
  <2>2. root[r].st = "up" /\ root'[r].st = "up" /\ root'[r].inc = root[r].inc
          => \/ root'[r].seq >= root[r].seq
             \/ r \notin NextToLeader /\ root'[r].seq = 0
    <3>1. CASE root'[r] = root[r]
      BY <2>1, <3>1, SMTT(20), SMTT(30), SMTT(60)
    <3>2. CASE root'[r].st = "removed"
      BY <3>2, ZenonT(60), SMTT(30)
    <3>3. CASE /\ Carries(m) /\ root'[r].inc = m.inc /\ root'[r].seq = m.seq
               /\ root[r].st # "up" \/ m.seq = 0 \/ m.seq > root[r].seq
      <4> HIDE DEF m
      <4> QED
        BY <1>5, <2>1, <3>3, SMTT(20), SMTT(30), SMTT(60) DEF Resets
    <3> QED
      BY <3>1, <3>2, <3>3, ZenonT(60), SMTT(30)
  <2> QED
    BY <2>1, <2>2, OneAdvances, ZenonT(60), SMTT(30)
<1> QED
  BY <1>8, <1>9, ZenonT(60), SMTT(30)

\* A rank takes the version that the head of its queue carries.
LEMMA RootTaken ==
    ASSUME Inv, NEW r \in Ranks, inbox[r] # <<>>, inbox' = [inbox EXCEPT ![r] = Tail(@)],
           UNCHANGED <<ready, log, used, wire>>,
           NEW rs, RespsOK(rs, log), NEW m, m = Head(inbox[r]), Carries(m),
           NEW ref, ref = m.ref, NEW seq, seq = m.seq, NEW inc, inc = m.inc,
           SetRoot(r, rs, ref, seq, inc)
    PROVE  Inv' /\ Advances
<1>1. /\ RootsOK(root, log, used.creates) /\ Pipes(root, inbox, wire, log, used.creates)
      /\ BoxOK(inbox[r], log, used.creates)
  BY ZenonT(60), SMTT(30) DEF Inv, Pipes, Pipe
<1>2. GoodMessage(m, log, used.creates)
  BY <1>1, BoxTail, ZenonT(60), SMTT(30)
<1>3. seq \in Nat /\ VersionIn(log, used.creates, inc, seq, ref)
  BY <1>2, ZenonT(60), SMTT(30) DEF GoodMessage
<1>4. RootsOK(root', log, used.creates) /\ RespsOK(resp', log) /\ SetTo(r, inc, seq)
  BY <1>1, <1>3, SetRootOK, ZenonT(60), SMTT(30)
<1>5. Pipes(root, inbox, wire', log, used.creates)
  BY <1>1, ZenonT(60), SMTT(30)
<1>6. /\ \A p \in Ranks : p # r => root'[p] = root[p]
      /\ \/ root'[r] = root[r]
         \/ /\ root'[r].st = "up" /\ root'[r].inc = m.inc /\ root'[r].seq = m.seq
            /\ m.seq = 0 \/ m.seq > root[r].seq
  BY <1>4, ZenonT(60), SMTT(30) DEF SetTo
<1> QED
  BY <1>4, <1>5, <1>6, TakeStep, ZenonT(60), SMTT(30)

\* getroot_completion, and the setroot, error and removed events.
LEMMA ReceiveStep ==
    ASSUME Inv, NEW r \in Ranks, Receive(r)
    PROVE  Inv' /\ Advances
<1> DEFINE m == Head(inbox[r])
           n == used.creates
<1>1. /\ inbox[r] # <<>> /\ inbox' = [inbox EXCEPT ![r] = Tail(@)]
      /\ UNCHANGED <<ready, log, used>>
  BY DEF Receive
<1>2. RootsOK(root, log, n) /\ RespsOK(resp, log) /\ BoxOK(inbox[r], log, n)
      /\ Pipes(root, inbox, wire, log, n)
  BY ZenonT(60), SMTT(30) DEF Inv, Pipes, Pipe
<1>3. GoodMessage(m, log, n)
  BY <1>1, <1>2, BoxTail, ZenonT(60), SMTT(30)
<1>4. root[r].st \in {"none", "up", "removed"} /\ root[r].seq \in Nat
  BY <1>2 DEF RootsOK
<1>5. ASSUME root' = root, RespsOK(resp', log), Pipes(root, inbox, wire', log, n)
      PROVE  Inv' /\ Advances
  BY <1>1, <1>2, <1>5, TakeStep, ZenonT(60), SMTT(30)
<1> HIDE DEF m, n
<1>6. ASSUME NEW rs, RespsOK(rs, log), Carries(m), SetRoot(r, rs, m.ref, m.seq, m.inc),
             UNCHANGED wire
      PROVE  Inv' /\ Advances
  BY <1>1, <1>6, RootTaken, ZenonT(60), SMTT(30) DEF m
<1>7. CASE m.t = "root" /\ GetrootDone(r, m)
  <2>1. CASE ~m.ok
    <3>1. RespsOK(Fail(resp, {m.q}), log)
      BY <1>2, FailOK, ZenonT(60), SMTT(30)
    <3>2. UNCHANGED root /\ RespsOK(resp', log)
      BY <1>2, <1>7, <2>1, <3>1, ZenonT(60), SMTT(30) DEF GetrootDone
    <3>3. ASSUME NEW c \in Followers, NEW e, ~Carries(e), wire' = [wire EXCEPT ![c] = Append(@, e)]
          PROVE  Pipes(root, inbox, wire', log, n)
      <4>1. GoodMessage(e, log, n) /\ ~Resets(e)
        BY <3>3 DEF GoodMessage, Resets
      <4>2. Pipe(c, root[c], inbox[c], wire[c], log, n)
        BY <1>2, LeaderAssumption, ZenonT(60), SMTT(30) DEF Pipes, WireOf, Ranks
      <4>3. Pipe(c, root[c], inbox[c], Append(wire[c], e), log, n)
        BY <4>1, <4>2, PipeWire, ZenonT(60), SMTT(30)
      <4> QED
        BY <1>2, <3>3, <4>3, PipesWire, ZenonT(60), SMTT(30)
    <3>4. CASE UNCHANGED wire
      BY <1>2, <1>5, <3>2, <3>4, ZenonT(60), SMTT(30)
    <3>5. CASE wire' # wire
      <4>1. PICK c \in Followers : wire' = [wire EXCEPT ![c] = Append(@, NoSuchRoot(m.q, Tail(m.via)))]
        BY <1>7, <2>1, <3>5, ZenonT(60), SMTT(30) DEF GetrootDone
      <4>2. ~Carries(NoSuchRoot(m.q, Tail(m.via)))
        BY DEF Carries, NoSuchRoot
      <4> QED
        BY <1>5, <3>2, <3>3, <4>1, <4>2, ZenonT(60), SMTT(30)
    <3> QED
      BY <3>4, <3>5
  <2>2. CASE m.ok /\ root[r].st = "none"
    <3> DEFINE new == [st |-> "up", ref |-> m.ref, seq |-> m.seq, inc |-> m.inc]
    <3>1. Carries(m) /\ m.seq \in Nat /\ VersionIn(log, n, m.inc, m.seq, m.ref)
      BY <1>3, <1>7, <2>2, ZenonT(60), SMTT(30) DEF Carries, GoodMessage
    <3>2. root' = [root EXCEPT ![r] = new] /\ resp' = resp /\ wire' = wire
      BY <1>7, <2>2 DEF GetrootDone
    <3>3. m.ref \in Refs(log) /\ m.inc \in Nat
      BY <3>1, VersionRef, BoundAssumption DEF VersionIn, Incs
    <3>4. root' \in [Ranks -> [st : {"none", "up", "removed"}, ref : Refs(log), seq : Nat, inc : Nat]]
      <4>1. new \in [st : {"none", "up", "removed"}, ref : Refs(log), seq : Nat, inc : Nat]
        BY <3>1, <3>3
      <4>2. root \in [Ranks -> [st : {"none", "up", "removed"}, ref : Refs(log), seq : Nat, inc : Nat]]
        BY <1>2, ZenonT(60), SMTT(30) DEF RootsOK
      <4> HIDE DEF new
      <4> QED
        BY <3>2, <4>1, <4>2, ZenonT(60), SMTT(30)
    <3>5. /\ root'[r].st = "up" /\ root'[r].inc = m.inc
          /\ root'[r].seq = m.seq /\ root'[r].ref = m.ref
          /\ \A p \in Ranks : p # r => root'[p] = root[p]
      BY <1>2, <3>2, SMTT(20), ZenonT(60), SMTT(30) DEF RootsOK
    <3>6. RootsOK(root', log, n)
      BY <1>2, <3>1, <3>4, <3>5, ZenonT(60), SMTT(30) DEF RootsOK
    <3> QED
      <4>1. RespsOK(resp', log) /\ root[r].st # "up" /\ Pipes(root, inbox, wire', log, n)
        BY <1>2, <2>2, <3>2, ZenonT(60), SMTT(30)
      <4> QED
        BY <1>1, <3>1, <3>5, <3>6, <4>1, TakeStep, ZenonT(60), SMTT(20) DEF m, n
  <2>3. CASE m.ok /\ root[r].st = "removed"
    BY <1>2, <1>5, <1>7, <2>3, ZenonT(60), SMTT(30) DEF GetrootDone
  <2>4. CASE m.ok /\ root[r].st = "up"
    <3>1. Carries(m) /\ SetRoot(r, resp, m.ref, m.seq, m.inc) /\ UNCHANGED wire
      BY <1>7, <2>4, ZenonT(60), SMTT(30) DEF Carries, GetrootDone
    <3> QED
      BY <1>2, <1>6, <3>1, ZenonT(60), SMTT(30)
  <2> QED
    BY <1>4, <2>1, <2>2, <2>3, <2>4, ZenonT(60), SMTT(30)
<1>8. RespsOK(FinalResp(r, m.names, FALSE), log)
  BY <1>2, FailOK DEF FinalResp
<1>9. CASE m.t = "setroot" /\ SetrootEvent(r, m) /\ UNCHANGED wire
  <2>1. CASE root[r].st = "none"
    BY <1>2, <1>5, <1>9, <2>1, ZenonT(60), SMTT(30) DEF SetrootEvent
  <2>2. CASE root[r].st = "removed"
    BY <1>2, <1>5, <1>8, <1>9, <2>2, ZenonT(60), SMTT(30) DEF SetrootEvent
  <2>3. CASE root[r].st = "up"
    <3>1. RespsOK(FinalResp(r, m.names, TRUE), log)
      BY <1>2, <2>3, UpVersion, AnsweredOK, ZenonT(60), SMTT(30) DEF FinalResp
    <3>2. Carries(m) /\ SetRoot(r, FinalResp(r, m.names, TRUE), m.ref, m.seq, m.inc)
      BY <1>9, <2>3, ZenonT(60), SMTT(20) DEF Carries, SetrootEvent
    <3> QED
      BY <1>6, <1>9, <3>1, <3>2, ZenonT(60), SMTT(20)
  <2> QED
    BY <1>4, <2>1, <2>2, <2>3, ZenonT(60), SMTT(30)
<1>10. CASE m.t = "error" /\ ErrorEvent(r, m) /\ UNCHANGED wire
  BY <1>2, <1>5, <1>8, <1>10 DEF ErrorEvent
<1>11. CASE m.t = "removed" /\ RemovedEvent(r) /\ UNCHANGED wire
  <2>1. CASE root[r].st # "up"
    BY <1>2, <1>5, <1>11, <2>1, ZenonT(60), SMTT(30) DEF RemovedEvent
  <2>2. CASE root[r].st = "up"
    <3>1. StartRootRemove(r)
      BY <1>11, <2>2 DEF RemovedEvent
    <3> QED
      BY <1>1, <1>2, <1>11, <2>2, <3>1, RemoveOK, TakeStep, ZenonT(60), SMTT(30) DEF n
  <2> QED
    BY <2>1, <2>2, ZenonT(60), SMTT(30)
<1> QED
  BY <1>7, <1>9, <1>10, <1>11, SMTT(20), ZenonT(60), SMTT(30) DEF Receive, m

-----------------------------------------------------------------------------
(* The namespace *)

\* A new incarnation starts at version 0, which no message or version has.
LEMMA CreateStep ==
    ASSUME Inv, NamespaceCreate
    PROVE  Inv' /\ Advances
<1> DEFINE n == used.creates
           new == [st |-> "up", ref |-> EmptyDir, seq |-> 0, inc |-> n + 1]
<1>1. /\ n \in Nat /\ n < MaxCreates /\ n + 1 \in Incs /\ Leader \in Ranks
      /\ used' \in UsedType /\ used'.creates = n + 1
  BY BoundAssumption DEF Inv, UsedType, NamespaceCreate, Incs, Ranks
<1>2. root' = [root EXCEPT ![Leader] = new] /\ UNCHANGED <<ready, inbox, wire, resp, log>>
  BY DEF NamespaceCreate
<1>3. root[Leader].st = "none"
  BY DEF NamespaceCreate
<1>4. LogOK(log, n) /\ RootsOK(root, log, n) /\ Pipes(root, inbox, wire, log, n)
  BY DEF Inv
<1> HIDE DEF n
<1>5. /\ new.st = "up" /\ new.ref = EmptyDir /\ new.seq = 0 /\ new.inc = n + 1
      /\ new \in [st : {"none", "up", "removed"}, ref : Refs(log), seq : Nat, inc : Nat]
  <2>1. n + 1 \in Nat /\ EmptyDir \in Refs(log)
    BY <1>1 DEF Refs
  <2> QED
    BY <2>1
<1> HIDE DEF new
<1>6. Extends(log, log) /\ n <= n + 1 /\ n + 1 \in Nat
  BY <1>1 DEF Extends
<1>7. RootsOK(root, log, n + 1) /\ Pipes(root, inbox, wire, log, n + 1)
  BY <1>1, <1>4, <1>6, RootsStay, PipesStay, SMTT(20), ZenonT(60), SMTT(30)
<1>8. \A i \in DOMAIN log : log[i].inc \in Nat /\ log[i].inc <= n
  BY <1>4, BoundAssumption DEF LogOK, Incs
<1>9. LogOK(log, n + 1)
  BY <1>1, <1>4, <1>8, SMTT(20), ZenonT(60), SMTT(30) DEF LogOK
<1>10. /\ root'[Leader].st = "up" /\ root'[Leader].seq = 0 /\ root'[Leader].inc = n + 1
      /\ root'[Leader].ref = EmptyDir
      /\ \A p \in Ranks : p # Leader => root'[p] = root[p]
  BY <1>1, <1>2, <1>4, <1>5 DEF RootsOK
<1>11. VersionIn(log, n + 1, n + 1, 0, EmptyDir)
  BY <1>1 DEF VersionIn, PublishedIn
<1>12. root' \in [Ranks -> [st : {"none", "up", "removed"}, ref : Refs(log), seq : Nat, inc : Nat]]
  BY <1>2, <1>4, <1>5, ZenonT(60), SMTT(20) DEF RootsOK
<1>13. RootsOK(root', log, n + 1)
  BY <1>7, <1>10, <1>11, <1>12, ZenonT(60), SMTT(30) DEF RootsOK
<1>14. Pipes(root', inbox, wire, log, n + 1)
  BY <1>7, <1>10, PipesRoot, ZenonT(60), SMTT(30)
<1>15. FreshOK(root'[Leader], log)
  BY <1>1, <1>8, <1>10, SMTT(20), SMTT(30), SMTT(60) DEF FreshOK
<1>16. Inv'
  BY <1>1, <1>2, <1>7, <1>9, <1>10, <1>13, <1>14, <1>15, ZenonT(60), SMTT(30) DEF Inv
<1>17. Advances
  BY <1>3, <1>4, <1>10 DEF Advances, RootsOK
<1> QED
  BY <1>16, <1>17

\* A root goes out of use or is deleted; only the removal of the namespace tells
\* the others.
LEMMA GoneStep ==
    ASSUME Inv, NEW r \in Ranks, RootsOK(root', log, used.creates), RespsOK(resp', log),
           root'[r].st # "up", \A p \in Ranks : p # r => root'[p] = root[p],
           root'[r].st = "none" /\ r = Leader => ready' = <<>>,
           r # Leader => ready' = ready,
           used' \in UsedType, used'.creates = used.creates,
           UNCHANGED log, UNCHANGED <<inbox, wire>> \/ Publish([t |-> "removed"])
    PROVE  Inv' /\ Advances
<1> DEFINE ev == [t |-> "removed"]
<1>1. GoodMessage(ev, log, used.creates) /\ ~Resets(ev)
  BY DEF GoodMessage, Resets, Carries
<1>2. Pipes(root, inbox, wire, log, used.creates)
  BY ZenonT(60), SMTT(30) DEF Inv
<1>3. Pipes(root', inbox, wire, log, used.creates)
  BY <1>2, PipesRoot, ZenonT(60), SMTT(30)
<1>4. Pipes(root', inbox', wire', log, used.creates)
  <2> HIDE DEF ev
  <2>1. CASE UNCHANGED <<inbox, wire>>
    BY <1>3, <2>1, ZenonT(60), SMTT(30)
  <2>2. CASE Publish(ev)
    BY <1>1, <1>3, <2>2, PublishOK, ZenonT(60), SMTT(30)
  <2> QED
    BY <2>1, <2>2 DEF ev
<1>5. FreshOK(root'[Leader], log) /\ (root'[Leader].st = "none" => ready' = <<>>)
  BY DEF Inv, FreshOK, Ranks
<1>6. Inv'
  BY <1>4, <1>5, ZenonT(60), SMTT(30) DEF Inv
<1>7. Advances
  <2>1. \A p \in Ranks : root[p].seq \in Nat /\ (root'[p].st # "up" \/ root'[p] = root[p])
    BY ZenonT(60), SMTT(30) DEF Inv, RootsOK
  <2> QED
    BY <2>1 DEF Advances
<1> QED
  BY <1>6, <1>7, ZenonT(60)

\* namespace_remove, and what the heartbeat deletes or expires.
LEMMA NamespaceStep ==
    ASSUME Inv,
           NamespaceRemove \/ (\E r \in Ranks : HeartbeatDelete(r))
             \/ (\E r \in Followers : HeartbeatExpire(r))
    PROVE  Inv' /\ Advances
<1>1. /\ used' \in UsedType
      /\ used'.creates = used.creates
  BY SMTT(20), SMTT(30), SMTT(60) DEF Inv, UsedType, NamespaceRemove, HeartbeatDelete, HeartbeatExpire
<1>2. CASE NamespaceRemove
  <2>1. /\ Leader \in Ranks /\ StartRootRemove(Leader) /\ root[Leader].st = "up" /\ UNCHANGED log
        /\ Publish([t |-> "removed"])
    BY <1>2, ZenonT(60), SMTT(30) DEF NamespaceRemove, Ranks
  <2>2. /\ RootsOK(root', log, used.creates) /\ RespsOK(resp', log) /\ root'[Leader].st = "removed"
        /\ \A p \in Ranks : p # Leader => root'[p] = root[p]
    BY <2>1, RemoveOK
  <2> QED
    BY <1>1, <2>1, <2>2, GoneStep, ZenonT(60), SMTT(30)
<1>3. ASSUME NEW r \in Ranks, HeartbeatDelete(r) PROVE Inv' /\ Advances
  <2>1. /\ root' = [root EXCEPT ![r] = NoRoot] /\ UNCHANGED <<ready, inbox, wire, resp, log>>
        /\ r = Leader => ready = <<>>
    BY <1>3 DEF HeartbeatDelete, Unused
  <2>2. RootsOK(root, log, used.creates) /\ RespsOK(resp, log)
    BY ZenonT(60), SMTT(30) DEF Inv
  <2>3. NoRoot \in [st : {"none", "up", "removed"}, ref : Refs(log), seq : Nat, inc : Nat]
        /\ NoRoot.st = "none"
    BY DEF NoRoot, Refs
  <2> HIDE DEF NoRoot
  <2>4. /\ root'[r] = NoRoot /\ \A p \in Ranks : p # r => root'[p] = root[p]
        /\ root' \in [Ranks -> [st : {"none", "up", "removed"}, ref : Refs(log), seq : Nat, inc : Nat]]
    BY <2>1, <2>2, <2>3 DEF RootsOK
  <2>5. RootsOK(root', log, used.creates)
    BY <2>2, <2>3, <2>4, ZenonT(60), SMTT(30) DEF RootsOK
  <2> QED
    BY <1>1, <2>1, <2>2, <2>3, <2>4, <2>5, GoneStep, ZenonT(60), SMTT(30)
<1>4. ASSUME NEW r \in Followers, HeartbeatExpire(r) PROVE Inv' /\ Advances
  <2>1. /\ r \in Ranks /\ r # Leader /\ StartRootRemove(r) /\ root[r].st = "up"
        /\ UNCHANGED <<ready, inbox, wire, log>>
    BY <1>4, LeaderAssumption, ZenonT(60), SMTT(30) DEF HeartbeatExpire, Ranks
  <2>2. /\ RootsOK(root', log, used.creates) /\ RespsOK(resp', log) /\ root'[r].st = "removed"
        /\ \A p \in Ranks : p # r => root'[p] = root[p]
    BY <2>1, RemoveOK, ZenonT(60), SMTT(30)
  <2> QED
    BY <1>1, <2>1, <2>2, GoneStep, SMTT(20), ZenonT(60), SMTT(30)
<1> QED
  BY <1>2, <1>3, <1>4

-----------------------------------------------------------------------------
(* The theorems *)

\* Inv holds before the namespace is created.
LEMMA InvInit == Init => Inv
<1> SUFFICES ASSUME Init PROVE Inv
  BY SMTT(20), ZenonT(60), SMTT(30)
<1>1. PICK sc \in Scenarios :
        /\ resp = [q \in Requests |-> [st |-> IF q \in sc.reqs THEN "idle" ELSE "off",
                                       seq |-> 0, ref |-> EmptyDir, n |-> 0]]
        /\ used = [creates |-> 0, faults |-> 0, expires |-> 0, max |-> sc]
  BY ZenonT(60), SMTT(30) DEF Init
<1>2. /\ root = [r \in Ranks |-> NoRoot] /\ ready = <<>> /\ inbox = [r \in Ranks |-> <<>>]
      /\ log = <<>> /\ wire = [r \in Followers |-> <<>>]
  BY DEF Init
<1>3. EmptyDir \in Refs(log)
  BY DEF Refs
<1>4. RespsOK(resp, log)
  <2>1. resp \in [Requests -> [st : Answers, seq : Nat, ref : Refs(log), n : Nat]]
    BY <1>1, <1>3 DEF Answers
  <2>2. \A q \in Requests : resp[q].st \notin {"loading", "ok"}
    BY <1>1
  <2> QED
    BY <2>1, <2>2 DEF RespsOK
<1>5. IsSeq(<<>>) /\ \A i : i \notin DOMAIN <<>>
  <2>1. <<>> \in Seq({}) /\ \A i : i \notin DOMAIN <<>>
    OBVIOUS
  <2>2. IsSeq(<<>>)
    BY <2>1, SeqIs, ZenonT(60), SMTT(30)
  <2> QED
    BY <2>1, <2>2
<1>6. LogOK(log, used.creates)
  BY <1>1, <1>2, <1>5 DEF LogOK
<1>7. /\ NoRoot \in [st : {"none", "up", "removed"}, ref : Refs(log), seq : Nat, inc : Nat]
      /\ NoRoot.st = "none"
  BY <1>3 DEF NoRoot
<1>8. RootsOK(root, log, used.creates) /\ FreshOK(root[Leader], log)
  <2> HIDE DEF NoRoot
  <2> QED
    BY <1>2, <1>7, ZenonT(60), SMTT(30) DEF RootsOK, FreshOK, Ranks
<1>9. Pipes(root, inbox, wire, log, used.creates)
  <2>1. \A r \in Ranks : inbox[r] = <<>> /\ WireOf(wire, r) = <<>>
    BY <1>2 DEF WireOf, Ranks
  <2>2. BoxOK(<<>>, log, used.creates)
    BY <1>5 DEF BoxOK
  <2>3. \A r \in Ranks : FitsBox(r, root[r], <<>>) /\ FitsWire(root[r], <<>>, <<>>)
    BY <1>5 DEF FitsBox, FitsWire
  <2>4. \A r \in Ranks : Pipe(r, root[r], inbox[r], WireOf(wire, r), log, used.creates)
    BY <2>1, <2>2, <2>3, ZenonT(60), SMTT(30) DEF Pipe
  <2> QED
    BY <1>2, <2>4 DEF Pipes
<1>10. used \in UsedType /\ used.creates = 0
  BY <1>1 DEF UsedType
<1> QED
  BY <1>2, <1>4, <1>6, <1>8, <1>9, <1>10 DEF Inv

\* Every step keeps Inv and takes no root back.
LEMMA InvStep == Inv /\ [Next]_vars => Inv' /\ Advances
<1> SUFFICES ASSUME Inv, [Next]_vars PROVE Inv' /\ Advances
  OBVIOUS
<1>1. CASE TransactionCheck \/ TransactionResume \/ TransactionFault
  BY <1>1, TransactionStep
<1>2. CASE NamespaceCreate
  BY <1>2, CreateStep
<1>3. CASE NamespaceRemove
  BY <1>3, NamespaceStep
<1>4. ASSUME NEW q \in Requests, Request(q) \/ LookupReplay(q) \/ Disconnect(q)
      PROVE  Inv' /\ Advances
  BY <1>4, RequestStep, RootSame
<1>5. ASSUME NEW r \in Ranks, Receive(r) PROVE Inv' /\ Advances
  BY <1>5, ReceiveStep
<1>6. ASSUME NEW r \in Ranks, HeartbeatDelete(r) PROVE Inv' /\ Advances
  BY <1>6, NamespaceStep
<1>7. ASSUME NEW r \in Followers, Again(r) PROVE Inv' /\ Advances
  BY <1>7, AgainStep
<1>8. ASSUME NEW c \in Followers, NEW d \in {Leader, Parent[c]}, Serve(c, d)
      PROVE  Inv' /\ Advances
  BY <1>8, ServeStep
<1>9. ASSUME NEW r \in Followers, HeartbeatExpire(r) PROVE Inv' /\ Advances
  BY <1>9, NamespaceStep
<1>10. ASSUME NEW r \in Followers, Deliver(r) PROVE Inv' /\ Advances
  BY <1>10, DeliverStep
<1>11. CASE UNCHANGED vars
  <2>1. UNCHANGED <<root, inbox, wire, log, used, ready, resp>>
    BY <1>11, SMTT(20), SMTT(30), ZenonT(60), SMTT(60) DEF vars
  <2>2. RespsOK(resp', log)
    BY <2>1 DEF Inv
  <2> QED
    BY <2>1, <2>2, QuietStep, RootSame
<1> QED
  BY <1>1, <1>2, <1>3, <1>4, <1>5, <1>6, <1>7, <1>8, <1>9, <1>10, <1>11, ZenonT(60), SMTT(30) DEF Next

\* Whatever a rank holds as its root, and whatever version a client was given or
\* a lookup walks from, the leader published it under that number: for every set
\* and every tree of ranks, with inner ranks that answer for their children from
\* roots that are out of date, however often the namespace is created.
THEOREM RootsAgreeCorrect == Spec => []RootsAgree
<1>1. Inv => RootsAgree
  BY ZenonT(60), SMTT(30) DEF Inv, RootsOK, RespsOK, VersionIn, PublishedIn, Published, RootsAgree, Incs
<1> QED
  BY <1>1, InvInit, InvStep, PTL DEF Spec

\* Within an incarnation no rank next to the leader goes back to an older version,
\* although setroot takes a version 0 whatever it holds, and no other rank goes
\* back but to version 0: for the same constants.
THEOREM NeverBackCorrect == Spec => NeverBack
<1>1. Inv /\ [Next]_vars => [\A r \in Ranks :
          root[r].st = "up" /\ root'[r].st = "up" /\ root'[r].inc = root[r].inc
              => \/ root'[r].seq >= root[r].seq
                 \/ r \notin NextToLeader /\ root'[r].seq = 0]_vars
  BY InvStep DEF Advances
<1> QED
  BY <1>1, InvInit, InvStep, PTL DEF Spec, NeverBack

=============================================================================
