------------------------------ MODULE KvsStore ------------------------------
(***************************************************************************)
(* What one namespace of the KVS promises to the clients that write to it: *)
(* a directory that changes by whole transactions.  A commit, or all the   *)
(* requests of a fence together, is applied once and entirely before its   *)
(* clients are told of success, and a client told of an error never had    *)
(* any of its operations applied ("A return of -1 indicates failure, none  *)
(* of the transaction was committed", doc/man3/flux_kvs_commit.rst); only  *)
(* the removal of the namespace may turn a success into an error.          *)
(* Kvs.tla shows that the distributed service implements this.             *)
(***************************************************************************)
EXTENDS Naturals, Sequences, FiniteSets, SequencesExt

CONSTANTS Keys,          \* the keys of the namespace
          Writers,       \* the commit and fence requests
          KeyOf,         \* [Writers -> Keys], the key a request puts itself at
          Together,      \* [Writers -> SUBSET Writers], the requests of its fence
          Nothing        \* the value of a key that was never written

VARIABLES live,          \* the namespace exists
          db,            \* [Keys -> Writers \cup {Nothing}]
          committed,     \* the requests whose operations were applied
          answer         \* [Writers -> {"none", "ok", "err"}]

EmptyDir == [k \in Keys |-> Nothing]

(* A transaction's operations applied in sequence to a directory. *)
ApplyOps(dir, ops) ==
    FoldLeft(LAMBDA d, q : [d EXCEPT ![KeyOf[q]] = q], dir, ops)

StoreInit ==
    /\ live = FALSE
    /\ db = EmptyDir
    /\ committed = {}
    /\ answer = [q \in Writers |-> "none"]

Open == {q \in Writers : answer[q] = "none"}

(* The namespace is created, empty. *)
CreateNs ==
    /\ ~live
    /\ live' = TRUE
    /\ db' = EmptyDir
    /\ UNCHANGED <<committed, answer>>

(* One version: some open requests, whole fences only, in some order. *)
Commit ==
    /\ live
    /\ UNCHANGED <<live, answer>>
    /\ \E S \in SUBSET (Open \ committed) :
        /\ S # {}
        /\ committed' = committed \cup S
        /\ \A q \in S : Together[q] \subseteq S
        /\ \E ops \in SetToSeqs(S) : db' = ApplyOps(db, ops)

(* What a client may be told while the namespace is in state up. *)
Truths(q, up) == (IF q \in committed THEN {"ok"} ELSE {"err"})
                 \cup (IF up THEN {} ELSE {"err"})

(* Some clients are answered, each with the truth about its request. *)
Answer ==
    /\ UNCHANGED <<live, db, committed>>
    /\ \A q \in Writers : answer'[q] = answer[q] \/ (q \in Open /\ answer'[q] \in Truths(q, live))

(* The namespace is removed, and some clients that waited for it are told. *)
RemoveNs ==
    /\ live
    /\ live' = FALSE
    /\ db' = EmptyDir
    /\ UNCHANGED committed
    /\ \A q \in Writers : answer'[q] = answer[q] \/ (q \in Open /\ answer'[q] \in Truths(q, FALSE))

StoreNext == CreateNs \/ Commit \/ Answer \/ RemoveNs

StoreSpec == StoreInit /\ [][StoreNext]_<<live, db, committed, answer>>
=============================================================================
