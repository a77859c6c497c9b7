---------------------------- MODULE KvsRefinement ----------------------------
(* The refinement mapping from the distributed KVS to the abstract store: a *)
(* namespace's directory is the leader's, a request is committed when a     *)
(* published version has it, and its answer is what its client was told.    *)
EXTENDS Kvs, SequencesExt

Store == INSTANCE KvsStore WITH
    KeyOf <- [q \in Writers |-> Req[q].key],
    Together <- [q \in Writers |->
                   IF Req[q].kind = "commit" THEN {q}
                   ELSE {p \in Writers : Req[p].name = Req[q].name}],
    live <- root[Leader].st = "up",
    db <- IF root[Leader].st = "up" THEN root[Leader].ref ELSE EmptyDir,
    committed <- UNION {ToSet(log[i].ops) : i \in DOMAIN log},
    answer <- [q \in Writers |-> IF resp[q].st \in {"ok", "err"} THEN resp[q].st ELSE "none"]

(* The distributed service implements the abstract store: versions are made *)
(* of whole transactions, each applied once however transactions are merged *)
(* and split, and clients are told the truth (kvstxn.c, kvs.c:972).         *)
Refines == Store!StoreSpec
=============================================================================
