------------------------------- MODULE MCKvs --------------------------------
(* Instances of Kvs: a chain of three ranks, the leader, an inner follower  *)
(* and a leaf; commits on all of them, one of which cannot be applied, a    *)
(* fence across two ranks, wait-version requests and a lookup.              *)
EXTENDS KvsRefinement

CONSTANTS lead, mid, leaf, cl, cl2, cbad, cm, cf, fl, ff, wm, wf, lf, fence

MCParent == mid :> lead @@ leaf :> mid

MCRequests == {cl, cl2, cbad, cm, cf, fl, ff, wm, wf, lf}

R(kind, rank, name, nprocs, bad, seq) ==
    [kind |-> kind, rank |-> rank, key |-> "k", name |-> name, nprocs |-> nprocs,
     bad |-> bad, nomerge |-> FALSE, seq |-> seq]

MCReq ==
    cl   :> R("commit", lead, cl, 1, FALSE, 0) @@
    cl2  :> R("commit", lead, cl2, 1, FALSE, 0) @@
    cbad :> R("commit", lead, cbad, 1, TRUE, 0) @@
    cm   :> R("commit", mid, cm, 1, FALSE, 0) @@
    cf   :> R("commit", leaf, cf, 1, FALSE, 0) @@
    fl   :> R("fence", lead, fence, 2, FALSE, 0) @@
    ff   :> R("fence", mid, fence, 2, FALSE, 0) @@
    wm   :> R("wait", mid, wm, 1, FALSE, 1) @@
    wf   :> R("wait", leaf, wf, 1, FALSE, 1) @@
    lf   :> R("lookup", leaf, lf, 1, FALSE, 0)

Scenario(reqs, faults, expires) == [reqs |-> reqs, faults |-> faults, expires |-> expires]

MCScenarios ==
    {Scenario({cl, cl2, cbad}, 0, 0), Scenario({cl, cbad}, 1, 0), Scenario({cl, cm}, 1, 1),
     Scenario({cm, wm}, 1, 1), Scenario({cf, lf}, 0, 0), Scenario({cl, wf}, 0, 1),
     Scenario({fl, ff}, 1, 1)}

=============================================================================
