----------------------------- MODULE MCBarrier -----------------------------
(* Barrier on a tree of three brokers, r0 above r1 above r2, with two clients
   on the leaf, whose entries may reach the root in one batch. *)
EXTENDS Barrier

CONSTANTS r0, r1, r2, c1, c2, c3, c4

MCParent == [r \in {r1, r2} |-> IF r = r1 THEN r0 ELSE r1]
MCHome == [c \in {c1, c2, c3, c4} |->
             CASE c = c1 -> r0 [] c = c2 -> r1 [] c \in {c3, c4} -> r2]
============================================================================
