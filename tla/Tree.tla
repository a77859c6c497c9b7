-------------------------------- MODULE Tree --------------------------------
(***************************************************************************)
(* The tree of brokers, as the queries of src/broker/topology.c present it *)
(* to the broker.                                                          *)
(***************************************************************************)
EXTENDS Naturals, FiniteSets

CONSTANTS Ranks,   \* 0 .. n
          Above    \* [Ranks \ {0} -> Ranks]: the parent of a rank

Below(r) == {c \in Ranks \ {0} : Above[c] = r}              \* topology_get_child_ranks_at

IsDescendant[r \in Ranks, a \in Ranks] ==                   \* is_descendant_of
    r # 0 /\ (Above[r] = a \/ IsDescendant[Above[r], a])

Subtree(r) == {r} \cup {d \in Ranks : IsDescendant[d, r]}   \* topology_get_json_subtree_at
=============================================================================
