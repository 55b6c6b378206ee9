----------------------------- MODULE MCInventory -----------------------------
(* Instances of Inventory for TLC. *)
EXTENDS Inventory, TLC

CONSTANTS n1, n2

ListsOfTwo == {<<n1>>, <<n1, n2>>, <<n2, n1>>}
ClusterSymmetry == Permutations(Clusters)
OwnSlug == [c \in Clusters |-> c]
OwnName == [n \in Nodes |-> n]
NumbersSwapped == n1 :> 2 @@ n2 :> 1
===============================================================================
