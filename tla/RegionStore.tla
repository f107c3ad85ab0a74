----------------------------- MODULE RegionStore -----------------------------
(***************************************************************************)
(* What the quadtree of spec.md section 4.2 promises: a map from item id   *)
(* to MBR.  Insert fails, changing nothing, when the MBR does not meet the *)
(* root bounds; update is remove then insert, so an update to such an MBR  *)
(* leaves the item removed; clear empties the map.                         *)
(***************************************************************************)
EXTENDS Geometry, TLC

CONSTANTS RootBounds, Ids, Boxes

VARIABLE items   \* function: id of each stored item -> its MBR

Init == items = <<>>

Insert(id, b) ==
    /\ id \notin DOMAIN items
    /\ IF MbrIntersects(RootBounds, b) THEN items' = items @@ (id :> b)
                                       ELSE UNCHANGED items

Remove(id) ==
    /\ id \in DOMAIN items
    /\ items' = [i \in DOMAIN items \ {id} |-> items[i]]

Update(id, b) ==
    /\ id \in DOMAIN items
    /\ items' = IF MbrIntersects(RootBounds, b) THEN [items EXCEPT ![id] = b]
                ELSE [i \in DOMAIN items \ {id} |-> items[i]]

Clear == items' = <<>>

Next ==
    \/ \E id \in Ids, b \in Boxes : Insert(id, b) \/ Update(id, b)
    \/ \E id \in Ids : Remove(id)
    \/ Clear

Spec == Init /\ [][Next]_items

=============================================================================
