----------------------------- MODULE ObjectStore -----------------------------
(***************************************************************************)
(* What the spatial index promises its caller (spec.md sections 3, 4.7):   *)
(* a set of objects keyed by id, ids handed out densely from 1 and never   *)
(* reused, insert / remove / update, loading a document (spec C10),       *)
(* clearing, and build, which changes no object.                           *)
(***************************************************************************)
EXTENDS Naturals, Sequences

CONSTANTS Shapes,     \* the shapes a caller can insert
          Docs,       \* the GeoJSON and WKT texts a caller can load
          DocShapes,  \* the shapes each document holds, in document order
          Batches     \* the sequences of shapes a caller bulk-inserts

VARIABLES objects,   \* function: id of each stored object -> its shape
          nextId     \* next id insert will assign

vars == <<objects, nextId>>

Init == objects = <<>> /\ nextId = 1

Insert(s) ==
    /\ objects' = [i \in DOMAIN objects \cup {nextId} |->
                       IF i = nextId THEN s ELSE objects[i]]
    /\ nextId' = nextId + 1

Remove(id) ==
    /\ id \in DOMAIN objects
    /\ objects' = [i \in DOMAIN objects \ {id} |-> objects[i]]
    /\ UNCHANGED nextId

Update(id, s) ==
    /\ id \in DOMAIN objects
    /\ objects' = [objects EXCEPT ![id] = s]
    /\ UNCHANGED nextId

\* The shapes ss inserted one after the other, each with a fresh id.
InsertAll(ss) ==
    LET n == Len(ss)
    IN  /\ n > 0
        /\ objects' = [i \in DOMAIN objects \cup (nextId .. nextId + n - 1) |->
                          IF i >= nextId THEN ss[i - nextId + 1] ELSE objects[i]]
        /\ nextId' = nextId + n

\* Loading a document (spec C10 and 4.7): its objects are inserted in
\* document order.  A document that fails to parse changes nothing.
Load(d) == InsertAll(DocShapes[d])

\* bulk_insert (spec 4.7): sequential inserts.
BulkInsert(ss) == InsertAll(ss)

\* Clearing the index removes every object; ids are still never reused.
Clear ==
    /\ objects' = <<>>
    /\ UNCHANGED nextId

Next ==
    \/ \E s \in Shapes : Insert(s)
    \/ Clear
    \/ \E d \in Docs : Load(d)
    \/ \E ss \in Batches : BulkInsert(ss)
    \/ \E id \in DOMAIN objects : Remove(id) \/ \E s \in Shapes : Update(id, s)

Spec == Init /\ [][Next]_vars

=============================================================================
