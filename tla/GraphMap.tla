------------------------------ MODULE GraphMap ------------------------------
(***************************************************************************)
(* What a BUILD relies on of the graph it edits: partial maps from type    *)
(* identities to declarations, from object identities to objects and from  *)
(* link targets to sources.  An operation changes one entry and no other;  *)
(* a redeclared type starts without definition; the handle under which an  *)
(* identity or a link target was first published stays its handle, however *)
(* often the entry is retired and restored.                                *)
(***************************************************************************)
VARIABLES typeMap, objectMap, linkMap, handleOf \* sets of at most one value; {} when absent

mapVars == <<typeMap, objectMap, linkMap, handleOf>>

\* The maps of the baseline, whatever it holds.
MapInit == TRUE

Declare(id) ==
    /\ typeMap[id] = {}
    /\ \E kind \in {"struct", "class", "union"} :
          typeMap' = [typeMap EXCEPT ![id] = {[kind |-> kind, members |-> {}]}]

\* A definition may change struct to class and back, and is made once.
Define(id) ==
    \E t \in typeMap[id], u \in typeMap'[id] :
       /\ t.members = {}
       /\ u.members # {}
       /\ (u.kind = "union") <=> (t.kind = "union")
       /\ typeMap' = [typeMap EXCEPT ![id] = {u}]

Clear(id) ==
    \E t \in typeMap[id] :
       typeMap' = [typeMap EXCEPT ![id] = {[kind |-> t.kind, members |-> {}]}]

RetireType(id) == typeMap' = [typeMap EXCEPT ![id] = {}]

\* A live object or link is never overwritten: it is retired first.
SetOrRetire(map, map2) ==
    \E key \in DOMAIN map :
       /\ map2 = [map EXCEPT ![key] = map2[key]]
       /\ map[key] = {} \/ map2[key] = {}

HandlesKept ==
    \A key \in DOMAIN handleOf :
       handleOf[key] # {} => handleOf'[key] = handleOf[key]

MapNext ==
    /\ HandlesKept
    /\ \/ /\ \E id \in DOMAIN typeMap :
                Declare(id) \/ Define(id) \/ Clear(id) \/ RetireType(id)
          /\ UNCHANGED <<objectMap, linkMap>>
       \/ SetOrRetire(objectMap, objectMap') /\ UNCHANGED <<typeMap, linkMap>>
       \/ SetOrRetire(linkMap, linkMap') /\ UNCHANGED <<typeMap, objectMap>>

MapSpec == MapInit /\ [][MapNext]_mapVars
=============================================================================
