---------------------------- MODULE Materializer ----------------------------
(***************************************************************************)
(* The materializer of a FIXED_DIRECT Runtime                              *)
(* (project/runtime/fixed_direct_materializer.cpp), as                     *)
(* create_resident_project runs it: it writes the objects of a Project     *)
(* into the shared memory, and the address each reference stands for into  *)
(* its slot.  A link, the construction of a member and a chain of them     *)
(* decide what a reference stands for; while that is being found out the   *)
(* slot itself keeps the state:                                            *)
(*                                                                         *)
(*     0                     not resolved                                  *)
(*     WordMask - link       a link that is to be followed                 *)
(*     WordMask              being resolved                                *)
(*     base + offset         resolved                                      *)
(*                                                                         *)
(* A scalar is stored as one word at its first byte.  The record plans of  *)
(* the code remember what the tables of the Project say of a record; they  *)
(* are left out, and the planned and the unplanned walk are one.  A        *)
(* failure code is left out too: a Runtime that cannot be made is refused. *)
(*                                                                         *)
(* r is the state of a LOAD: its Project g, abi, base address and layout,  *)
(* the memory, and the slot of every marked link.                          *)
(***************************************************************************)
EXTENDS RuntimeLayout

CONSTANTS Loads,            \* what may be loaded: [graph, abi, base] records
          WordMask,         \* the largest target word
          MaxLinkSlot       \* link_handle::maximum_slot

ASSUME WordAssumption == WordMask \in Nat /\ MaxLinkSlot \in 1 .. WordMask - 1

VARIABLE runtime

Visiting == WordMask
Refused(r) == [r EXCEPT !.phase = "refused"]
Failed(r) == r.phase = "refused"

IsReference(r, type) == KindOf(r.g.derived, type) \in References
Referent(r, type) == r.g.derived[type[2]].child

-----------------------------------------------------------------------------
(***************************************************************************)
(* Words.                                                                  *)
(***************************************************************************)
TargetAddress(r, offset) == r.base + offset
RuntimeAddress(r, word) == word >= r.base /\ word - r.base < r.layout.size

StoreTargetWord(r, slot, word) == [r EXCEPT !.memory[slot] = word % (WordMask + 1)]

WriteAddress(r, slot, word) ==
    IF RuntimeAddress(r, word) /\ word <= WordMask THEN StoreTargetWord(r, slot, word)
    ELSE Refused(r)

EncodePendingLink(link) == WordMask - link
PendingLink(word) == IF WordMask - word \in 1 .. MaxLinkSlot THEN WordMask - word ELSE 0

UnconnectedAddress(r, type) == TargetAddress(r, UnconnectedOffset(r.layout, type))

\* Mutant: the words of pending links are taken for addresses.
RangeCompatible_AnyWord(base, size) ==
    /\ base # 0 /\ base <= WordMask
    /\ size # 0 => size - 1 <= WordMask - base

\* fixed_direct_target_range_compatible: no address of the Runtime is 0 or looks
\* like a pending link.
RangeCompatible(base, size) ==
    /\ base # 0 /\ base <= WordMask
    /\ size # 0 => size - 1 <= WordMask - base
    /\ base + Max({size, 1}) - 1 < WordMask - MaxLinkSlot

-----------------------------------------------------------------------------
(***************************************************************************)
(* Places: an offset, the type of the value there and, for a member, its   *)
(* record, the offset of the record and its position in it.                *)
(***************************************************************************)
PlaceAt(at, type) == [at |-> at, type |-> type, record |-> 0, start |-> 0, local |-> 0]

MemberPlace(r, h, start, local) ==
    [at |-> start + MemberOffset(r.layout, h, local),
     type |-> MembersOf(r.g, h)[local].type, record |-> h, start |-> start, local |-> local]

StepPlace(r, place, step) ==
    LET t == Unqualified(r.g.derived, place.type) IN
    IF step[1] = "member" THEN MemberPlace(r, t[2], place.at, step[2] + 1)
    ELSE LET child == r.g.derived[t[2]].child
         IN PlaceAt(place.at + step[2] * ValueLayout(r.layout, child).size, child)

ObjectPlace(r, object) == PlaceAt(ObjectOffset(r.layout, object), r.g.objects[object].type)

\* An endpoint is a path of steps below an object or a member of it.
EndpointPathPlace(r, e) ==
    FoldLeft(LAMBDA place, step : StepPlace(r, place, step), ObjectPlace(r, e.object),
             r.g.paths[e.member[2]].steps)

DirectEndpointPlace(r, e) ==
    LET record == Unqualified(r.g.derived, r.g.objects[e.object].type)[2]
    IN MemberPlace(r, record, ObjectOffset(r.layout, e.object), e.member[2] + 1)

EndpointPlace(r, e) ==
    IF e.member[1] = "path" THEN EndpointPathPlace(r, e) ELSE DirectEndpointPlace(r, e)

\* What the construction of a reference member binds it to: another member of
\* the same record, a static object, or nothing.  A static object that is a
\* reference itself is never connected.
UnconnectedPlace(r, type) ==
    PlaceAt(UnconnectedOffset(r.layout, Referent(r, type)), Referent(r, type))

BoundMember(r, place, local) == MemberPlace(r, place.record, place.start, local)

BoundObject(r, object) ==
    IF IsReference(r, r.g.objects[object].type)
    THEN UnconnectedPlace(r, r.g.objects[object].type)
    ELSE ObjectPlace(r, object)

ConstructionPlace(r, place) ==
    LET c == ConstructionsOf(r.g, place.record)[place.local] IN
    CASE c[1] = "zero" -> UnconnectedPlace(r, place.type)
      [] c[1] = "member" -> BoundMember(r, place, c[2])
      [] c[1] = "object" -> BoundObject(r, c[2])

\* Where a reference slot is sent on to: the source of its link, if a link is
\* pending in it, and what its construction says otherwise.
AdvanceReference(r, place) ==
    LET link == PendingLink(r.memory[place.at])
    IN IF link # 0 THEN EndpointPlace(r, r.g.links[link].source)
       ELSE ConstructionPlace(r, place)

-----------------------------------------------------------------------------
(***************************************************************************)
(* resolve_reference_member: a walk from slot to slot, which marks the     *)
(* slots it leaves and ends at a value, at a resolved slot or, refused, at *)
(* a slot it has marked.  A slot left last, with no other behind it, is    *)
(* not marked: the caller writes it.                                       *)
(***************************************************************************)
Walk(r, place) == [r |-> r, place |-> place, path |-> <<>>, output |-> 0, ended |-> FALSE]

\* The walk found what the slots behind it stand for.
EndWalk(w, word) ==
    [w EXCEPT !.output = word, !.ended = TRUE,
              !.r = FoldLeft(LAMBDA r, slot : IF Failed(r) THEN r ELSE WriteAddress(r, slot, word),
                             IF RuntimeAddress(w.r, word) THEN w.r ELSE Refused(w.r), w.path)]

RefuseWalk(w) == [w EXCEPT !.ended = TRUE, !.r = Refused(w.r)]

LeaveSlot(w) ==
    [w EXCEPT !.r = StoreTargetWord(w.r, w.place.at, Visiting), !.path = Append(@, w.place.at)]

Hop(w) ==
    LET stored == w.r.memory[w.place.at]
        link == PendingLink(stored)
        next == AdvanceReference(w.r, w.place)
        stale == link > Len(w.r.slots) \/ (link # 0 /\ w.r.slots[link] # w.place.at)
    IN IF stored = Visiting \/ stale THEN RefuseWalk(w)
       ELSE IF stored # 0 /\ link = 0 THEN EndWalk(w, stored)
       ELSE IF IsReference(w.r, next.type) THEN [LeaveSlot(w) EXCEPT !.place = next]
       ELSE EndWalk(IF w.path = <<>> THEN w ELSE LeaveSlot(w), TargetAddress(w.r, next.at))

ResolveReference(r, place) ==
    LET steps == [k \in 1 .. r.layout.size \div WordSize(r.abi.target) + 1 |-> k]
        walk == FoldLeft(LAMBDA w, k : IF w.ended THEN w ELSE Hop(w), Walk(r, place), steps)
    IN IF walk.ended THEN walk ELSE RefuseWalk(walk)

\* The value an endpoint stands for, through the reference it may be.
ResolveEndpoint(r, e) ==
    LET place == EndpointPlace(r, e)
    IN IF IsReference(r, place.type) THEN ResolveReference(r, place)
       ELSE [Walk(r, place) EXCEPT !.output = TargetAddress(r, place.at), !.ended = TRUE]

-----------------------------------------------------------------------------
(***************************************************************************)
(* Values.  The leaves of a value are its scalars and references, in the   *)
(* order they are written: those of the bases of a record, then those of   *)
(* its members.  A leaf is a place and the construction of the value.      *)
(***************************************************************************)
Leaf(place, c) == [place |-> place, cons |-> c]

LeavesOf(r, type, at, c) ==
    LET g == r.g
        Constructions == Range(g.memberCons) \cup Range(g.objectCons) \cup {Zero}
        leaves[t \in TypeRefs(g), start \in 0 .. r.layout.size, cons \in Constructions] ==
            LET kind == KindOf(g.derived, t)
                child == g.derived[t[2]].child
                ofBase(i) == leaves[BaseTypes(g, t[2])[i], start + BaseOffset(r.layout, t[2], i), Zero]
                ofMember(i) ==
                    LET member == MemberPlace(r, t[2], start, i)
                        own == ConstructionsOf(g, t[2])[i]
                    IN IF IsReference(r, member.type) THEN <<Leaf(member, own)>>
                       ELSE leaves[member.type, member.at, own]
                ofElement(i) == leaves[child, start + (i - 1) * ValueLayout(r.layout, child).size, Zero]
            IN CASE kind = "named" /\ g.types[t[2]].kind # "union" ->
                      FlattenSeq([i \in DOMAIN BasesOf(g, t[2]) |-> ofBase(i)])
                      \o FlattenSeq([i \in DOMAIN MembersOf(g, t[2]) |-> ofMember(i)])
                 [] kind \in Qualifiers -> leaves[child, start, cons]
                 [] kind = "bounded_array" ->
                      FlattenSeq([i \in 1 .. g.derived[t[2]].payload |-> ofElement(i)])
                 [] OTHER -> <<Leaf(PlaceAt(start, t), cons)>>
    IN leaves[type, at, c]

\* write_integer: wider integers than a char hold every number of the model.
IntegerFits(name, v) == name = "char" => v \in -128 .. 127
StoredInteger(name, v) == IF name = "bool" THEN (IF v = 0 THEN 0 ELSE 1) ELSE v

\* canonical_value and normal_value of an object that is a reference itself.
WriteUnconnected(r, leaf) ==
    CASE IsReference(r, leaf.place.type) ->
            WriteAddress(r, leaf.place.at, UnconnectedAddress(r, Referent(r, leaf.place.type)))
      [] leaf.place.type[1] = "named" -> Refused(r)
      [] OTHER -> r

WriteScalar(r, leaf) ==
    LET t == leaf.place.type
        c == leaf.cons
    IN CASE t[1] = "named" -> Refused(r)
         [] t[1] = "intrinsic" /\ c[1] = "integer" ->
              IF IntegerFits(t[2], c[2])
              THEN StoreTargetWord(r, leaf.place.at, StoredInteger(t[2], c[2]))
              ELSE Refused(r)
         [] OTHER -> r

\* A reference member that a link or a walk has resolved is left alone.
WriteReferenceMember(r, place) ==
    IF RuntimeAddress(r, r.memory[place.at]) THEN r
    ELSE LET walk == ResolveReference(r, place)
         IN IF Failed(walk.r) THEN walk.r ELSE WriteAddress(walk.r, place.at, walk.output)

WriteLeaf(r, leaf) ==
    CASE Failed(r) -> r
      [] ~Failed(r) /\ ~IsReference(r, leaf.place.type) -> WriteScalar(r, leaf)
      [] ~Failed(r) /\ IsReference(r, leaf.place.type) ->
            IF leaf.place.record = 0 THEN WriteUnconnected(r, leaf)
            ELSE WriteReferenceMember(r, leaf.place)

\* normal_value and canonical_value: a value, and the one that is never connected.
FillNormal(r, type, at, c) == FoldLeft(WriteLeaf, r, LeavesOf(r, type, at, c))

FillCanonical(r, type, at) ==
    FoldLeft(LAMBDA s, leaf : IF Failed(s) THEN s ELSE WriteUnconnected(s, leaf),
             r, LeavesOf(r, type, at, Zero))

-----------------------------------------------------------------------------
(***************************************************************************)
(* The passes.                                                             *)
(***************************************************************************)
MaterializerInit ==
    runtime = [phase |-> "unloaded", g |-> EmptyGraph, abi |-> <<>>, base |-> 0, index |-> 0,
               layout |-> NoLayout, memory |-> <<>>, slots |-> <<>>]

\* create_resident_project is given an opened Project.
OpenProject ==
    /\ runtime.phase = "unloaded"
    /\ \E load \in Loads :
          runtime' = [runtime EXCEPT !.phase = "opened", !.g = load.graph, !.abi = load.abi,
                                     !.base = load.base]

\* The layout, the range of addresses and the zeroed shared memory.
PrepareRuntime ==
    LET layout == PrepareRuntimeLayout(runtime.g, runtime.abi)
    IN /\ runtime.phase = "opened"
       /\ runtime' = IF layout = NoLayout \/ ~RangeCompatible(runtime.base, layout.size)
                     THEN Refused(runtime)
                     ELSE [runtime EXCEPT !.phase = "unconnected", !.layout = layout,
                                          !.memory = [o \in 0 .. layout.size - 1 |-> 0]]

\* One step of a pass over count entities, and then the next pass.
Pass(phase, count, done, next) ==
    /\ runtime.phase = phase
    /\ runtime' = IF runtime.index < count THEN [next EXCEPT !.index = @ + 1]
                  ELSE [runtime EXCEPT !.phase = done, !.index = 0]

MaterializeUnconnected ==
    LET type == runtime.layout.sentinels[runtime.index + 1]
    IN Pass("unconnected", Len(runtime.layout.sentinels), "mark",
            FillCanonical(runtime, type, UnconnectedOffset(runtime.layout, type)))

MarkLink(r, link) ==
    LET place == EndpointPlace(r, r.g.links[link].target)
    IN IF IsReference(r, place.type) /\ r.memory[place.at] = 0
       THEN [StoreTargetWord(r, place.at, EncodePendingLink(link)) EXCEPT
                !.slots = Append(@, place.at)]
       ELSE Refused(r)

MarkLinkTargets ==
    Pass("mark", Len(runtime.g.links), "links", MarkLink(runtime, runtime.index + 1))

\* A link whose slot a walk has passed through is resolved already.
MaterializeLink(r, link) ==
    LET stored == r.memory[r.slots[link]]
        source == ResolveEndpoint(r, r.g.links[link].source)
    IN CASE RuntimeAddress(r, stored) -> r
         [] ~RuntimeAddress(r, stored) /\ PendingLink(stored) # link -> Refused(r)
         [] ~RuntimeAddress(r, stored) /\ PendingLink(stored) = link ->
              IF Failed(source.r) THEN source.r
              ELSE WriteAddress(source.r, r.slots[link], source.output)

MaterializeLinks ==
    Pass("links", Len(runtime.g.links), "objects", MaterializeLink(runtime, runtime.index + 1))

MaterializeObject(r, object) ==
    LET entry == r.g.objects[object]
    IN FillNormal(r, entry.type, ObjectOffset(r.layout, object),
                  ObjectConstruction(r.g.objectCons, entry))

MaterializeObjects ==
    Pass("objects", Len(runtime.g.objects), "resident",
         MaterializeObject(runtime, runtime.index + 1))

MaterializerNext ==
    \/ OpenProject
    \/ PrepareRuntime
    \/ MaterializeUnconnected
    \/ MarkLinkTargets
    \/ MaterializeLinks
    \/ MaterializeObjects

-----------------------------------------------------------------------------
(***************************************************************************)
(* Properties.                                                             *)
(***************************************************************************)
Cell(at, size, alignment) == [at |-> at, size |-> size, alignment |-> alignment]

\* The bytes a value of type t at start consists of: scalars, references, vfptrs
\* and whole unions.
CellsOf(r, type, at) ==
    LET word == WordSize(r.abi.target)
        cells[t \in TypeRefs(r.g), start \in 0 .. r.layout.size] ==
            LET kind == KindOf(r.g.derived, t)
                value == r.layout.values[t]
                record == kind = "named" /\ r.g.types[t[2]].kind # "union"
                child == r.g.derived[t[2]].child
                ofBase(i) == cells[BaseTypes(r.g, t[2])[i], start + value.bases[i]]
                ofMember(i) == cells[MemberTypes(r.g, t[2])[i], start + value.members[i]]
                ofElement(i) == cells[child, start + (i - 1) * r.layout.values[child].size]
            IN CASE record -> (IF OwnVfptr(r.g, t[2]) THEN <<Cell(start, word, word)>> ELSE <<>>)
                              \o FlattenSeq([i \in DOMAIN value.bases |-> ofBase(i)])
                              \o FlattenSeq([i \in DOMAIN value.members |-> ofMember(i)])
                 [] kind \in Qualifiers -> cells[child, start]
                 [] kind = "bounded_array" ->
                      FlattenSeq([i \in 1 .. r.g.derived[t[2]].payload |-> ofElement(i)])
                 [] OTHER -> <<Cell(start, value.size, value.alignment)>>
    IN cells[type, at]

RuntimeCells(r) ==
    FlattenSeq([u \in DOMAIN r.layout.sentinels |->
                    CellsOf(r, r.layout.sentinels[u], r.layout.unconnected[r.layout.sentinels[u]])])
    \o FlattenSeq([o \in DOMAIN r.g.objects |->
                    CellsOf(r, r.g.objects[o].type, r.layout.objects[o])])

\* No two scalars, references or vfptrs of a Runtime share a byte, wherever their
\* records are nested or inherited, each lies inside the Runtime and is aligned as
\* the pack of the abi allows, and every type referred to has its unconnected value.
LayoutSound ==
    runtime.phase = "unconnected" /\ runtime.index = 0 =>
        LET cells == RuntimeCells(runtime) IN
        /\ \A i \in DOMAIN cells :
              /\ cells[i].at + cells[i].size <= runtime.layout.size
              /\ cells[i].at % Packed(cells[i], runtime.abi.pack) = 0
              /\ \A j \in 1 .. i - 1 : \/ cells[j].at + cells[j].size <= cells[i].at
                                       \/ cells[i].at + cells[i].size <= cells[j].at
        /\ \A t \in DOMAIN runtime.layout.values :
              IsReference(runtime, t) => Referent(runtime, t) \in DOMAIN runtime.layout.unconnected

\* The reference members of the objects and all the leaves of the unconnected values.
ObjectLeaves(r) ==
    UNION {Range(LeavesOf(r, r.g.objects[o].type, r.layout.objects[o],
                          ObjectConstruction(r.g.objectCons, r.g.objects[o]))) :
              o \in DOMAIN r.g.objects}
UnconnectedLeaves(r) ==
    UNION {Range(LeavesOf(r, t, r.layout.unconnected[t], Zero)) : t \in Range(r.layout.sentinels)}
ReferenceMembers(r) ==
    {l.place : l \in {m \in ObjectLeaves(r) : m.place.record # 0 /\ IsReference(r, m.place.type)}}

\* What a reference member stands for: the source of the link to it, if there is
\* one, and what its construction says otherwise.
SourceOf(r, place) ==
    LET links == {l \in DOMAIN r.g.links : EndpointPlace(r, r.g.links[l].target).at = place.at}
    IN IF links = {} THEN ConstructionPlace(r, place)
       ELSE EndpointPlace(r, r.g.links[CHOOSE l \in links : TRUE].source)

\* References that stand for each other only.
CircularReferences(r) ==
    \E S \in SUBSET ReferenceMembers(r) :
        S # {} /\ \A p \in S : \E q \in S : q.at = SourceOf(r, p).at /\ IsReference(r, SourceOf(r, p).type)

\* What the layout accepts and the materializer does not: unions and a number too
\* large for its type.
Unwritable(r) ==
    \/ \E l \in ObjectLeaves(r) \cup UnconnectedLeaves(r) : l.place.type[1] = "named"
    \/ \E l \in ObjectLeaves(r) : /\ l.place.type[1] = "intrinsic" /\ l.cons[1] = "integer"
                                  /\ ~IntegerFits(l.place.type[2], l.cons[2])

\* A resident Runtime has in every reference the address of a value of exactly the
\* type it refers to: a reference member agrees with what it stands for, through
\* any chain of links and bindings and in whatever order they were resolved; any
\* other reference, in an unconnected value or an object, is unconnected.  Only a
\* circular chain or a value that cannot be written refuses a Runtime once it is
\* laid out, and no number of hops does.
RuntimeLinked ==
    /\ runtime.phase = "resident" =>
          /\ \A p \in ReferenceMembers(runtime) :
                LET source == SourceOf(runtime, p) IN
                IF IsReference(runtime, source.type)
                THEN runtime.memory[p.at] = runtime.memory[source.at]
                ELSE /\ runtime.memory[p.at] = TargetAddress(runtime, source.at)
                     /\ source.type = Referent(runtime, p.type)
          /\ \A l \in ObjectLeaves(runtime) \cup UnconnectedLeaves(runtime) :
                /\ IsReference(runtime, l.place.type) => RuntimeAddress(runtime, runtime.memory[l.place.at])
                /\ /\ IsReference(runtime, l.place.type)
                   /\ l \in UnconnectedLeaves(runtime) \/ l.place.record = 0
                   => runtime.memory[l.place.at]
                        = UnconnectedAddress(runtime, Referent(runtime, l.place.type))
          /\ ~CircularReferences(runtime) /\ ~Unwritable(runtime)
    /\ runtime.phase = "refused" /\ runtime.layout # NoLayout =>
          CircularReferences(runtime) \/ Unwritable(runtime)

=============================================================================
