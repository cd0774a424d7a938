----------------------------- MODULE GraphDelta -----------------------------
(***************************************************************************)
(* The graph of a BUILD (project/graph/graph_delta.cpp): the compiled      *)
(* graph of the last construction, which is read only, and a delta over    *)
(* it.  A baseline slot that is changed or retired has a patch with the    *)
(* whole entry; new entries are appended behind the baseline's slots.      *)
(* Before bind_baseline this module fills the baseline with the operations *)
(* of Graph, so that every baseline is one the constructions can write.    *)
(* The open-addressing index of link targets is the function targets, the  *)
(* overlay of identities the identity tables themselves: both only grow    *)
(* with them.                                                              *)
(***************************************************************************)
EXTENDS Graph

CONSTANTS Kinds,            \* record kinds, of RecordKinds
          Derivations,      \* derived types asked for: [child, kind, payload]
          Definitions,      \* definitions asked for: [members, cons], equally long
          ObjectTypes,      \* type references objects are added with
          Initials,         \* their [static, initialized, initial]
          Paths,            \* endpoint paths asked for: [root, steps]
          MaxMembers,       \* bound on the members of a definition
          MaxFills,         \* bound on the operations that write the baseline
          MaxEdits          \* bound on the operations on the delta

\* A sequence, of whatever records.
IsTable(s) == s \in Seq(ToSet(s))

ASSUME GraphMenus ==
    /\ Kinds \subseteq RecordKinds
    /\ \A r \in Derivations : r.kind \in DerivedKinds
    /\ \A r \in Definitions :
          /\ IsTable(r.members) /\ IsTable(r.cons)
          /\ Len(r.members) = Len(r.cons) /\ Len(r.members) <= MaxMembers
    /\ \A p \in Paths : IsTable(p.steps) /\ \A n \in DOMAIN p.steps : p.steps[n][2] \in Nat

ASSUME GraphBounds == {MaxMembers, MaxFills, MaxEdits} \subseteq Nat

VARIABLES graph, delta, bound, edits

graphVars == <<graph, delta, bound, edits>>

NoPatch == [s \in {} |-> 0]

EmptyDelta ==
    [types |-> <<>>, typeIds |-> <<>>, typeLive |-> <<>>, typePatch |-> NoPatch,
     members |-> <<>>, memberCons |-> <<>>,
     objects |-> <<>>, objectIds |-> <<>>, objectLive |-> <<>>,
     objectPatch |-> NoPatch, objectCons |-> <<>>,
     links |-> <<>>, linkLive |-> <<>>, linkPatch |-> NoPatch,
     targets |-> NoPatch, derived |-> <<>>,
     liveTypes |-> 0, liveObjects |-> 0, liveLinks |-> 0]

-----------------------------------------------------------------------------
(***************************************************************************)
(* Reading through the delta.  A slot above the baseline's count is local. *)
(***************************************************************************)
AllDerived == graph.derived \o delta.derived

\* Location of an identity: the overlay first, then the baseline.
LineageType(id) ==
    IF SlotOf(delta.typeIds, id) # 0
    THEN Len(graph.types) + SlotOf(delta.typeIds, id)
    ELSE FindType(graph, id)
LineageObject(id) ==
    IF SlotOf(delta.objectIds, id) # 0
    THEN Len(graph.objects) + SlotOf(delta.objectIds, id)
    ELSE FindObject(graph, id)

TypeSlots == 1 .. (Len(graph.types) + Len(delta.types))
ObjectSlots == 1 .. (Len(graph.objects) + Len(delta.objects))
LinkSlots == 1 .. (Len(graph.links) + Len(delta.links))

SlotLive(h, base, patches, live) ==
    IF h <= base THEN h \in DOMAIN patches => patches[h].live ELSE live[h - base]

ContainsType(h) ==
    /\ h \in TypeSlots
    /\ SlotLive(h, Len(graph.types), delta.typePatch, delta.typeLive)
ContainsObject(h) ==
    /\ h \in ObjectSlots
    /\ SlotLive(h, Len(graph.objects), delta.objectPatch, delta.objectLive)
ContainsLink(h) ==
    /\ h \in LinkSlots
    /\ SlotLive(h, Len(graph.links), delta.linkPatch, delta.linkLive)

\* find_type and find_object: a retired entry is not found.
FindLive(h, live) == IF h \in live THEN h ELSE 0

\* A derived type is contained when the type below its derivations is.
ContainsRef(t) ==
    LET below[h \in DOMAIN AllDerived] ==
            IF AllDerived[h].child[1] = "derived"
            THEN below[AllDerived[h].child[2]] ELSE AllDerived[h].child
        root == IF t[1] = "derived" THEN below[t[2]] ELSE t
    IN /\ t[1] = "derived" => t[2] \in DOMAIN AllDerived
       /\ \/ root[1] = "intrinsic"
          \/ root[1] = "named" /\ ContainsType(root[2])

Entry(h, base, patches, old, new) ==
    IF h > base THEN new[h - base]
    ELSE IF h \in DOMAIN patches THEN patches[h].value
    ELSE old[h]

TypeEntry(h) == Entry(h, Len(graph.types), delta.typePatch, graph.types, delta.types)
ObjectEntry(h) ==
    Entry(h, Len(graph.objects), delta.objectPatch, graph.objects, delta.objects)
LinkEntry(h) == Entry(h, Len(graph.links), delta.linkPatch, graph.links, delta.links)

Patched(h) == h > Len(graph.types) \/ h \in DOMAIN delta.typePatch

\* Member records of a type: those of the baseline for an unpatched baseline
\* type; otherwise the records at the logical position of the entry, which must
\* lie behind the baseline's (a type whose records cannot be reached has none).
DeltaRange(h, old, new) ==
    LET range == TypeEntry(h).members IN
    IF ~TypeEntry(h).defined THEN <<>>
    ELSE IF ~Patched(h) THEN Slice(old, range)
    ELSE IF range[1] >= Len(old) /\ range[1] - Len(old) + range[2] <= Len(new)
    THEN Slice(new, <<range[1] - Len(old), range[2]>>)
    ELSE <<>>

DeltaMembers(h) == DeltaRange(h, graph.members, delta.members)
DeltaConstructions(h) == DeltaRange(h, graph.memberCons, delta.memberCons)

DeltaObjectConstruction(h) ==
    IF h <= Len(graph.objects)
    THEN IF h \in DOMAIN delta.objectPatch
         THEN delta.objectPatch[h].construction
         ELSE ObjectConstruction(graph.objectCons, graph.objects[h])
    ELSE LET entry == ObjectEntry(h) IN
         IF entry.initialized
         THEN delta.objectCons[entry.slot - Len(graph.objectCons)] ELSE Zero

-----------------------------------------------------------------------------
(***************************************************************************)
(* Patches: a changed baseline slot takes its whole entry along.           *)
(***************************************************************************)
WithPatch(patches, h, value) ==
    [s \in DOMAIN patches \cup {h} |-> IF s = h THEN value ELSE patches[s]]

PatchType(h, entry, live) ==
    [delta EXCEPT !.typePatch = WithPatch(@, h, [value |-> entry, live |-> live])]

SetType(h, entry) ==
    IF h <= Len(graph.types) THEN PatchType(h, entry, TRUE)
    ELSE [delta EXCEPT !.types[h - Len(graph.types)] = entry,
                       !.typeLive[h - Len(graph.types)] = TRUE]

BindBaseline ==
    /\ ~bound
    /\ bound' = TRUE
    /\ edits' = 0
    /\ delta' = [EmptyDelta EXCEPT !.liveTypes = Len(graph.types),
                                   !.liveObjects = Len(graph.objects),
                                   !.liveLinks = Len(graph.links)]
    /\ UNCHANGED graph

-----------------------------------------------------------------------------
(***************************************************************************)
(* Records.                                                                *)
(***************************************************************************)
DeltaDeclareRecord(id, kind) ==
    LET h == LineageType(id) IN
    /\ bound
    /\ ~ContainsType(h)
    /\ delta' = IF h # 0
                THEN [SetType(h, Undefined(kind)) EXCEPT !.liveTypes = @ + 1]
                ELSE [delta EXCEPT !.types = Append(@, Undefined(kind)),
                                   !.typeIds = Append(@, id),
                                   !.typeLive = Append(@, TRUE),
                                   !.liveTypes = @ + 1]
    /\ UNCHANGED <<graph, bound>>

ClearDefinition(h) ==
    /\ bound
    /\ ContainsType(h)
    /\ TypeEntry(h).defined
    /\ delta' = SetType(h, Undefined(TypeEntry(h).kind))
    /\ UNCHANGED <<graph, bound>>

RetireType(h) ==
    /\ bound
    /\ ContainsType(h)
    /\ delta' = [IF h <= Len(graph.types) THEN PatchType(h, TypeEntry(h), FALSE)
                 ELSE [delta EXCEPT !.typeLive[h - Len(graph.types)] = FALSE]
                 EXCEPT !.liveTypes = @ - 1]
    /\ UNCHANGED <<graph, bound>>

CanDefineDelta(h, kind, members, cons) ==
    /\ ContainsType(h)
    /\ CompatibleKind(TypeEntry(h).kind, kind)
    /\ \A m \in Range(members) : ContainsRef(m.type)
    /\ LET statics == {s \in ObjectSlots : ContainsObject(s) /\ ObjectEntry(s).static}
       IN ValidMembers(AllDerived, members, cons, [s \in statics |-> ObjectEntry(s).type])

DefinedAt_Local(kind, count) ==
    [kind |-> kind, defined |-> TRUE, polymorphic |-> FALSE, bases |-> <<0, 0>>,
     members |-> <<Len(delta.members), count>>]

\* The records of a definition lie behind all records of the baseline.
DefinedAt(kind, count) ==
    [kind |-> kind, defined |-> TRUE, polymorphic |-> FALSE, bases |-> <<0, 0>>,
     members |-> <<Len(graph.members) + Len(delta.members), count>>]

\* A second definition is accepted when it is identical, and changes nothing.
DeltaDefineRecord(h, kind, members, cons) ==
    /\ bound
    /\ CanDefineDelta(h, kind, members, cons)
    /\ ~TypeEntry(h).defined
    /\ delta' = [SetType(h, DefinedAt(kind, Len(members)))
                 EXCEPT !.members = @ \o members, !.memberCons = @ \o cons]
    /\ UNCHANGED <<graph, bound>>

-----------------------------------------------------------------------------
(***************************************************************************)
(* Objects.                                                                *)
(***************************************************************************)
CanAddObject(id, type, initialized, initial) ==
    /\ ContainsRef(type)
    /\ ValidInitial(AllDerived, type, initialized, initial)
    /\ ~ContainsObject(LineageObject(id))

\* The entry of an object, its construction behind all constructions.
NewObject(type, static, initialized) ==
    [type |-> type, static |-> static, initialized |-> initialized,
     slot |-> IF initialized THEN Len(graph.objectCons) + Len(delta.objectCons) + 1 ELSE 0]

PatchObject(h, entry, construction, live) ==
    [delta EXCEPT !.objectPatch =
        WithPatch(@, h, [value |-> entry, construction |-> construction, live |-> live])]

\* A retired object is restored in its slot, with a construction of its own.
RestoreObject(h, entry, initial) ==
    IF h <= Len(graph.objects) THEN PatchObject(h, entry, initial, TRUE)
    ELSE [delta EXCEPT !.objects[h - Len(graph.objects)] = entry,
                       !.objectLive[h - Len(graph.objects)] = TRUE]

AppendObject(id, entry) ==
    [delta EXCEPT !.objects = Append(@, entry),
                  !.objectIds = Append(@, id),
                  !.objectLive = Append(@, TRUE)]

DeltaAddObject(id, type, static, initialized, initial) ==
    LET h == LineageObject(id)
        entry == NewObject(type, static, initialized)
    IN
    /\ bound
    /\ CanAddObject(id, type, initialized, initial)
    /\ delta' = [IF h = 0 THEN AppendObject(id, entry) ELSE RestoreObject(h, entry, initial)
                 EXCEPT !.objectCons = IF initialized THEN Append(@, initial) ELSE @,
                        !.liveObjects = @ + 1]
    /\ UNCHANGED <<graph, bound>>

RetireObject(h) ==
    /\ bound
    /\ ContainsObject(h)
    /\ delta' = [IF h <= Len(graph.objects)
                 THEN PatchObject(h, ObjectEntry(h), DeltaObjectConstruction(h), FALSE)
                 ELSE [delta EXCEPT !.objectLive[h - Len(graph.objects)] = FALSE]
                 EXCEPT !.liveObjects = @ - 1]
    /\ UNCHANGED <<graph, bound>>

-----------------------------------------------------------------------------
(***************************************************************************)
(* Derived types and links.  Unlike graph::derive, the delta checks only   *)
(* that the child is contained.                                            *)
(***************************************************************************)
DeltaFindDerived(record) ==
    IF FindDerived(delta.derived, record) # 0
    THEN Len(graph.derived) + FindDerived(delta.derived, record)
    ELSE FindDerived(graph.derived, record)

AppendDerived(record) == [delta EXCEPT !.derived = Append(@, record)]

DeltaDerive(child, kind, payload) ==
    LET record == [child |-> child, kind |-> kind, payload |-> payload] IN
    /\ bound
    /\ ContainsRef(child)
    /\ DeltaFindDerived(record) = 0
    /\ delta' = AppendDerived(record)
    /\ UNCHANGED <<graph, bound>>

IndexTarget(target, l) == WithPatch(delta.targets, target, l)

LineageLinkTarget(target) ==
    IF target \in DOMAIN delta.targets THEN delta.targets[target]
    ELSE FindLinkTarget(graph, target)

\* Only a direct member of an object whose type is a record itself.
DeltaEndpointType(e) ==
    IF /\ ContainsObject(e.object)
       /\ e.member[1] = "member"
       /\ ObjectEntry(e.object).type[1] = "named"
       /\ ContainsType(ObjectEntry(e.object).type[2])
       /\ e.member[2] < Len(DeltaMembers(ObjectEntry(e.object).type[2]))
    THEN DeltaMembers(ObjectEntry(e.object).type[2])[e.member[2] + 1].type
    ELSE NoType

DeltaLinkTyped(source, target) ==
    /\ DeltaEndpointType(source) # NoType
    /\ DeltaEndpointType(target) # NoType
    /\ ReferenceBindingCompatible(AllDerived, DeltaEndpointType(target),
                                  DeltaEndpointType(source))

PatchLink(l, record, live) ==
    [delta EXCEPT !.linkPatch = WithPatch(@, l, [value |-> record, live |-> live])]

AppendLink(record) ==
    [delta EXCEPT !.links = Append(@, record),
                  !.linkLive = Append(@, TRUE),
                  !.targets = IndexTarget(record.target,
                                          Len(graph.links) + Len(delta.links) + 1)]

RestoreLink_NewSlot(l, record) == AppendLink(record)

\* A retired link to this target is rewritten in its slot.
RestoreLink(l, record) ==
    IF l <= Len(graph.links) THEN PatchLink(l, record, TRUE)
    ELSE [delta EXCEPT !.links[l - Len(graph.links)] = record,
                       !.linkLive[l - Len(graph.links)] = TRUE]

DeltaAddLink(source, target) ==
    LET l == LineageLinkTarget(target)
        record == [source |-> source, target |-> target]
    IN
    /\ bound
    /\ DeltaLinkTyped(source, target)
    /\ ~ContainsLink(l)
    /\ delta' = [IF l = 0 THEN AppendLink(record) ELSE RestoreLink(l, record)
                 EXCEPT !.liveLinks = @ + 1]
    /\ UNCHANGED <<graph, bound>>

RetireLink(l) ==
    /\ bound
    /\ ContainsLink(l)
    /\ delta' = [IF l <= Len(graph.links) THEN PatchLink(l, LinkEntry(l), FALSE)
                 ELSE [delta EXCEPT !.linkLive[l - Len(graph.links)] = FALSE]
                 EXCEPT !.liveLinks = @ - 1]
    /\ UNCHANGED <<graph, bound>>

-----------------------------------------------------------------------------
(***************************************************************************)
(* The operations with their inputs.  A refused operation changes nothing. *)
(***************************************************************************)
MemberSteps == {"member"} \X (0 .. MaxMembers - 1)
MemberEndpoints == [object : ObjectSlots, member : MemberSteps]
EndpointsOf(g) ==
    [object : DOMAIN g.objects,
     member : MemberSteps \cup {<<"path", p>> : p \in DOMAIN g.paths}]

\* One accepted operation of the construction that writes the baseline.
Fill(next) ==
    /\ ~bound
    /\ next # graph
    /\ graph' = next
    /\ edits < MaxFills
    /\ edits' = edits + 1
    /\ UNCHANGED <<delta, bound>>

FillRecord ==
    \/ \E id \in TypeIds, kind \in Kinds : Fill(DeclareRecord(graph, id, kind))
    \/ \E h \in DOMAIN graph.types, kind \in Kinds, def \in Definitions, virtual \in BOOLEAN,
         bases \in {<<>>} \cup {<<b>> : b \in DOMAIN graph.types} :
         Fill(DefineRecord(graph, h, kind, def.members, def.cons, bases, virtual))
    \/ \E r \in Derivations : Fill(Derive(graph, r.child, r.kind, r.payload))

FillObject ==
    \/ \E id \in ObjectIds, type \in ObjectTypes, init \in Initials :
         Fill(AddObject(graph, id, type, init.static, init.initialized, init.initial))
    \/ \E p \in Paths : Fill(InternEndpointPath(graph, p.root, p.steps))
    \/ \E source, target \in EndpointsOf(graph) : Fill(AddLink(graph, source, target))

EditRecord ==
    \/ \E id \in TypeIds, kind \in Kinds : DeltaDeclareRecord(id, kind)
    \/ \E h \in TypeSlots : ClearDefinition(h) \/ RetireType(h)
    \/ \E h \in TypeSlots, kind \in Kinds, def \in Definitions :
         DeltaDefineRecord(h, kind, def.members, def.cons)
    \/ \E r \in Derivations : DeltaDerive(r.child, r.kind, r.payload)

EditObject ==
    \/ \E id \in ObjectIds, type \in ObjectTypes, init \in Initials :
         DeltaAddObject(id, type, init.static, init.initialized, init.initial)
    \/ \E h \in ObjectSlots : RetireObject(h)
    \/ \E source, target \in MemberEndpoints : DeltaAddLink(source, target)
    \/ \E l \in LinkSlots : RetireLink(l)

Edit ==
    /\ edits < MaxEdits
    /\ edits' = edits + 1
    /\ EditRecord \/ EditObject

GraphInit == graph = EmptyGraph /\ delta = EmptyDelta /\ bound = FALSE /\ edits = 0

GraphNext == FillRecord \/ FillObject \/ BindBaseline \/ Edit

GraphSpec == GraphInit /\ [][GraphNext]_graphVars

-----------------------------------------------------------------------------
(***************************************************************************)
(* Properties.                                                             *)
(***************************************************************************)
\* In the dense graph a link keeps the types it was checked with, although
\* types are declared and defined after it, no two links have one target, and
\* an interned path still leads where it led when it was interned
\* (graph::add_link, graph::intern_endpoint_path).
LinksStayTyped ==
    /\ \A l \in DOMAIN graph.links : LinkTyped(graph, graph.links[l].source,
                                                      graph.links[l].target)
    /\ IsInjective([l \in DOMAIN graph.links |-> graph.links[l].target])
    /\ \A p \in DOMAIN graph.paths :
          ResolveEndpointPath(graph, graph.paths[p].root, graph.paths[p].steps)
              = graph.paths[p].value

\* A defined type of the delta has all its members and constructions within
\* reach, whichever side they are stored on, and the live counters that size the
\* next compiled image count the contained slots (graph_delta::member,
\* construction, live_type_count).
DeltaReadable ==
    bound =>
        /\ \A h \in TypeSlots : ContainsType(h) /\ TypeEntry(h).defined =>
              /\ Len(DeltaMembers(h)) = TypeEntry(h).members[2]
              /\ Len(DeltaConstructions(h)) = TypeEntry(h).members[2]
        /\ delta.liveTypes = Cardinality({h \in TypeSlots : ContainsType(h)})
        /\ delta.liveObjects = Cardinality({h \in ObjectSlots : ContainsObject(h)})
        /\ delta.liveLinks = Cardinality({l \in LinkSlots : ContainsLink(l)})

TypeView(id) ==
    {[kind |-> TypeEntry(h).kind,
      members |-> IF TypeEntry(h).defined
                  THEN {<<DeltaMembers(h), DeltaConstructions(h)>>} ELSE {}] :
        h \in {FindLive(LineageType(id), {t \in TypeSlots : ContainsType(t)})} \ {0}}

ObjectView(id) ==
    {<<ObjectEntry(h).type, ObjectEntry(h).static, DeltaObjectConstruction(h)>> :
        h \in {FindLive(LineageObject(id), {o \in ObjectSlots : ContainsObject(o)})} \ {0}}

\* All direct endpoints an instance can have.
Targets == [object : 1 .. Cardinality(ObjectIds), member : MemberSteps]

LinkView(target) ==
    LET l == LineageLinkTarget(target) IN
    IF ContainsLink(l) THEN {LinkEntry(l).source} ELSE {}

HandleView(key) ==
    LET h == CASE key[1] = "type" -> LineageType(key[2])
               [] key[1] = "object" -> LineageObject(key[2])
               [] key[1] = "link" -> LineageLinkTarget(key[2])
    IN IF h = 0 THEN {} ELSE {h}

Map == INSTANCE GraphMap WITH
    typeMap <- [id \in TypeIds |-> TypeView(id)],
    objectMap <- [id \in ObjectIds |-> ObjectView(id)],
    linkMap <- [target \in Targets |-> LinkView(target)],
    handleOf <- [key \in ({"type"} \X TypeIds) \cup ({"object"} \X ObjectIds)
                             \cup ({"link"} \X Targets) |-> HandleView(key)]

\* The edits of a BUILD act on its baseline like updates of three maps: each
\* changes its own entry, a live object or link is never overwritten, a
\* redeclared type has no definition, handles stay (graph_delta, GraphMap).
DeltaImplementsMap == [][bound => Map!MapNext \/ UNCHANGED Map!mapVars]_graphVars
=============================================================================
