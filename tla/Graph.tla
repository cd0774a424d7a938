------------------------------- MODULE Graph --------------------------------
(***************************************************************************)
(* The dense semantic graph of a Project (project/graph/graph.cpp): the    *)
(* tables of records, members, bases, objects, derived types, endpoint     *)
(* paths and links that PUBLISH and REBUILD fill.  Every operation maps a  *)
(* graph to its result; an operation the code refuses with                 *)
(* project_configuration_invalid, and one that runs out of memory and      *)
(* rolls back, returns the graph unchanged.  The open-addressing indexes   *)
(* are abstracted to the search they implement.                            *)
(*                                                                         *)
(* A type reference is a pair of its kind and its payload, a range a pair  *)
(* of its begin and its count.                                             *)
(***************************************************************************)
EXTENDS OpenIndex

CONSTANTS TypeIds, ObjectIds, Intrinsics

ASSUME GraphIntrinsics == {"int", "void"} \subseteq Intrinsics

NoType == <<"none", 0>>
IntType == <<"intrinsic", "int">>
Named(h) == <<"named", h>>
Derived(h) == <<"derived", h>>

Zero == <<"zero", 0>>
References == {"lvalue_reference", "rvalue_reference"}
Qualifiers == {"const", "volatile"}
Arrays == {"bounded_array", "unbounded_array"}
DerivedKinds == References \cup Qualifiers \cup Arrays \cup {"pointer"}
RecordKinds == {"struct", "class", "union"}

EmptyGraph ==
    [types |-> <<>>, typeIds |-> <<>>, bases |-> <<>>, members |-> <<>>,
     memberCons |-> <<>>, objects |-> <<>>, objectIds |-> <<>>,
     objectCons |-> <<>>, links |-> <<>>, derived |-> <<>>, paths |-> <<>>]

CompatibleKind(left, right) == (left = "union") <=> (right = "union")

FindType(g, id) == SlotOf(g.typeIds, id)
FindObject(g, id) == SlotOf(g.objectIds, id)

HasType(g, t) ==
    \/ t[1] = "intrinsic" /\ t[2] \in Intrinsics
    \/ t[1] = "named" /\ t[2] \in DOMAIN g.types
    \/ t[1] = "derived" /\ t[2] \in DOMAIN g.derived

Slice(table, range) == SubSeq(table, range[1] + 1, range[1] + range[2])
MembersOf(g, h) ==
    IF g.types[h].defined THEN Slice(g.members, g.types[h].members) ELSE <<>>
BasesOf(g, h) ==
    IF g.types[h].defined THEN Slice(g.bases, g.types[h].bases) ELSE <<>>
ConstructionsOf(g, h) ==
    IF g.types[h].defined THEN Slice(g.memberCons, g.types[h].members) ELSE <<>>

\* The initial value of an object: its slot of the construction table, if any.
ObjectConstruction(table, entry) ==
    IF entry.initialized THEN table[entry.slot] ELSE Zero

-----------------------------------------------------------------------------
(***************************************************************************)
(* Types.  d is the table of derived types; a child precedes its parent.   *)
(***************************************************************************)
Unqualified(d, t) ==
    LET strip[h \in DOMAIN d] ==
            IF d[h].kind \notin Qualifiers THEN Derived(h)
            ELSE IF d[h].child[1] = "derived" THEN strip[d[h].child[2]]
            ELSE d[h].child
    IN IF t[1] = "derived" THEN strip[t[2]] ELSE t

KindOf(d, t) == IF t[1] = "derived" THEN d[t[2]].kind ELSE t[1]

ReferenceBindingCompatible(d, target, source) ==
    /\ KindOf(d, target) \in References
    /\ d[target[2]].child = IF KindOf(d, source) \in References
                            THEN d[source[2]].child
                            ELSE source

ConstructionCompatible(d, type, c) ==
    LET t == Unqualified(d, type) IN
    CASE KindOf(d, t) \in References -> c[1] \in {"zero", "member", "object"}
      [] KindOf(d, t) = "pointer" -> c \in {Zero, <<"integer", 0>>}
      [] KindOf(d, t) \in {"bounded_array", "named"} -> c[1] = "zero"
      [] t[1] = "intrinsic" /\ t[2] # "void" -> c[1] \in {"zero", "integer"}
      [] OTHER -> FALSE

FindDerived(d, record) == SlotOf(d, record)

\* A record is appended once; its slot is its handle.
Intern(table, record) == IF SlotOf(table, record) = 0 THEN Append(table, record) ELSE table

\* A payload (the bound of an array) is given exactly for a bounded array, and
\* neither a reference nor void may be the child of what C++ forbids of them.
CanDerive(g, child, kind, payload) ==
    /\ HasType(g, child)
    /\ (kind = "bounded_array") <=> (payload # 0)
    /\ LET plain == Unqualified(g.derived, child) IN
       /\ KindOf(g.derived, plain) \in References => kind \in Qualifiers
       /\ plain = <<"intrinsic", "void">> => kind \in Qualifiers \cup {"pointer"}

Derive(g, child, kind, payload) ==
    IF CanDerive(g, child, kind, payload)
    THEN [g EXCEPT !.derived = Intern(@, [child |-> child, kind |-> kind,
                                          payload |-> payload])]
    ELSE g

-----------------------------------------------------------------------------
(***************************************************************************)
(* Records.                                                                *)
(***************************************************************************)
Undefined(kind) ==
    [kind |-> kind, defined |-> FALSE, polymorphic |-> FALSE,
     members |-> <<0, 0>>, bases |-> <<0, 0>>]

DeclareRecord(g, id, kind) ==
    IF FindType(g, id) # 0 THEN g
    ELSE [g EXCEPT !.types = Append(@, Undefined(kind)),
                   !.typeIds = Append(@, id)]

Polymorphic(g, bases, virtual) ==
    virtual \/ \E b \in Range(bases) : g.types[b].polymorphic

ValidBases(g, h, kind, bases, virtual) ==
    /\ kind = "union" => bases = <<>> /\ ~virtual
    /\ \A i \in DOMAIN bases :
          /\ bases[i] \in DOMAIN g.types \ {h}
          /\ g.types[bases[i]].defined
          /\ g.types[bases[i]].kind # "union"
    /\ IsInjective(bases)

\* The members of a definition and their constructions; cons is as long as
\* members.  statics gives the types of the live internal static objects.
ValidMembers(d, members, cons, statics) ==
    \A i \in DOMAIN members :
       /\ ConstructionCompatible(d, members[i].type, cons[i])
       /\ cons[i][1] = "member" =>
             /\ cons[i][2] \in DOMAIN members
             /\ ReferenceBindingCompatible(d, members[i].type, members[cons[i][2]].type)
       /\ cons[i][1] = "object" =>
             /\ cons[i][2] \in DOMAIN statics
             /\ ReferenceBindingCompatible(d, members[i].type, statics[cons[i][2]])

CanDefine(g, h, kind, members, cons, bases, virtual) ==
    /\ h \in DOMAIN g.types
    /\ CompatibleKind(g.types[h].kind, kind)
    /\ ValidBases(g, h, kind, bases, virtual)
    /\ \A m \in Range(members) : HasType(g, m.type)
    /\ LET statics == {s \in DOMAIN g.objects : g.objects[s].static}
       IN ValidMembers(g.derived, members, cons, [s \in statics |-> g.objects[s].type])

\* Mutant: a second definition replaces the first as long as no path is interned.
DefineRecord_UnlessPath(g, h, kind, members, cons, bases, virtual) ==
    IF \/ ~CanDefine(g, h, kind, members, cons, bases, virtual)
       \/ g.types[h].defined /\ g.paths # <<>>
    THEN g
    ELSE [g EXCEPT
            !.types[h] = [kind |-> kind, defined |-> TRUE,
                          polymorphic |-> Polymorphic(g, bases, virtual),
                          members |-> <<Len(g.members), Len(members)>>,
                          bases |-> <<Len(g.bases), Len(bases)>>],
            !.bases = @ \o bases,
            !.members = @ \o members,
            !.memberCons = @ \o cons]

\* A second definition is accepted when it is identical, and changes nothing.
DefineRecord(g, h, kind, members, cons, bases, virtual) ==
    IF ~CanDefine(g, h, kind, members, cons, bases, virtual) \/ g.types[h].defined
    THEN g
    ELSE [g EXCEPT
            !.types[h] = [kind |-> kind, defined |-> TRUE,
                          polymorphic |-> Polymorphic(g, bases, virtual),
                          members |-> <<Len(g.members), Len(members)>>,
                          bases |-> <<Len(g.bases), Len(bases)>>],
            !.bases = @ \o bases,
            !.members = @ \o members,
            !.memberCons = @ \o cons]

-----------------------------------------------------------------------------
(***************************************************************************)
(* Objects.                                                                *)
(***************************************************************************)
ValidInitial(d, type, initialized, initial) ==
    /\ ConstructionCompatible(d, type, initial)
    /\ ~initialized => initial = Zero
    /\ initial[1] \notin {"member", "object"}

AddObject(g, id, type, static, initialized, initial) ==
    IF \/ ~HasType(g, type)
       \/ ~ValidInitial(g.derived, type, initialized, initial)
       \/ FindObject(g, id) # 0
    THEN g
    ELSE [g EXCEPT
            !.objectCons = IF initialized THEN Append(@, initial) ELSE @,
            !.objects = Append(@, [type |-> type, static |-> static,
                                   initialized |-> initialized,
                                   slot |-> IF initialized
                                            THEN Len(g.objectCons) + 1 ELSE 0]),
            !.objectIds = Append(@, id)]

-----------------------------------------------------------------------------
(***************************************************************************)
(* Endpoints: a direct member of an object, or an interned path of member  *)
(* and array steps below the type of the object.                           *)
(***************************************************************************)
Step(g, type, step) ==
    LET t == Unqualified(g.derived, type) IN
    CASE step[1] = "member" /\ t[1] = "named" /\ t[2] \in DOMAIN g.types ->
            IF step[2] < Len(MembersOf(g, t[2]))
            THEN MembersOf(g, t[2])[step[2] + 1].type ELSE NoType
      [] step[1] = "index" /\ KindOf(g.derived, t) = "bounded_array" ->
            IF step[2] < g.derived[t[2]].payload
            THEN g.derived[t[2]].child ELSE NoType
      [] OTHER -> NoType

ResolveEndpointPath(g, root, steps) ==
    LET type[n \in 0 .. Len(steps)] ==
            IF n = 0 THEN root ELSE Step(g, type[n - 1], steps[n])
    IN type[Len(steps)]

\* A path is interned on its root and its steps, with the type it led to then.
FindEndpointPath(g, root, steps) ==
    SlotOf([p \in DOMAIN g.paths |-> <<g.paths[p].root, g.paths[p].steps>>], <<root, steps>>)

InternEndpointPath(g, root, steps) ==
    IF \/ ~HasType(g, root)
       \/ ~HasType(g, ResolveEndpointPath(g, root, steps))
       \/ FindEndpointPath(g, root, steps) # 0
    THEN g
    ELSE [g EXCEPT !.paths = Append(@, [root |-> root, steps |-> steps,
                                        value |-> ResolveEndpointPath(g, root, steps)])]

\* A path endpoint has the type its path was interned with, provided the path
\* starts at the type of the object.
EndpointType(g, e) ==
    IF e.member[1] = "path"
    THEN IF g.paths[e.member[2]].root = g.objects[e.object].type
         THEN g.paths[e.member[2]].value ELSE NoType
    ELSE Step(g, g.objects[e.object].type, e.member)

FindLinkTarget(g, target) ==
    SlotOf([l \in DOMAIN g.links |-> g.links[l].target], target)

LinkTyped(g, source, target) ==
    /\ EndpointType(g, source) # NoType
    /\ EndpointType(g, target) # NoType
    /\ ReferenceBindingCompatible(g.derived, EndpointType(g, target),
                                  EndpointType(g, source))

AddLink(g, source, target) ==
    IF ~LinkTyped(g, source, target) \/ FindLinkTarget(g, target) # 0 THEN g
    ELSE [g EXCEPT !.links = Append(@, [source |-> source, target |-> target])]

=============================================================================
