---------------------------- MODULE RuntimeLayout ----------------------------
(***************************************************************************)
(* The layout of a Runtime (project/runtime/runtime_layout.cpp): the size, *)
(* the alignment and the offsets of every type an object of the Project    *)
(* holds by value, of one canonical `unconnected' value per type a         *)
(* reference refers to, and of the objects themselves.                     *)
(*                                                                         *)
(* The slots of the code remember a layout once it is made.  They are read *)
(* only after they were filled from the same immutable tables, so a layout *)
(* is a function of the type here, and the state `visiting' is the set of  *)
(* types whose layout is being made.  A layout the code refuses            *)
(* (invalid_input, unsupported_type, overflow) is NoLayout: LOAD gives the *)
(* whole Runtime up then.  Virtual bases do not occur: the parser refuses  *)
(* them.                                                                   *)
(*                                                                         *)
(* An abi is a record of its target and its pack.                          *)
(***************************************************************************)
EXTENDS Graph

CONSTANT RecordLimit        \* invalid_record_offset: the largest uint32

ASSUME RecordLimitAssumption == RecordLimit \in Nat \ {0}

Windows == {"windows_x86", "windows_x64"}
AbiTargets == Windows \cup {"posix_x64"}
Packs == {1, 2, 4, 8, 16}
ValidAbi(abi) == abi.target \in AbiTargets /\ abi.pack \in Packs

\* Pointers and references; they are aligned to their size.
WordSize(target) == IF target = "windows_x86" THEN 4 ELSE 8

AlignUp(value, alignment) == ((value + alignment - 1) \div alignment) * alignment

Layout(size, alignment, bases, members) ==
    [size |-> size, alignment |-> alignment, bases |-> bases, members |-> members]
NoLayout == Layout(0, 0, <<>>, <<>>)
Scalar(size) == Layout(size, size, <<>>, <<>>)

IntrinsicLayout(name, target) ==
    CASE name \in {"bool", "char"} -> Scalar(1)
      [] name = "short" -> Scalar(2)
      [] name \in {"int", "float"} -> Scalar(4)
      [] name = "wchar" -> Scalar(IF target \in Windows THEN 2 ELSE 4)
      [] name = "long" -> Scalar(IF target \in Windows THEN 4 ELSE 8)
      [] name \in {"long long", "double"} -> Scalar(8)
      [] name = "long double" -> Scalar(IF target \in Windows THEN 8 ELSE 16)
      [] name = "nullptr" -> Scalar(WordSize(target))
      [] OTHER -> NoLayout

-----------------------------------------------------------------------------
(***************************************************************************)
(* Records.  parts maps the type of every base and member to its layout.   *)
(***************************************************************************)
MemberTypes(g, h) == [i \in DOMAIN MembersOf(g, h) |-> MembersOf(g, h)[i].type]
BaseTypes(g, h) == [i \in DOMAIN BasesOf(g, h) |-> Named(BasesOf(g, h)[i])]

Packed(layout, pack) == Min({layout.alignment, pack})

\* Mutant: the cursor goes on from before the padding.
Place_PaddingLost(layouts, pack, cursor) ==
    FoldLeft(LAMBDA placed, layout :
                [offsets |-> Append(placed.offsets, AlignUp(placed.cursor, Packed(layout, pack))),
                 cursor |-> placed.cursor + layout.size],
             [offsets |-> <<>>, cursor |-> cursor], layouts)

\* The offsets of values put one after the other from cursor on, and their end.
Place(layouts, pack, cursor) ==
    FoldLeft(LAMBDA placed, layout :
                LET offset == AlignUp(placed.cursor, Packed(layout, pack))
                IN [offsets |-> Append(placed.offsets, offset), cursor |-> offset + layout.size],
             [offsets |-> <<>>, cursor |-> cursor], layouts)

RecordAlignment(layouts, pack, least) ==
    Max({least} \cup {Packed(l, pack) : l \in Range(layouts)})

\* The bases in the order they are placed: the polymorphic ones, the primary
\* base first among them, and then the others.
BaseOrder(g, h) ==
    LET bases == BasesOf(g, h)
        polymorphic(i) == g.types[bases[i]].polymorphic
        plain(i) == ~polymorphic(i)
        positions == [i \in DOMAIN bases |-> i]
    IN SelectSeq(positions, polymorphic) \o SelectSeq(positions, plain)

\* A polymorphic record without a polymorphic base has a vfptr of its own.
OwnVfptr(g, h) ==
    g.types[h].polymorphic /\ \A b \in Range(BasesOf(g, h)) : ~g.types[b].polymorphic

EmptyRecord(g, h) ==
    /\ g.types[h].kind # "union" /\ ~g.types[h].polymorphic
    /\ BasesOf(g, h) = <<>> /\ MembersOf(g, h) = <<>>

\* A layout whose offsets and size a record_offset can hold.
Bounded(layout) ==
    IF /\ layout.size <= RecordLimit
       /\ \A o \in Range(layout.bases) \cup Range(layout.members) : o < RecordLimit
    THEN layout ELSE NoLayout

UnionLayout(g, abi, h, parts) ==
    LET members == [i \in DOMAIN MemberTypes(g, h) |-> parts[MemberTypes(g, h)[i]]]
        alignment == RecordAlignment(members, abi.pack, 1)
        size == Max({1} \cup {l.size : l \in Range(members)})
    IN Bounded(Layout(AlignUp(size, alignment), alignment, <<>>, [i \in DOMAIN members |-> 0]))

\* A record with bases or a vfptr has a layout on Windows only, and no empty base.
ClassSupported(g, abi, h) ==
    /\ abi.target \in Windows
    /\ \A b \in Range(BasesOf(g, h)) : ~EmptyRecord(g, b)

PlaceMembers(g, abi, h, parts, cursor) ==
    Place([i \in DOMAIN MemberTypes(g, h) |-> parts[MemberTypes(g, h)[i]]], abi.pack, cursor)

PlaceBases(g, abi, h, parts, cursor) ==
    Place([k \in DOMAIN BaseOrder(g, h) |-> parts[BaseTypes(g, h)[BaseOrder(g, h)[k]]]],
          abi.pack, cursor)

\* struct and class: the vfptr and the bases precede the members.
StructLayout(g, abi, h, parts) ==
    LET types == BaseTypes(g, h) \o MemberTypes(g, h)
        least == IF OwnVfptr(g, h) THEN Min({WordSize(abi.target), abi.pack}) ELSE 1
        alignment == RecordAlignment([i \in DOMAIN types |-> parts[types[i]]], abi.pack, least)
        vfptr == IF OwnVfptr(g, h) THEN AlignUp(WordSize(abi.target), alignment) ELSE 0
        bases == PlaceBases(g, abi, h, parts, vfptr)
        members == PlaceMembers(g, abi, h, parts, bases.cursor)
    IN Bounded(Layout(AlignUp(Max({1, members.cursor}), alignment), alignment,
                      [i \in DOMAIN BasesOf(g, h) |-> bases.offsets[SlotOf(BaseOrder(g, h), i)]],
                      members.offsets))

RecordLayout(g, abi, h, parts) ==
    LET class == g.types[h].polymorphic \/ BasesOf(g, h) # <<>>
    IN IF ~g.types[h].defined \/ (class /\ ~ClassSupported(g, abi, h)) THEN NoLayout
       ELSE IF g.types[h].kind = "union" THEN UnionLayout(g, abi, h, parts)
       ELSE StructLayout(g, abi, h, parts)

-----------------------------------------------------------------------------
(***************************************************************************)
(* Types.                                                                  *)
(***************************************************************************)
TypeRefs(g) ==
    {<<"intrinsic", i>> : i \in Intrinsics}
    \cup {Named(h) : h \in DOMAIN g.types} \cup {Derived(h) : h \in DOMAIN g.derived}

\* What a value of type t holds by value, in the order its layout is asked for.
Parts(g, t) ==
    CASE t[1] = "named" -> BaseTypes(g, t[2]) \o MemberTypes(g, t[2])
      [] KindOf(g.derived, t) \in Qualifiers \cup {"bounded_array"} -> <<g.derived[t[2]].child>>
      [] OTHER -> <<>>

DerivedLayout(g, abi, h, parts) ==
    LET d == g.derived[h] IN
    CASE d.kind \in Qualifiers -> parts[d.child]
      [] d.kind \in References \cup {"pointer"} -> Scalar(WordSize(abi.target))
      [] d.kind = "bounded_array" -> Layout(parts[d.child].size * d.payload,
                                            parts[d.child].alignment, <<>>, <<>>)
      [] d.kind = "unbounded_array" -> NoLayout

\* resolve(): a type held by itself has no layout, nor has one that holds a type
\* without a layout.
ResolveLayout(g, abi, type) ==
    LET resolve[visiting \in SUBSET TypeRefs(g), t \in TypeRefs(g)] ==
            LET parts == [p \in Range(Parts(g, t)) |-> resolve[visiting \cup {t}, p]]
            IN IF t \in visiting \/ NoLayout \in Range(parts) THEN NoLayout
               ELSE CASE t[1] = "intrinsic" -> IntrinsicLayout(t[2], abi.target)
                      [] t[1] = "named" -> RecordLayout(g, abi, t[2], parts)
                      [] t[1] = "derived" -> Bounded(DerivedLayout(g, abi, t[2], parts))
    IN resolve[{}, type]

\* type_slots and derived_slots, as they are filled.
Layouts(g, abi) == [t \in TypeRefs(g) |-> ResolveLayout(g, abi, t)]

\* The types resolve() visits for a type that has a layout, in order.
Visited(g, type) ==
    LET visited[t \in TypeRefs(g)] ==
            <<t>> \o FlattenSeq([i \in DOMAIN Parts(g, t) |-> visited[Parts(g, t)[i]]])
    IN visited[type]

-----------------------------------------------------------------------------
(***************************************************************************)
(* The Runtime.                                                            *)
(***************************************************************************)
\* The types referred to below a type, in the order they are met.
Referents(g, type) ==
    LET isReference(t) == KindOf(g.derived, t) \in References
        references == SelectSeq(Visited(g, type), isReference)
    IN [i \in DOMAIN references |-> g.derived[references[i][2]].child]

\* require_unconnected(): a type is put on the worklist once.
RequireUnconnected(types, more) ==
    FoldLeft(LAMBDA list, t : IF t \in Range(list) THEN list ELSE Append(list, t), types, more)

\* The worklist grows while it is resolved.  A type without a layout ends it.
UnconnectedTypes(g, layouts, roots) ==
    LET first == FoldLeft(LAMBDA list, t : RequireUnconnected(list, Referents(g, t)), <<>>, roots)
        Grow(list, k) == IF k > Len(list) \/ layouts[list[k]] = NoLayout THEN list
                         ELSE RequireUnconnected(list, Referents(g, list[k]))
    IN FoldLeft(Grow, first, [k \in 1 .. Cardinality(TypeRefs(g)) |-> k])

\* store_unconnected_offset(): each type on the worklist gets its one offset.
StoreUnconnectedOffsets(types, offsets) == [t \in Range(types) |-> offsets[SlotOf(types, t)]]

\* The unconnected values come first, then the objects in their order.
PlaceRuntime(g, layouts, unconnected, objects) ==
    LET all == unconnected \o objects
        values == [i \in DOMAIN all |-> layouts[all[i]]]
        alignment == Max({1} \cup {l.alignment : l \in Range(values)})
        placed == Place(values, alignment, 0)
    IN [values |-> Restrict(layouts, UNION {Range(Visited(g, u)) : u \in Range(all)}),
        sentinels |-> unconnected,
        unconnected |-> StoreUnconnectedOffsets(unconnected, placed.offsets),
        objects |-> SubSeq(placed.offsets, Len(unconnected) + 1, Len(all)),
        size |-> AlignUp(placed.cursor, alignment),
        alignment |-> alignment]

PrepareRuntimeLayout(g, abi) ==
    LET layouts == Layouts(g, abi)
        objects == [o \in DOMAIN g.objects |-> g.objects[o].type]
        unconnected == UnconnectedTypes(g, layouts, objects)
        supported(types) == \A t \in Range(types) : layouts[t] # NoLayout
    IN IF ValidAbi(abi) /\ supported(objects) /\ supported(unconnected)
       THEN PlaceRuntime(g, layouts, unconnected, objects)
       ELSE NoLayout

-----------------------------------------------------------------------------
(***************************************************************************)
(* What is asked of a prepared layout.                                     *)
(***************************************************************************)
ValueLayout(layout, type) == layout.values[type]
UnconnectedOffset(layout, type) == layout.unconnected[type]
ObjectOffset(layout, object) == layout.objects[object]
MemberOffset(layout, h, local) == layout.values[Named(h)].members[local]
BaseOffset(layout, h, local) == layout.values[Named(h)].bases[local]

=============================================================================
