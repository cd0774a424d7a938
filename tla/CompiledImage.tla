--------------------------- MODULE CompiledImage ----------------------------
(***************************************************************************)
(* compiled.bin (persistence/compiled_project.cpp): the image of a         *)
(* finished construction, with 29 sections of fixed-size records laid out  *)
(* behind a header and a directory, its bind, its lookups and              *)
(* verify_contents.  A section is the sequence of its records; the codecs  *)
(* of the fields are left out, their positions (offsets, sizes, counts)    *)
(* are not.  A checksum stands for exactly the contents it was taken of.   *)
(*                                                                         *)
(* An identity on disk is a pair of its slot and its kind, a text the      *)
(* sequence of its bytes, a graph location a pair of a kind and a slot.    *)
(* GraphOf reads the sections back as a graph, so that the accessors of    *)
(* the image and the operations of Graph share one reading.  An image      *)
(* whose qualifiers form a cycle is left out: no encoder writes one.       *)
(***************************************************************************)
EXTENDS Graph, Interning, SourceMap

CONSTANTS Projects,         \* finished constructions: see ImageOf
          ForeignRecords,   \* records another writer may put into a section
          MaxRewrites       \* bound on the records another writer changes

ASSUME ImageBounds == MaxRewrites \in Nat

VARIABLES image, project, fault, rewrites

imageVars == <<image, project, fault, rewrites>>

\* The sections in the order of the directory and the sizes of their records.
SectionSizes ==
    <<<<"string_core", 8>>, <<"string_index", 8>>, <<"string_bytes", 1>>,
      <<"identity_core", 12>>, <<"identity_index", 8>>, <<"types", 20>>,
      <<"type_identities", 4>>, <<"members", 12>>, <<"member_construction", 16>>,
      <<"derived_types", 16>>, <<"objects", 8>>, <<"object_identities", 4>>,
      <<"object_construction", 16>>, <<"links", 16>>, <<"graph_identity_index", 4>>,
      <<"assign_records", 16>>, <<"assign_bytes", 1>>, <<"source_contributions", 8>>,
      <<"source_roots", 8>>, <<"source_files", 20>>, <<"source_file_indices", 4>>,
      <<"source_paths", 1>>, <<"derived_index", 8>>, <<"link_target_index", 8>>,
      <<"endpoint_paths", 16>>, <<"endpoint_path_steps", 16>>,
      <<"endpoint_path_index", 8>>, <<"bases", 8>>, <<"member_name_index", 8>>>>

SectionIds == {SectionSizes[i][1] : i \in DOMAIN SectionSizes}
SectionAt(s) == CHOOSE i \in DOMAIN SectionSizes : SectionSizes[i][1] = s
RecordSize(s) == SectionSizes[SectionAt(s)][2]

PrefixSize == 256 + 29 * 32
Align64(n) == 64 * ((n + 63) \div 64)

Sum(seq) == FoldLeft(LAMBDA a, b : a + b, 0, seq)
Lengths(texts) == [i \in DOMAIN texts |-> Len(texts[i])]
Positions(seq) == [i \in DOMAIN seq |-> i]
Concat(texts) == FoldLeft(LAMBDA a, b : a \o b, <<>>, texts)

-----------------------------------------------------------------------------
(***************************************************************************)
(* Writing.  p is a finished construction: strings (texts), identities     *)
(* (records [self, parent, name]), graph, assigns, files (records [kind,   *)
(* path]) and sources (a finalized source map).                            *)
(***************************************************************************)
\* A record of the index for each key, whose raw value is its slot.
IndexOver(space, keys) == BuildIndex(space, keys, 0, IndexCapacity(Len(keys)))

StringSections(p) ==
    LET begins == PrefixSums(Lengths(p.strings)) IN
    [string_core |-> [i \in DOMAIN p.strings |-> <<begins[i], Len(p.strings[i])>>],
     string_index |-> IndexOver("string", p.strings),
     string_bytes |-> Concat(p.strings)]

IdentityKey(r) == [parent |-> r.parent, name |-> r.name, kind |-> r.self[2]]

\* The root has no entry in the index.
IdentitySections(p) ==
    LET named == Tail(p.identities) IN
    [identity_core |-> p.identities,
     identity_index |->
        BuildIndex("identity", [i \in DOMAIN named |-> IdentityKey(named[i])], 1,
                   IndexCapacity(Len(named)))]

TypeSections(g) ==
    [types |-> g.types, type_identities |-> g.typeIds, bases |-> g.bases]

\* The types that own a member, each member with the name it is found by.
MemberKeys(g) ==
    LET keys(h) == [i \in 1 .. g.types[h].members[2] |->
                      [slot |-> g.types[h].members[1] + i,
                       key |-> <<h, g.members[g.types[h].members[1] + i].name>>]]
    IN FoldLeft(LAMBDA all, h : IF g.types[h].defined THEN all \o keys(h) ELSE all,
                <<>>, Positions(g.types))

MemberSections(g) ==
    [members |-> g.members, member_construction |-> g.memberCons,
     member_name_index |->
        FoldLeft(LAMBDA index, k : InsertIndex(index, HashOf("member", k.key), k.slot),
                 EmptyIndex(IndexCapacity(Len(g.members))), MemberKeys(g))]

DerivedSections(g) ==
    [derived_types |-> g.derived, derived_index |-> IndexOver("derived", g.derived)]

ObjectSections(g) ==
    [objects |-> g.objects, object_identities |-> g.objectIds,
     object_construction |-> g.objectCons]

NoLocation == <<0, 0>>

\* Entry 0 and the identities without a type or an object stay empty.
LocationSection(p) ==
    [i \in 1 .. Len(p.identities) + 1 |->
        LET id == IF i = 1 THEN <<0, "none">> ELSE p.identities[i - 1].self IN
        CASE SlotOf(p.graph.typeIds, id) # 0 -> <<1, SlotOf(p.graph.typeIds, id)>>
          [] SlotOf(p.graph.objectIds, id) # 0 -> <<2, SlotOf(p.graph.objectIds, id)>>
          [] OTHER -> NoLocation]

PathKey(path) == <<path.root, path.steps>>

PathSections(g) ==
    LET steps == [i \in DOMAIN g.paths |-> g.paths[i].steps]
        begins == PrefixSums(Lengths(steps))
    IN [endpoint_paths |-> [i \in DOMAIN g.paths |->
           [range |-> <<begins[i], Len(steps[i])>>, root |-> g.paths[i].root,
            value |-> g.paths[i].value]],
        endpoint_path_steps |-> Concat(steps),
        endpoint_path_index |->
           IndexOver("path", [i \in DOMAIN g.paths |-> PathKey(g.paths[i])])]

LinkSections_BySource(g) ==
    [links |-> g.links,
     link_target_index |-> IndexOver("link", [l \in DOMAIN g.links |-> g.links[l].source])]

LinkSections(g) ==
    [links |-> g.links,
     link_target_index |-> IndexOver("link", [l \in DOMAIN g.links |-> g.links[l].target])]

AssignSections(p) ==
    [assign_records |-> p.assigns,
     assign_bytes |-> [i \in 1 .. AssignBytes(p.assigns) |-> 0]]

SourceSections(p) ==
    LET paths == [f \in DOMAIN p.files |-> p.files[f].path]
        begins == PrefixSums(Lengths(paths))
    IN [source_contributions |-> p.sources.contributions,
        source_roots |-> p.sources.roots,
        source_files |-> [f \in DOMAIN p.files |->
            [kind |-> p.files[f].kind, path |-> <<begins[f], Len(paths[f])>>,
             range |-> p.sources.files[f]]],
        source_file_indices |-> p.sources.fileIndices,
        source_paths |-> Concat(paths)]

\* The encoder's invalid_state returns are left out: they refuse what Graph never
\* builds and, where the graph does not check it (two members of one name), what
\* the parser refused before.
EncodeSections(p) ==
    StringSections(p) @@ IdentitySections(p) @@ TypeSections(p.graph)
        @@ MemberSections(p.graph) @@ DerivedSections(p.graph) @@ ObjectSections(p.graph)
        @@ [graph_identity_index |-> LocationSection(p)] @@ PathSections(p.graph)
        @@ LinkSections(p.graph) @@ AssignSections(p) @@ SourceSections(p)

\* Every section starts at the next multiple of 64 bytes.
LayOut(data) ==
    LET place(r, entry) ==
            [at |-> Append(r.at, Align64(r.end)),
             end |-> Align64(r.end) + entry[2] * Len(data[entry[1]])]
    IN FoldLeft(place, [at |-> <<>>, end |-> PrefixSize], SectionSizes)

Counted ==
    [strings |-> "string_core", identities |-> "identity_core", types |-> "types",
     objects |-> "objects", links |-> "links", assigns |-> "assign_records"]

\* prefix tells whether the header and the directory match their checksums.
ImageOf(data) ==
    LET layout == LayOut(data) IN
    [prefix |-> "intact", padding |-> "zero", size |-> layout.end, total |-> layout.end,
     counts |-> [c \in DOMAIN Counted |-> Len(data[Counted[c]])],
     directory |-> [i \in DOMAIN SectionSizes |->
        LET s == SectionSizes[i][1] IN
        [offset |-> layout.at[i], size |-> RecordSize(s), count |-> Len(data[s]),
         crc |-> data[s]]],
     data |-> data]

-----------------------------------------------------------------------------
(***************************************************************************)
(* bind: the header, the directory and the counts, not the contents.       *)
(***************************************************************************)
Count(img, s) == img.directory[SectionAt(s)].count

HeaderBinds(img) ==
    /\ img.size >= PrefixSize
    /\ img.total = img.size
    /\ img.prefix = "intact"

SectionsBind(img) ==
    LET end(i) == img.directory[i].offset + img.directory[i].size * img.directory[i].count IN
    /\ \A i \in DOMAIN SectionSizes :
          /\ img.directory[i].size = SectionSizes[i][2]
          /\ img.directory[i].offset = Align64(IF i = 1 THEN PrefixSize ELSE end(i - 1))
          /\ end(i) <= img.size
    /\ img.padding = "zero"
    /\ end(Len(SectionSizes)) = img.size

CountsBind(img) ==
    /\ \A c \in DOMAIN Counted : img.counts[c] = Count(img, Counted[c])
    /\ Count(img, "identity_core") > 0
    /\ \A e \in {<<"string_index", "string_core">>, <<"member_name_index", "members">>,
                 <<"derived_index", "derived_types">>, <<"link_target_index", "links">>,
                 <<"endpoint_path_index", "endpoint_paths">>} :
          Count(img, e[1]) = IndexCapacity(Count(img, e[2]))
    /\ Count(img, "identity_index") = IndexCapacity(Count(img, "identity_core") - 1)
    /\ Count(img, "graph_identity_index") = Count(img, "identity_core") + 1
    /\ \A e \in {<<"type_identities", "types">>, <<"members", "member_construction">>,
                 <<"object_identities", "objects">>, <<"source_roots", "source_files">>,
                 <<"source_file_indices", "source_contributions">>} :
          Count(img, e[1]) = Count(img, e[2])

ImageBinds(img) == HeaderBinds(img) /\ SectionsBind(img) /\ CountsBind(img)

-----------------------------------------------------------------------------
(***************************************************************************)
(* Reading.  A lookup probes the stored index.                             *)
(***************************************************************************)
TextAt(d, id) ==
    IF id \in DOMAIN d.string_core /\ d.string_core[id][2] > 0
       /\ d.string_core[id][1] + d.string_core[id][2] <= Len(d.string_bytes)
    THEN Slice(d.string_bytes, d.string_core[id]) ELSE <<>>

FindText(d, text) ==
    LookupIndex(d.string_index, HashOf("string", text),
                {raw \in DOMAIN d.string_core : TextAt(d, raw) = text})

\* An identity is valid when its own record carries its raw value.
IdentityValid(d, id) == id[1] \in DOMAIN d.identity_core /\ d.identity_core[id[1]].self = id

NoIdentity == <<0, "none">>

IdentityAt(d, slot) ==
    IF slot \in DOMAIN d.identity_core /\ d.identity_core[slot].self[1] = slot
    THEN d.identity_core[slot].self ELSE NoIdentity

FindIdentityIn(d, key) ==
    LookupIndex(d.identity_index, HashOf("identity", key),
                {raw \in DOMAIN d.identity_core :
                    /\ IdentityAt(d, raw) # NoIdentity
                    /\ IdentityKey(d.identity_core[raw]) = key})

LocationOf(d, id, kind) ==
    IF IdentityValid(d, id) /\ d.graph_identity_index[id[1] + 1][1] = kind
    THEN d.graph_identity_index[id[1] + 1][2] ELSE 0

FindTypeIn(d, id) == IF LocationOf(d, id, 1) \in DOMAIN d.types THEN LocationOf(d, id, 1) ELSE 0
FindObjectIn(d, id) ==
    IF LocationOf(d, id, 2) \in DOMAIN d.objects THEN LocationOf(d, id, 2) ELSE 0

\* A member is found through its type and its name, within the type's range.
FindMemberIn(d, h, name) ==
    LET range == d.types[h].members
        own == {raw \in DOMAIN d.members :
                   /\ range[1] < raw /\ raw <= range[1] + range[2]
                   /\ d.members[raw].name = name}
    IN LookupIndex(d.member_name_index, HashOf("member", <<h, name>>), own)

FindDerivedIn(d, record) ==
    LookupIndex(d.derived_index, HashOf("derived", record),
                {raw \in DOMAIN d.derived_types : d.derived_types[raw] = record})

FindLinkTargetIn(d, target) ==
    LookupIndex(d.link_target_index, HashOf("link", target),
                {raw \in DOMAIN d.links : d.links[raw].target = target})

StepsInside(d, path) ==
    path.range[2] > 0 /\ path.range[1] + path.range[2] <= Len(d.endpoint_path_steps)

StepsOf(d, path) == IF StepsInside(d, path) THEN Slice(d.endpoint_path_steps, path.range) ELSE <<>>

GraphOf(d) ==
    [types |-> d.types, typeIds |-> d.type_identities, bases |-> d.bases,
     members |-> d.members, memberCons |-> d.member_construction,
     objects |-> d.objects, objectIds |-> d.object_identities,
     objectCons |-> d.object_construction, links |-> d.links,
     derived |-> d.derived_types,
     paths |-> [p \in DOMAIN d.endpoint_paths |->
                  [root |-> d.endpoint_paths[p].root, value |-> d.endpoint_paths[p].value,
                   steps |-> StepsOf(d, d.endpoint_paths[p])]]]

-----------------------------------------------------------------------------
(***************************************************************************)
(* verify_contents.                                                        *)
(***************************************************************************)
Contiguous(ranges, total) ==
    /\ \A i \in DOMAIN ranges : ranges[i][1] = Sum([j \in 1 .. i - 1 |-> ranges[j][2]])
    /\ Sum([j \in DOMAIN ranges |-> ranges[j][2]]) = total

Occupied(index) == {p \in DOMAIN index : index[p].raw # 0}

\* An entry of an index is empty or stands for one of the slots; there are as
\* many entries as slots.
IndexComplete(index, slots) ==
    /\ \A p \in DOMAIN index :
          IF p \in Occupied(index) THEN index[p].fp # 0 /\ index[p].raw \in slots
          ELSE index[p].fp = 0
    /\ Cardinality(Occupied(index)) = Cardinality(slots)

VerifyChecksums_Skip(img) == TRUE

VerifyChecksums(img) ==
    \A i \in DOMAIN SectionSizes : img.directory[i].crc = img.data[SectionSizes[i][1]]

VerifyStrings(d) ==
    /\ Contiguous(d.string_core, Len(d.string_bytes))
    /\ \A s \in DOMAIN d.string_core : d.string_core[s][2] > 0 /\ FindText(d, TextAt(d, s)) = s
    /\ IndexComplete(d.string_index, DOMAIN d.string_core)
    /\ \A p \in Occupied(d.string_index) :
          LET e == d.string_index[p] IN
          /\ e.fp = HashOf("string", TextAt(d, e.raw))
          /\ FindText(d, TextAt(d, e.raw)) = e.raw

VerifyIdentities(d) ==
    /\ d.identity_core[1] = [self |-> <<1, "root">>, parent |-> NoIdentity, name |-> 0]
    /\ \A i \in DOMAIN d.identity_core \ {1} :
          LET r == d.identity_core[i] IN
          /\ r.self[1] = i /\ r.self[2] \in {"namespace", "type", "object"}
          /\ IdentityValid(d, r.parent) /\ r.parent[1] < i
          /\ r.name \in DOMAIN d.string_core
          /\ FindIdentityIn(d, IdentityKey(r)) = i
    /\ IndexComplete(d.identity_index, DOMAIN d.identity_core \ {1})
    /\ \A p \in Occupied(d.identity_index) :
          LET e == d.identity_index[p] IN
          e.fp = HashOf("identity", IdentityKey(d.identity_core[e.raw]))

Inside(range, table) == range[1] + range[2] <= Len(table)

VerifyBases(g, h) ==
    LET t == g.types[h] IN
    /\ t.kind = "union" => t.bases[2] = 0 /\ ~t.polymorphic
    /\ Inside(t.bases, g.bases)
    /\ ValidBases(g, h, t.kind, BasesOf(g, h), t.polymorphic)
    /\ (\E b \in Range(BasesOf(g, h)) : g.types[b].polymorphic) => t.polymorphic

VerifyMembers(d, g, h) ==
    LET statics == {s \in DOMAIN g.objects : HasType(g, g.objects[s].type) /\ g.objects[s].static}
        range == g.types[h].members
    IN /\ Inside(range, g.members)
       /\ \A i \in 1 .. range[2] :
             /\ MembersOf(g, h)[i].name \in DOMAIN d.string_core
             /\ FindMemberIn(d, h, MembersOf(g, h)[i].name) = range[1] + i
             /\ HasType(g, MembersOf(g, h)[i].type)
       /\ ValidMembers(g.derived, MembersOf(g, h), ConstructionsOf(g, h),
                       [s \in statics |-> g.objects[s].type])

\* Ranges of defined types own every record of the table exactly once.
OwnedOnce(ranges, table) ==
    \A i \in DOMAIN table :
        Cardinality({h \in DOMAIN ranges : ranges[h][1] < i /\ i <= ranges[h][1] + ranges[h][2]})
            = 1

VerifyType(d, g, h) ==
    /\ IdentityValid(d, g.typeIds[h]) /\ g.typeIds[h][2] = "type"
    /\ FindTypeIn(d, g.typeIds[h]) = h
    /\ g.types[h].kind \in RecordKinds
    /\ IF g.types[h].defined THEN VerifyBases(g, h) /\ VerifyMembers(d, g, h)
       ELSE g.types[h] = Undefined(g.types[h].kind)

\* No type is below itself: the depth-first search over the bases.
InheritanceAcyclic(g) ==
    LET reach[n \in 0 .. Len(g.types)] ==
            [h \in DOMAIN g.types |->
                Range(BasesOf(g, h)) \cup
                IF n = 0 THEN {} ELSE UNION {reach[n - 1][b] : b \in Range(BasesOf(g, h))}]
    IN \A h \in DOMAIN g.types : h \notin reach[Len(g.types)][h]

VerifyTypes(d, g) ==
    /\ \A h \in DOMAIN g.types : VerifyType(d, g, h)
    /\ InheritanceAcyclic(g)
    /\ OwnedOnce([h \in DOMAIN g.types |-> g.types[h].members], g.members)
    /\ OwnedOnce([h \in DOMAIN g.types |-> g.types[h].bases], g.bases)
    /\ IndexComplete(d.member_name_index, DOMAIN d.members)

VerifyDerived(d, g) ==
    \A h \in DOMAIN g.derived :
        /\ g.derived[h].kind \in DerivedKinds
        /\ HasType(g, g.derived[h].child)
        /\ g.derived[h].child[1] = "derived" => g.derived[h].child[2] < h
        /\ FindDerivedIn(d, g.derived[h]) = h

VerifyObjects(d, g) ==
    /\ \A h \in DOMAIN g.objects :
          LET entry == g.objects[h]
              slots == Cardinality({k \in 1 .. h : g.objects[k].initialized})
          IN /\ IdentityValid(d, g.objectIds[h]) /\ g.objectIds[h][2] = "object"
             /\ FindObjectIn(d, g.objectIds[h]) = h
             /\ HasType(g, entry.type)
             /\ entry.slot = IF entry.initialized THEN slots ELSE 0
             /\ entry.slot <= Len(g.objectCons)
             /\ entry.initialized =>
                   ValidInitial(g.derived, entry.type, TRUE, g.objectCons[entry.slot])
    /\ Len(g.objectCons) = Cardinality({h \in DOMAIN g.objects : g.objects[h].initialized})

VerifyLocations(d) ==
    /\ d.graph_identity_index[1] = NoLocation
    /\ \A i \in DOMAIN d.identity_core :
          LET at == d.graph_identity_index[i + 1]
              id == IdentityAt(d, i)
          IN /\ id # NoIdentity
             /\ \/ at = NoLocation
                \/ id[2] = "type" /\ at[1] = 1 /\ at[2] \in DOMAIN d.types
                                  /\ d.type_identities[at[2]] = id
                \/ id[2] = "object" /\ at[1] = 2 /\ at[2] \in DOMAIN d.objects
                                    /\ d.object_identities[at[2]] = id

VerifyPaths(d, g) ==
    /\ Contiguous([p \in DOMAIN d.endpoint_paths |-> d.endpoint_paths[p].range],
                  Len(d.endpoint_path_steps))
    /\ \A p \in DOMAIN g.paths :
          /\ g.paths[p].steps # <<>> /\ HasType(g, g.paths[p].root)
          /\ ResolveEndpointPath(g, g.paths[p].root, g.paths[p].steps) = g.paths[p].value
          /\ LookupIndex(d.endpoint_path_index, HashOf("path", PathKey(g.paths[p])),
                         {p}) = p
    /\ IndexComplete(d.endpoint_path_index, DOMAIN d.endpoint_paths)

EndpointInside(g, e) ==
    /\ e.object \in DOMAIN g.objects
    /\ e.member[1] = "path" => e.member[2] \in DOMAIN g.paths

VerifyLinks_NoTarget(d, g) ==
    \A l \in DOMAIN g.links :
        /\ EndpointInside(g, g.links[l].source) /\ EndpointInside(g, g.links[l].target)
        /\ LinkTyped(g, g.links[l].source, g.links[l].target)

VerifyLinks(d, g) ==
    \A l \in DOMAIN g.links :
        /\ EndpointInside(g, g.links[l].source) /\ EndpointInside(g, g.links[l].target)
        /\ LinkTyped(g, g.links[l].source, g.links[l].target)
        /\ FindLinkTargetIn(d, g.links[l].target) = l

VerifyAssigns(d) ==
    LET parts == [i \in DOMAIN d.assign_records |->
                    <<d.assign_records[i].source, d.assign_records[i].sourceLength
                                                  + d.assign_records[i].targetLength>>]
    IN /\ Contiguous(parts, Len(d.assign_bytes))
       /\ \A i \in DOMAIN d.assign_records :
             LET r == d.assign_records[i] IN
             r.sourceLength > 0 /\ r.targetLength > 0 /\ r.target = r.source + r.sourceLength

\* The kind of file a datum is written in; "none" when the datum is not there.
DomainOf(d, data) ==
    LET id == IdentityAt(d, data[2])
        object == FindObjectIn(d, id)
        type == FindTypeIn(d, id)
    IN CASE data[1] = "link" -> IF data[2] \in DOMAIN d.links THEN "source" ELSE "none"
         [] data[1] = "object" -> IF id[2] # "object" \/ object = 0 THEN "none"
                                  ELSE IF d.objects[object].static THEN "header" ELSE "source"
         [] OTHER -> IF \/ id[2] # "type" \/ type = 0
                        \/ data[1] = "type_definition" /\ ~d.types[type].defined
                     THEN "none" ELSE "header"

\* Every contribution is in the file its kind of datum belongs to, in exactly
\* one root, once per file, and in exactly one list of its file.
VerifySources(d) ==
    LET c == d.source_contributions
        f == d.source_files
        domain(i) == DomainOf(d, c[i].data)
        owned == [r \in DOMAIN f |-> (d.source_roots[r][1] + 1)
                                      .. (d.source_roots[r][1] + d.source_roots[r][2])]
        listed == [r \in DOMAIN f |-> (f[r].range[1] + 1) .. (f[r].range[1] + f[r].range[2])]
    IN /\ \A i \in DOMAIN c : c[i].file \in DOMAIN f /\ domain(i) = f[c[i].file].kind
       /\ Contiguous([r \in DOMAIN f |-> f[r].path], Len(d.source_paths))
       /\ Contiguous([r \in DOMAIN f |-> f[r].range], Len(c))
       /\ \A r \in DOMAIN f :
             /\ f[r].path[2] > 0
             /\ owned[r] \subseteq DOMAIN c
             /\ \A i \in owned[r] : domain(i) = f[r].kind
             /\ \A i, j \in owned[r] :
                   c[i].file = c[j].file /\ DataKey(c[i].data) = DataKey(c[j].data) => i = j
             /\ \A i \in listed[r] : LET at == d.source_file_indices[i] IN
                   at \in DOMAIN c /\ c[at].file = r
       /\ \A i \in DOMAIN c : Cardinality({r \in DOMAIN f : i \in owned[r]}) = 1
       /\ IsInjective(d.source_file_indices)

VerifyContents(img) ==
    LET d == img.data
        g == GraphOf(d)
    IN /\ VerifySources(d) /\ VerifyChecksums(img)
       /\ VerifyStrings(d) /\ VerifyIdentities(d)
       /\ VerifyDerived(d, g) /\ VerifyTypes(d, g) /\ VerifyObjects(d, g)
       /\ VerifyLocations(d) /\ VerifyPaths(d, g) /\ VerifyLinks(d, g)
       /\ VerifyAssigns(d)

-----------------------------------------------------------------------------
(***************************************************************************)
(* The life of an image: a construction writes it, its pages may be lost,  *)
(* and a file of the same format may come from another writer, with        *)
(* checksums of its own.                                                   *)
(***************************************************************************)
\* A record of zero bytes, as a reader sees it.
BlankRecord(s) ==
    CASE s \in {"string_core", "source_roots"} -> NoRange
      [] s = "identity_core" -> [self |-> NoIdentity, parent |-> NoIdentity, name |-> 0]
      [] s \in {"type_identities", "object_identities"} -> NoIdentity
      [] s = "graph_identity_index" -> NoLocation
      [] s \in {"member_construction", "object_construction"} -> Zero
      [] OTHER -> NoEntry

Plain == {"string_core", "source_roots", "identity_core", "type_identities", "object_identities",
          "graph_identity_index", "member_construction", "object_construction", "string_index",
          "identity_index", "derived_index", "link_target_index", "endpoint_path_index",
          "member_name_index"}

WriteImage(p) ==
    /\ fault = "none"
    /\ project' = p
    /\ image' = ImageOf(EncodeSections(p))
    /\ fault' = "written"
    /\ UNCHANGED rewrites

\* The page of the header reads as zeros.
LosePrefix ==
    /\ fault = "written"
    /\ image' = [image EXCEPT !.prefix = "lost"]
    /\ fault' = "lost"
    /\ UNCHANGED <<project, rewrites>>

\* The pages of a section read as zeros, the directory is intact.
LosePages(s) ==
    /\ fault = "written"
    /\ image.data[s] # <<>>
    /\ image' = [image EXCEPT !.data[s] = [i \in DOMAIN @ |-> BlankRecord(s)]]
    /\ fault' = "lost"
    /\ UNCHANGED <<project, rewrites>>

\* Another writer puts a record of the section, a blank or a foreign one into a
\* place of it.
Rewrite(s, i, r) ==
    /\ fault \in {"written", "foreign"}
    /\ rewrites < MaxRewrites
    /\ image.data[s][i] # r
    /\ image' = ImageOf([image.data EXCEPT ![s][i] = r])
    /\ fault' = "foreign"
    /\ rewrites' = rewrites + 1
    /\ UNCHANGED project

ImageInit == image = <<>> /\ project = <<>> /\ fault = "none" /\ rewrites = 0

ImageNext ==
    \/ \E p \in Projects : WriteImage(p)
    \/ LosePrefix
    \/ \E s \in Plain : LosePages(s)
    \/ fault \in {"written", "foreign"} /\ \E s \in SectionIds : \E i \in DOMAIN image.data[s] :
         \E r \in Range(image.data[s]) \cup ForeignRecords[s]
                   \cup (IF s \in Plain THEN {BlankRecord(s)} ELSE {}) :
            Rewrite(s, i, r)

\* What a construction writes binds, passes verify_contents whatever the hashes
\* collide on, and reads back as the very graph, strings and identities
\* (encode_compiled_project_image, bind, verify_contents).
EncodedVerifies ==
    fault = "written" =>
        /\ ImageBinds(image) /\ VerifyContents(image)
        /\ GraphOf(image.data) = project.graph
        /\ \A s \in DOMAIN project.strings : FindText(image.data, project.strings[s]) = s

\* An image that lost its header is refused by bind; one that lost the pages of a
\* section still binds, and only verify_contents refuses it (the checksums of the sections; LOAD only binds).
LostPagesRefused ==
    fault = "lost" =>
        /\ ImageBinds(image) <=> image.prefix = "intact"
        /\ ImageBinds(image) /\ VerifyContents(image) => image = ImageOf(EncodeSections(project))

\* Whatever another writer did, an image that binds and passes verify_contents
\* is a graph the operations of Graph could have built: links are typed and have
\* distinct targets, types, objects, member names and derived types are found
\* under one handle only, and the graph of bases has no cycle (verify_contents).
VerifiedIsGraph ==
    fault = "foreign" /\ ImageBinds(image) /\ VerifyContents(image) =>
        LET g == GraphOf(image.data) IN
        /\ \A l \in DOMAIN g.links : LinkTyped(g, g.links[l].source, g.links[l].target)
        /\ IsInjective([l \in DOMAIN g.links |-> g.links[l].target])
        /\ IsInjective(g.typeIds) /\ IsInjective(g.objectIds) /\ IsInjective(g.derived)
        /\ \A h \in DOMAIN g.types :
              /\ IsInjective([i \in DOMAIN MembersOf(g, h) |-> MembersOf(g, h)[i].name])
              /\ \A b \in Range(BasesOf(g, h)) : h \notin Range(BasesOf(g, b))
        /\ \A i, j \in DOMAIN image.data.identity_core :
              IdentityKey(image.data.identity_core[i]) = IdentityKey(image.data.identity_core[j])
                 => i = j
=============================================================================
