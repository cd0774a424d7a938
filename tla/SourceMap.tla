----------------------------- MODULE SourceMap ------------------------------
(***************************************************************************)
(* The source map (source/source_map.cpp): which semantic data each root   *)
(* file contributed and which file it was written in, and for BUILD which  *)
(* roots depend on which types and objects.  A construction enters its     *)
(* roots one after the other; finalize turns the record into two compact   *)
(* tables, by file and by dependency, with counts, prefix sums and a       *)
(* scatter pass.  Files are numbers, ranges pairs of a begin and a count.  *)
(* The hash set of the root's contributions is the search it implements.   *)
(* The field observed is a history of the calls of add_dependency.         *)
(***************************************************************************)
EXTENDS OpenIndex

CONSTANTS MapFiles,         \* number of files of the Project
          MapData,          \* references <<kind, slot>> the parser reports
          LiveData,         \* the ones that are in the graph at the end
          MapDependencies,  \* types and objects a root is observed to use
          LiveDependencies, \* the ones that are in the graph at the end
          MaxContributions, MaxDependencies

ASSUME SourceMapBounds ==
    /\ {MapFiles, MaxContributions, MaxDependencies} \subseteq Nat
    /\ LiveData \subseteq MapData
    /\ LiveDependencies \subseteq MapDependencies

VARIABLE smap

Files == 1 .. MapFiles
NoRange == <<0, 0>>
TypeData == {"type_declaration", "type_definition"}

EmptyMap(capture) ==
    [capture |-> capture, active |-> 0, completed |-> {}, status |-> "open",
     contributions |-> <<>>, dependencies |-> <<>>,
     roots |-> [f \in Files |-> NoRange], rootDeps |-> [f \in Files |-> NoRange],
     begin |-> 0, beginDeps |-> 0, fileCounts |-> [f \in Files |-> 0],
     files |-> [f \in Files |-> NoRange], fileIndices |-> <<>>,
     index |-> <<>>, depRanges |-> <<>>, dependents |-> <<>>,
     presence |-> [d \in {} |-> 0], observed |-> {}]

Contributed(m) == (m.begin + 1) .. Len(m.contributions)

\* The declaration and the definition of a type have one key.
DataKey(d) == IF d[1] \in TypeData THEN <<"type", d[2]>> ELSE d

-----------------------------------------------------------------------------
BeginRoot(root) ==
    /\ smap.status = "open"
    /\ smap.active = 0
    /\ root \notin smap.completed
    /\ smap' = [smap EXCEPT !.active = root,
                            !.begin = Len(smap.contributions),
                            !.beginDeps = Len(smap.dependencies)]

\* Where the active root already contributed this datum of this file.
OwnPosition(m, file, data) ==
    {i \in Contributed(m) : m.contributions[i].file = file
                            /\ DataKey(m.contributions[i].data) = DataKey(data)}

\* A datum is contributed once per root and file; a definition replaces the
\* declaration it follows.
Contribute(file, data) ==
    LET own == OwnPosition(smap, file, data) IN
    /\ smap.status = "open"
    /\ smap.active # 0
    /\ own = {} => Len(smap.contributions) < MaxContributions
    /\ smap' = IF own = {}
               THEN [smap EXCEPT !.contributions = Append(@, [file |-> file, data |-> data]),
                                 !.fileCounts[file] = @ + 1]
               ELSE [smap EXCEPT !.contributions[CHOOSE i \in own : TRUE].data =
                        IF @[1] = "type_declaration" /\ data[1] = "type_definition"
                        THEN data ELSE @]

\* The set of the active root's dependencies is cleared with every root.
DependencySeen(m, dependency) ==
    \E i \in (m.beginDeps + 1) .. Len(m.dependencies) : m.dependencies[i] = dependency

\* Recorded once per root, and only when BUILD acceleration is captured.
AddDependency(dependency) ==
    /\ smap.status = "open"
    /\ smap.active # 0
    /\ smap.capture
    /\ Len(smap.dependencies) < MaxDependencies
    /\ smap' = [smap EXCEPT
         !.dependencies = IF DependencySeen(smap, dependency) THEN @
                          ELSE Append(@, dependency),
         !.observed = @ \cup {<<smap.active, dependency>>}]

EndRoot ==
    /\ smap.status = "open"
    /\ smap.active # 0
    /\ smap' = [smap EXCEPT
         !.roots[smap.active] = <<smap.begin, Len(smap.contributions) - smap.begin>>,
         !.rootDeps[smap.active] =
            <<smap.beginDeps, Len(smap.dependencies) - smap.beginDeps>>,
         !.completed = @ \cup {smap.active},
         !.active = 0]

-----------------------------------------------------------------------------
(***************************************************************************)
(* finalize.                                                               *)
(***************************************************************************)
\* Mutant: the index is resized and its entries stay where they are.
Rehash_InPlace(index) == index \o EmptyIndex(IF index = <<>> THEN 8 ELSE Len(index))

\* Distinct dependencies in the order of their first observation, indexed by
\* open addressing; a full half doubles the index and inserts every entry again
\* in the order of the old index.
Rehash(index) ==
    FoldLeft(LAMBDA new, e : IF e.raw = 0 THEN new ELSE InsertIndex(new, e.fp, e.raw),
             EmptyIndex(IF index = <<>> THEN 8 ELSE 2 * Len(index)), index)

FindOrInsert(table, dependency) ==
    LET hash == HashOf("dependency", dependency)
        found == LookupIndex(table.index, hash,
                             {raw \in DOMAIN table.keys : table.keys[raw] = dependency})
        roomy == IF 2 * (Len(table.keys) + 1) > Len(table.index)
                 THEN Rehash(table.index) ELSE table.index
    IN IF found # 0 THEN [table EXCEPT !.index = roomy, !.counts[found] = @ + 1]
       ELSE [index |-> InsertIndex(roomy, hash, Len(table.keys) + 1),
             keys |-> Append(table.keys, dependency),
             counts |-> Append(table.counts, 1)]

DependencyTable(m) ==
    FoldLeft(FindOrInsert, [index |-> <<>>, keys |-> <<>>, counts |-> <<>>], m.dependencies)

\* The begins of consecutive ranges with these counts.
PrefixSums(counts) ==
    [i \in DOMAIN counts |-> FoldLeft(LAMBDA sum, c : sum + c, 0, SubSeq(counts, 1, i - 1))]

\* Every value i goes to the next free place of the range of its bin.
Scatter(bins, begins) ==
    FoldLeft(LAMBDA r, i : [out |-> [r.out EXCEPT ![r.next[bins[i]] + 1] = i],
                            next |-> [r.next EXCEPT ![bins[i]] = @ + 1]],
             [out |-> [i \in DOMAIN bins |-> 0], next |-> begins],
             [i \in DOMAIN bins |-> i]).out

\* The root that observed a dependency.
RootOf(m, i) ==
    CHOOSE root \in m.completed :
        m.rootDeps[root][1] < i /\ i <= m.rootDeps[root][1] + m.rootDeps[root][2]

\* The roots are visited in the order of their files.
ByRoot(m) ==
    FoldLeft(LAMBDA order, root :
                order \o [i \in 1 .. m.rootDeps[root][2] |-> m.rootDeps[root][1] + i],
             <<>>, [f \in Files |-> f])

\* How many contributions declare and define a type, add an object or a link.
Presence(m) ==
    [key \in {DataKey(m.contributions[i].data) : i \in DOMAIN m.contributions} |->
        LET of(kinds) == Cardinality({i \in DOMAIN m.contributions :
                                        /\ DataKey(m.contributions[i].data) = key
                                        /\ m.contributions[i].data[1] \in kinds})
        IN [declarations |-> of(TypeData \cup {"object", "link"}),
            definitions |-> of({"type_definition"})]]

FinalizeFiles(m) ==
    LET begins == PrefixSums(m.fileCounts)
        bins == [i \in DOMAIN m.contributions |-> m.contributions[i].file]
    IN [m EXCEPT !.files = [f \in Files |-> <<begins[f], m.fileCounts[f]>>],
                 !.fileIndices = Scatter(bins, begins),
                 !.presence = IF m.capture THEN Presence(m) ELSE @]

\* Ranges of roots follow each other in the order of the index.
DependencyRanges(table) ==
    LET place(k) == CHOOSE p \in DOMAIN table.index : table.index[p].raw = k
        before(k) == {j \in DOMAIN table.keys : place(j) < place(k)}
    IN [k \in DOMAIN table.keys |->
          <<FoldSet(LAMBDA j, sum : sum + table.counts[j], 0, before(k)), table.counts[k]>>]

FinalizeDependencies(m) ==
    LET table == DependencyTable(m)
        ranges == DependencyRanges(table)
        order == ByRoot(m)
        bins == [i \in DOMAIN order |-> SlotOf(table.keys, m.dependencies[order[i]])]
        out == Scatter(bins, [k \in DOMAIN ranges |-> ranges[k][1]])
    IN [m EXCEPT !.index = table.index,
                 !.depRanges = [k \in DOMAIN ranges |-> [key |-> table.keys[k],
                                                         range |-> ranges[k]]],
                 !.dependents = [i \in DOMAIN out |-> RootOf(m, order[out[i]])]]

Finalizable(m) ==
    /\ Range(m.dependencies) \subseteq LiveDependencies
    /\ m.capture => \A i \in DOMAIN m.contributions : m.contributions[i].data \in LiveData

\* A reference that is not in the graph ends the construction.
Finalize ==
    /\ smap.status = "open"
    /\ smap.active = 0
    /\ smap' = IF Finalizable(smap)
               THEN [FinalizeFiles(FinalizeDependencies(smap)) EXCEPT !.status = "finalized"]
               ELSE [smap EXCEPT !.status = "failed"]

-----------------------------------------------------------------------------
(***************************************************************************)
(* The queries of BUILD.                                                   *)
(***************************************************************************)
RangeOf(table, range) == SubSeq(table, range[1] + 1, range[1] + range[2])

FileContributions(m, file) == RangeOf(m.fileIndices, m.files[file])

RootContributions(m, root) == RangeOf(m.contributions, m.roots[root])

Dependents(m, dependency) ==
    LET found == IF m.index = <<>> THEN 0
                 ELSE LookupIndex(m.index, HashOf("dependency", dependency),
                                  {raw \in DOMAIN m.depRanges : m.depRanges[raw].key = dependency})
    IN IF found = 0 THEN <<>> ELSE RangeOf(m.dependents, m.depRanges[found].range)

SourceMapInit == smap = [EmptyMap(FALSE) EXCEPT !.status = "unset"]

ResetMap(capture) == smap.status = "unset" /\ smap' = EmptyMap(capture)

SourceMapNext ==
    \/ \E capture \in BOOLEAN : ResetMap(capture)
    \/ \E root \in Files : BeginRoot(root)
    \/ \E file \in Files, data \in MapData : Contribute(file, data)
    \/ \E dependency \in MapDependencies : AddDependency(dependency)
    \/ EndRoot
    \/ Finalize

\* After finalize every query answers from the record of the construction:
\* a file has exactly the contributions written in it, in order, a dependency
\* exactly the roots that observed it, each once and in order of their files,
\* whatever the hashes, and every contribution belongs to one root
\* (source_map::file, dependents, root).
SourceMapExact ==
    smap.status = "finalized" =>
        /\ \A file \in Files :
              FileContributions(smap, file) =
                  SelectSeq([i \in DOMAIN smap.contributions |-> i],
                            LAMBDA i : smap.contributions[i].file = file)
        /\ \A dependency \in MapDependencies :
              Dependents(smap, dependency) =
                  SelectSeq([f \in Files |-> f],
                            LAMBDA f : <<f, dependency>> \in smap.observed)
        /\ Len(FoldLeft(LAMBDA all, f : all \o RootContributions(smap, f), <<>>,
                        [f \in Files |-> f])) = Len(smap.contributions)
        /\ smap.capture => \A f \in smap.completed : \A c \in Range(RootContributions(smap, f)) :
              /\ smap.presence[DataKey(c.data)].declarations > 0
              /\ c.data[1] = "type_definition" => smap.presence[DataKey(c.data)].definitions > 0
=============================================================================
