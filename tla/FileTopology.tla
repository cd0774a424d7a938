---------------------------- MODULE FileTopology ----------------------------
(***************************************************************************)
(* The dependency topology of the file context (file/file_context.cpp):    *)
(* which files a file includes or declares, and which files depend on it.  *)
(* Edges are staged while a Project is constructed and turned, once, into  *)
(* compact tables both ways.  Over a committed source.bin the context      *)
(* keeps only what differs: the sources whose edges were replaced have new *)
(* forward ranges, and a target keeps the committed dependents that were   *)
(* not removed, followed by the added ones.                                *)
(*                                                                         *)
(* Files are numbers.  The open-addressed indexes of sources, targets and  *)
(* edges are the searches they implement.  The field wanted is a history:  *)
(* the edges the callers declared.                                         *)
(***************************************************************************)
EXTENDS Naturals, FiniteSets, Sequences, SequencesExt, Functions

CONSTANTS MaxFiles,     \* files of the context
          MaxStaged     \* edges staged before the tables are made

ASSUME FileTopologyBounds == {MaxFiles, MaxStaged} \subseteq Nat

VARIABLE topology

EmptyTables == [ranges |-> <<>>, values |-> <<>>]

NewContext(baseline, count, wanted) ==
    [baseline |-> baseline, count |-> count, files |-> count, sources |-> <<>>,
     edges |-> <<>>, finalized |-> FALSE, forward |-> EmptyTables, reverse |-> EmptyTables,
     targets |-> <<>>, removals |-> {}, additions |-> EmptyTables, wanted |-> wanted]

NoBaseline == [dependencies |-> <<>>, dependents |-> <<>>]

FileTopologyInit == topology = NewContext(NoBaseline, 0, <<>>)

OverBaseline(t) == t.count > 0
ReplacedSource(t, file) == \E i \in DOMAIN t.sources : t.sources[i] = file

-----------------------------------------------------------------------------
(* Compact tables: the values of each owner one after the other, in the    *)
(* order of the pairs <<owner, value>>, with a range for each owner.        *)

\* The elements at these positions, in their order.
Picked(s, positions) ==
    FlattenSeq([i \in DOMAIN s |-> IF i \in positions THEN <<s[i]>> ELSE <<>>])

ValuesOf(pairs, owner) ==
    LET own == Picked(pairs, {i \in DOMAIN pairs : pairs[i][1] = owner})
    IN  [i \in DOMAIN own |-> own[i][2]]

\* Counts, prefix sums and a scatter through cursors.
Compact(pairs, owners) ==
    LET values == [i \in DOMAIN owners |-> ValuesOf(pairs, owners[i])]
        offset[i \in DOMAIN owners] ==
            IF i = 1 THEN 0 ELSE offset[i - 1] + Len(values[i - 1])
    IN  [ranges |-> [i \in DOMAIN owners |-> [offset |-> offset[i], count |-> Len(values[i])]],
         values |-> FlattenSeq(values)]

RangeValues(tables, i) ==
    LET r == tables.ranges[i] IN SubSeq(tables.values, r.offset + 1, r.offset + r.count)

\* The first occurrence of every edge, in staging order.
UniqueEdges(edges) ==
    Picked(edges, {i \in DOMAIN edges : \A j \in 1 .. i - 1 : edges[j] # edges[i]})

AllFiles(t) == [i \in 1 .. t.files |-> i]

-----------------------------------------------------------------------------
(* Staging.                                                                *)

ResolveNewFile ==
    /\ ~topology.finalized
    /\ topology.files < MaxFiles
    /\ topology' = [topology EXCEPT !.files = @ + 1, !.wanted = Append(@, {})]

\* From here on the committed edges of the source count for nothing.  A second
\* call changes nothing.
BeginReplacement(t, source) ==
    IF ReplacedSource(t, source) THEN t
    ELSE [t EXCEPT !.sources = Append(@, source), !.wanted[source] = {}]

BeginDependencyReplacement(source) ==
    /\ OverBaseline(topology)
    /\ ~topology.finalized
    /\ topology' = BeginReplacement(topology, source)

\* A committed source must have been begun; a new one is begun by its first
\* edge.
AddFileDependency(source, target) ==
    LET begun == IF OverBaseline(topology) THEN BeginReplacement(topology, source) ELSE topology
    IN  /\ ~topology.finalized
        /\ Len(topology.edges) < MaxStaged
        /\ source <= topology.count => ReplacedSource(topology, source)
        /\ topology' = [begun EXCEPT !.edges = Append(@, <<source, target>>),
                                     !.wanted[source] = @ \cup {target}]

-----------------------------------------------------------------------------
(* The tables of a new Project: by source and, from them, by target.       *)

NativeForward(t) ==
    LET ofSource(f) == Picked(t.edges, {i \in DOMAIN t.edges : t.edges[i][1] = f})
        sorted == FlattenSeq([f \in 1 .. t.files |-> ofSource(f)])
    IN  Compact(UniqueEdges(sorted), AllFiles(t))

NativeReverse(t, forward) ==
    LET ofSource(f) == LET own == RangeValues(forward, f) IN [i \in DOMAIN own |-> <<own[i], f>>]
        pairs == FlattenSeq([f \in 1 .. t.files |-> ofSource(f)])
    IN  Compact(pairs, AllFiles(t))

FinalizeNative(t) ==
    LET forward == NativeForward(t) IN
    [t EXCEPT !.forward = forward, !.reverse = NativeReverse(t, forward),
              !.edges = <<>>, !.finalized = TRUE]

-----------------------------------------------------------------------------
(* The tables over committed ones.                                         *)

\* The committed edges of the sources whose edges are replaced.
OldEdges(t) ==
    LET ofSource(s) == LET own == IF s <= t.count THEN t.baseline.dependencies[s] ELSE <<>>
                       IN  [i \in DOMAIN own |-> <<s, own[i]>>]
    IN  FlattenSeq([i \in DOMAIN t.sources |-> ofSource(t.sources[i])])

DeltaEvents_AllNew(old, new) ==
    LET event(e, addition) == [target |-> e[2], source |-> e[1], addition |-> addition]
        removed == Picked(old, {i \in DOMAIN old : old[i] \notin Range(new)})
    IN  [i \in DOMAIN removed |-> event(removed[i], FALSE)]
        \o [i \in DOMAIN new |-> event(new[i], TRUE)]

\* What differs for the targets: removals first, then additions.
DeltaEvents(old, new) ==
    LET event(e, addition) == [target |-> e[2], source |-> e[1], addition |-> addition]
        removed == Picked(old, {i \in DOMAIN old : old[i] \notin Range(new)})
        added == Picked(new, {i \in DOMAIN new : new[i] \notin Range(old)})
    IN  [i \in DOMAIN removed |-> event(removed[i], FALSE)]
        \o [i \in DOMAIN added |-> event(added[i], TRUE)]

\* A record for each target in the order of its first event.
TargetRecords(events) ==
    UniqueEdges([i \in DOMAIN events |-> events[i].target])

ReverseAdditions(events, targets) ==
    LET added == Picked(events, {i \in DOMAIN events : events[i].addition})
    IN  Compact([i \in DOMAIN added |-> <<added[i].target, added[i].source>>], targets)

ReverseRemovals(events) ==
    {<<events[i].target, events[i].source>> : i \in {j \in DOMAIN events : ~events[j].addition}}

FinalizeOverBaseline(t) ==
    LET unique == UniqueEdges(t.edges)
        events == DeltaEvents(OldEdges(t), unique)
        targets == TargetRecords(events)
    IN  [t EXCEPT !.forward = Compact(unique, t.sources), !.targets = targets,
                  !.additions = ReverseAdditions(events, targets),
                  !.removals = ReverseRemovals(events),
                  !.edges = <<>>, !.finalized = TRUE]

FinalizeTopology ==
    /\ ~topology.finalized
    /\ topology.files > 0
    /\ topology' = IF OverBaseline(topology) THEN FinalizeOverBaseline(topology)
                   ELSE FinalizeNative(topology)

-----------------------------------------------------------------------------
(* The views.                                                              *)

IndexOf(s, x) == CHOOSE i \in DOMAIN s : s[i] = x

FileDependencies(t, file) ==
    IF ~OverBaseline(t) THEN RangeValues(t.forward, file)
    ELSE IF ReplacedSource(t, file) THEN RangeValues(t.forward, IndexOf(t.sources, file))
    ELSE IF file <= t.count THEN t.baseline.dependencies[file]
    ELSE <<>>

\* The committed dependents the filter lets through, then the added ones; the
\* size is computed and not counted.
OverlayView(base, additions, removals, target) ==
    [values |-> Picked(base, {i \in DOMAIN base : <<target, base[i]>> \notin removals})
                \o additions,
     size |-> Len(base) - Cardinality({r \in removals : r[1] = target}) + Len(additions)]

FileDependents(t, file) ==
    LET native(values) == [values |-> values, size |-> Len(values)]
        base == IF file <= t.count THEN t.baseline.dependents[file] ELSE <<>>
    IN  IF ~OverBaseline(t) THEN native(RangeValues(t.reverse, file))
        ELSE IF file \notin Range(t.targets) THEN native(base)
        ELSE OverlayView(base, RangeValues(t.additions, IndexOf(t.targets, file)), t.removals, file)

\* A REBUILD writes the tables to source.bin; a BUILD binds a new context to it.
PersistAndBind ==
    LET t == topology IN
    /\ t.finalized
    /\ ~OverBaseline(t)
    /\ topology' = NewContext([dependencies |-> [f \in 1 .. t.files |-> FileDependencies(t, f)],
                               dependents |-> [f \in 1 .. t.files |-> FileDependents(t, f).values]],
                              t.files, t.wanted)

FileTopologyNext ==
    \/ ResolveNewFile
    \/ \E source \in 1 .. topology.files : BeginDependencyReplacement(source)
    \/ \E source, target \in 1 .. topology.files : AddFileDependency(source, target)
    \/ FinalizeTopology
    \/ PersistAndBind

FileTopologySpec == FileTopologyInit /\ [][FileTopologyNext]_topology

-----------------------------------------------------------------------------
\* Once the tables are made the context answers as the plain relation would:
\* every file has exactly the dependencies last declared for it, every one
\* once, its dependents are exactly the files that declare it, whether the
\* edge was committed, removed, added or declared again unchanged, and the
\* size of a view is the number of files it yields.
TopologyExact ==
    topology.finalized =>
        \A f \in 1 .. topology.files :
            LET forward == FileDependencies(topology, f)
                reverse == FileDependents(topology, f)
            IN  /\ Range(forward) = topology.wanted[f]
                /\ IsInjective(forward)
                /\ Range(reverse.values) = {s \in 1 .. topology.files : f \in topology.wanted[s]}
                /\ IsInjective(reverse.values)
                /\ reverse.size = Len(reverse.values)
=============================================================================
