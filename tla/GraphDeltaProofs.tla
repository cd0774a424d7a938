-------------------------- MODULE GraphDeltaProofs --------------------------
(***************************************************************************)
(* The graph of a BUILD: every definition of a live type can be read, the  *)
(* live counters are exact, and the edits act on the baseline like updates *)
(* of three maps.  For any menu of types, definitions, objects and links,  *)
(* any baseline the constructions can write and any number of edits.  The  *)
(* last part follows the link paths through the types.                     *)
(***************************************************************************)
EXTENDS GraphDelta, FiniteSetTheorems, SequenceTheorems, WellFoundedInduction,
        TLAPS

(***************************************************************************)
(* Tables                                                                  *)
(***************************************************************************)

LEMMA TableFacts ==
  ASSUME NEW s, IsTable(s) PROVE Len(s) \in Nat /\ DOMAIN s = 1..Len(s)
  BY DEF IsTable

LEMMA SeqIsTable == ASSUME NEW S, NEW s \in Seq(S) PROVE IsTable(s)
<1>1. Len(s) \in Nat /\ s \in [1..Len(s) -> S]
  OBVIOUS
<1>2. \A i \in 1..Len(s) : s[i] \in ToSet(s)
  BY <1>1 DEF ToSet
<1>3. s \in [1..Len(s) -> ToSet(s)]
  BY <1>1, <1>2
<1>4. QED
  BY <1>1, <1>3, SeqDef DEF IsTable

LEMMA EmptyTable == IsTable(<<>>) /\ Len(<<>>) = 0
<1>1. <<>> \in Seq({}) /\ Len(<<>>) = 0
  OBVIOUS
<1>2. QED
  BY <1>1, SeqIsTable

LEMMA AppendTable ==
  ASSUME NEW s, IsTable(s), NEW e
  PROVE  /\ IsTable(Append(s, e)) /\ Len(Append(s, e)) = Len(s) + 1
         /\ Append(s, e)[Len(s) + 1] = e
         /\ \A i \in DOMAIN s : i \in DOMAIN Append(s, e) /\ Append(s, e)[i] = s[i]
         /\ DOMAIN Append(s, e) = DOMAIN s \cup {Len(s) + 1}
<1> DEFINE S == ToSet(s) \cup {e}
<1>1. s \in Seq(S) /\ e \in S
  BY DEF IsTable
<1> HIDE DEF S
<1>2. Append(s, e) \in Seq(S)
  BY <1>1
<1>3. IsTable(Append(s, e))
  BY <1>2, SeqIsTable
<1>4. Len(s) \in Nat /\ DOMAIN s = 1..Len(s)
  BY <1>1
<1>5. Len(Append(s, e)) = Len(s) + 1 /\ Append(s, e)[Len(s) + 1] = e
      /\ \A i \in 1..Len(s) : Append(s, e)[i] = s[i]
  BY <1>1, AppendProperties
<1>6. DOMAIN Append(s, e) = 1..(Len(s) + 1)
  BY <1>2, <1>5
<1>7. QED
  BY <1>3, <1>4, <1>5, <1>6

LEMMA ConcatTable ==
  ASSUME NEW s, IsTable(s), NEW t, IsTable(t)
  PROVE  /\ IsTable(s \o t) /\ Len(s \o t) = Len(s) + Len(t)
         /\ \A i \in DOMAIN s : i \in DOMAIN (s \o t) /\ (s \o t)[i] = s[i]
         /\ \A i \in DOMAIN t : (s \o t)[Len(s) + i] = t[i]
<1> DEFINE S == ToSet(s) \cup ToSet(t)
<1>1. s \in Seq(S) /\ t \in Seq(S)
  BY DEF IsTable
<1> HIDE DEF S
<1>2. /\ s \o t \in Seq(S) /\ Len(s \o t) = Len(s) + Len(t)
      /\ \A i \in 1..(Len(s) + Len(t)) : (s \o t)[i] = IF i <= Len(s) THEN s[i] ELSE t[i - Len(s)]
  BY <1>1, ConcatProperties
<1>3. Len(s) \in Nat /\ Len(t) \in Nat /\ DOMAIN s = 1..Len(s) /\ DOMAIN t = 1..Len(t)
      /\ DOMAIN (s \o t) = 1..(Len(s) + Len(t))
  BY <1>1, <1>2
<1>4. \A i \in DOMAIN s : i \in DOMAIN (s \o t) /\ (s \o t)[i] = s[i]
  BY <1>2, <1>3
<1>5. ASSUME NEW i \in DOMAIN t PROVE (s \o t)[Len(s) + i] = t[i]
  <2>1. Len(s) + i \in 1..(Len(s) + Len(t)) /\ ~(Len(s) + i <= Len(s)) /\ (Len(s) + i) - Len(s) = i
    BY <1>3
  <2>2. QED
    BY <1>2, <2>1
<1>6. QED
  BY <1>2, <1>4, <1>5, SeqIsTable

LEMMA UpdateTable ==
  ASSUME NEW s, IsTable(s), NEW i \in DOMAIN s, NEW e
  PROVE  LET t == [s EXCEPT ![i] = e] IN
         /\ IsTable(t) /\ Len(t) = Len(s) /\ DOMAIN t = DOMAIN s /\ t[i] = e
         /\ \A j \in DOMAIN s : j # i => t[j] = s[j]
<1> DEFINE S == ToSet(s) \cup {e}
           t == [s EXCEPT ![i] = e]
<1>1. s \in Seq(S) /\ e \in S
  BY DEF IsTable
<1> HIDE DEF S
<1>2. t \in Seq(S) /\ Len(t) = Len(s) /\ DOMAIN t = DOMAIN s /\ t[i] = e
      /\ \A j \in DOMAIN s : j # i => t[j] = s[j]
  BY <1>1, ExceptSeq
<1>3. QED
  BY <1>2, SeqIsTable

\* Records of a table that grew behind them.
LEMMA SliceLength ==
  ASSUME NEW s, IsTable(s), NEW b \in Nat, NEW n \in Nat, b + n <= Len(s)
  PROVE  Len(Slice(s, <<b, n>>)) = n
<1>1. \A i \in (b + 1)..(b + n) : s[i] \in ToSet(s)
  BY TableFacts DEF ToSet
<1>2. Len(SubSeq(s, b + 1, b + n)) = IF b + 1 <= b + n THEN (b + n) - (b + 1) + 1 ELSE 0
  <2>1. b + 1 \in Int /\ b + n \in Int
    OBVIOUS
  <2>2. QED
    BY <1>1, <2>1, SubSeqProperties
<1>3. Slice(s, <<b, n>>) = SubSeq(s, b + 1, b + n)
  BY DEF Slice
<1>4. QED
  BY <1>2, <1>3

-----------------------------------------------------------------------------
(***************************************************************************)
(* The invariant.  Before bind_baseline only the baseline matters; it is   *)
(* frozen afterwards.                                                      *)
(***************************************************************************)
GraphFields ==
  {"types", "typeIds", "bases", "members", "memberCons", "objects", "objectIds", "objectCons",
   "links", "derived", "paths"}

TypeFields == {"types", "typeIds", "typeLive", "typePatch", "members", "memberCons", "liveTypes"}
ObjectFields == {"objects", "objectIds", "objectLive", "objectPatch", "objectCons", "liveObjects"}
LinkFields == {"links", "linkLive", "linkPatch", "targets", "liveLinks"}
DeltaFields == TypeFields \cup ObjectFields \cup LinkFields \cup {"derived"}

\* A range of n records behind the first b.
IsRange(r) == r \in Nat \X Nat

\* The tables of the baseline are sequences of equal length where they belong
\* together, and the members of a definition lie within their table.
BaselineInv ==
  /\ DOMAIN graph = GraphFields
  /\ \A f \in GraphFields : IsTable(graph[f])
  /\ Len(graph.typeIds) = Len(graph.types)
  /\ Len(graph.objectIds) = Len(graph.objects)
  /\ Len(graph.memberCons) = Len(graph.members)
  /\ \A h \in DOMAIN graph.types : graph.types[h].defined =>
       /\ IsRange(graph.types[h].members)
       /\ graph.types[h].members[1] + graph.types[h].members[2] <= Len(graph.members)

\* The live slots of a kind of entry: patched or not in the baseline, flagged
\* behind it.
LiveSlots(base, n, patches, live) == {h \in 1..(base + n) : SlotLive(h, base, patches, live)}

\* A set of slots with slot h switched on or off.
Switched(S, h, b) == IF b THEN S \cup {h} ELSE S \ {h}

LiveTypes == LiveSlots(Len(graph.types), Len(delta.types), delta.typePatch, delta.typeLive)
LiveObjects ==
  LiveSlots(Len(graph.objects), Len(delta.objects), delta.objectPatch, delta.objectLive)
LiveLinks == LiveSlots(Len(graph.links), Len(delta.links), delta.linkPatch, delta.linkLive)

\* A range of records behind those of the baseline, within the delta's n.
Behind(r, n) ==
  IsRange(r) /\ r[1] >= Len(graph.members) /\ r[1] - Len(graph.members) + r[2] <= n

\* The members of a live definition made by the delta lie in the delta's table.
Reachable(h) ==
  h \in LiveTypes /\ TypeEntry(h).defined /\ Patched(h) =>
    Behind(TypeEntry(h).members, Len(delta.members))

\* An identity has one slot.
Distinct(table) == \A i, j \in DOMAIN table : table[i] = table[j] => i = j

TypesInv ==
  /\ IsTable(delta.types) /\ IsTable(delta.typeIds) /\ IsTable(delta.typeLive)
  /\ IsTable(delta.members) /\ IsTable(delta.memberCons)
  /\ Len(delta.typeLive) = Len(delta.types) /\ Len(delta.typeIds) = Len(delta.types)
  /\ Len(delta.memberCons) = Len(delta.members)
  /\ Distinct(delta.typeIds)
  /\ DOMAIN delta.typePatch \subseteq DOMAIN graph.types
  /\ \A h \in TypeSlots : Reachable(h)
  /\ delta.liveTypes = Cardinality(LiveTypes)

ObjectsInv ==
  /\ IsTable(delta.objects) /\ IsTable(delta.objectIds) /\ IsTable(delta.objectLive)
  /\ IsTable(delta.objectCons)
  /\ Len(delta.objectLive) = Len(delta.objects) /\ Len(delta.objectIds) = Len(delta.objects)
  /\ Distinct(delta.objectIds)
  /\ DOMAIN delta.objectPatch \subseteq DOMAIN graph.objects
  /\ \A o \in DOMAIN delta.objects : delta.objects[o].initialized =>
       delta.objects[o].slot - Len(graph.objectCons) \in DOMAIN delta.objectCons
  /\ delta.liveObjects = Cardinality(LiveObjects)

\* The index of targets leads to local slots, each with the target it has there.
TargetsIndexed(targets, links, base) ==
  \A t \in DOMAIN targets :
    targets[t] - base \in DOMAIN links /\ targets[t] \in Nat /\ links[targets[t] - base].target = t

LinksInv ==
  /\ IsTable(delta.links) /\ IsTable(delta.linkLive)
  /\ Len(delta.linkLive) = Len(delta.links)
  /\ DOMAIN delta.linkPatch \subseteq DOMAIN graph.links
  /\ TargetsIndexed(delta.targets, delta.links, Len(graph.links))
  /\ delta.liveLinks = Cardinality(LiveLinks)

Groups == DOMAIN delta = DeltaFields /\ TypesInv /\ ObjectsInv /\ LinksInv

\* The tables of a bound delta, over the baseline.
DeltaInv == bound => Groups

-----------------------------------------------------------------------------
(***************************************************************************)
(* Live slots                                                              *)
(***************************************************************************)

LEMMA LivePatch ==
  ASSUME NEW base \in Nat, NEW n \in Nat, NEW patches, NEW live, NEW h \in 1..base, NEW v
  PROVE  LiveSlots(base, n, WithPatch(patches, h, v), live) =
           Switched(LiveSlots(base, n, patches, live), h, v.live)
  BY DEF LiveSlots, SlotLive, WithPatch, Switched

LEMMA LiveFlag ==
  ASSUME NEW base \in Nat, NEW patches, NEW live, IsTable(live), NEW h \in Nat,
         h - base \in DOMAIN live, NEW b,
         NEW live2, live2[h - base] = b, \A j \in DOMAIN live : j # h - base => live2[j] = live[j]
  PROVE  LiveSlots(base, Len(live), patches, live2) =
           Switched(LiveSlots(base, Len(live), patches, live), h, b)
<1> DEFINE i == h - base
           t == live2
           n == Len(live)
<1>1. n \in Nat /\ DOMAIN live = 1..n /\ i \in 1..n /\ h = base + i
  BY TableFacts
<1>2. t[i] = b /\ \A j \in 1..n : j # i => t[j] = live[j]
  BY <1>1
<1> HIDE DEF t, n
<1>3. ASSUME NEW k \in 1..(base + n)
      PROVE  SlotLive(k, base, patches, t) <=> IF k = h THEN b ELSE SlotLive(k, base, patches, live)
  <2>1. CASE k <= base
    BY <1>1, <2>1 DEF SlotLive
  <2>2. CASE ~(k <= base)
    <3>1. k - base \in 1..n /\ (k = h <=> k - base = i)
      BY <1>1, <2>2
    <3>2. QED
      BY <1>2, <2>2, <3>1 DEF SlotLive
  <2>3. QED
    BY <2>1, <2>2
<1>4. h \in 1..(base + n)
  BY <1>1
<1>5. QED
  BY <1>3, <1>4 DEF LiveSlots, Switched, t, n

LEMMA LiveAppend ==
  ASSUME NEW base \in Nat, NEW patches, NEW live, IsTable(live)
  PROVE  /\ LiveSlots(base, Len(live) + 1, patches, Append(live, TRUE)) =
              Switched(LiveSlots(base, Len(live), patches, live), base + Len(live) + 1, TRUE)
         /\ base + Len(live) + 1 \notin LiveSlots(base, Len(live), patches, live)
<1> DEFINE n == Len(live)
           t == Append(live, TRUE)
<1>1. n \in Nat /\ DOMAIN live = 1..n
  BY TableFacts
<1>2. t[n + 1] = TRUE /\ \A j \in 1..n : t[j] = live[j]
  BY <1>1, AppendTable
<1> HIDE DEF t, n
<1>3. ASSUME NEW k \in 1..(base + (n + 1))
      PROVE  SlotLive(k, base, patches, t) <=>
               \/ k = base + n + 1
               \/ k \in 1..(base + n) /\ SlotLive(k, base, patches, live)
  <2>1. CASE k <= base
    BY <1>1, <2>1 DEF SlotLive
  <2>2. CASE k > base /\ k <= base + n
    <3>1. k - base \in 1..n /\ ~(k <= base) /\ k # base + n + 1 /\ k \in 1..(base + n)
      BY <1>1, <2>2
    <3>2. QED
      BY <1>2, <3>1 DEF SlotLive
  <2>3. CASE k = base + n + 1
    <3>1. k - base = n + 1 /\ ~(k <= base)
      BY <1>1, <2>3
    <3>2. QED
      BY <1>2, <2>3, <3>1 DEF SlotLive
  <2>4. QED
    BY <1>1, <2>1, <2>2, <2>3
<1>4. /\ 1..(base + (n + 1)) = 1..(base + n) \cup {base + n + 1}
      /\ base + n + 1 \notin 1..(base + n)
  BY <1>1
<1>5. QED
  BY <1>3, <1>4 DEF LiveSlots, Switched, t, n

LEMMA SwitchedCount ==
  ASSUME NEW S, IsFiniteSet(S), NEW h, NEW b \in BOOLEAN, h \in S <=> ~b
  PROVE  Cardinality(Switched(S, h, b)) = IF b THEN Cardinality(S) + 1 ELSE Cardinality(S) - 1
<1>1. CASE b
  BY <1>1, FS_AddElement DEF Switched
<1>2. CASE ~b
  BY <1>2, FS_RemoveElement DEF Switched
<1>3. QED
  BY <1>1, <1>2

LEMMA LiveFinite ==
  ASSUME NEW base \in Nat, NEW n \in Nat, NEW patches, NEW live
  PROVE  /\ IsFiniteSet(LiveSlots(base, n, patches, live))
         /\ Cardinality(LiveSlots(base, n, patches, live)) \in Nat
<1>1. LiveSlots(base, n, patches, live) \in SUBSET (1..(base + n))
  BY DEF LiveSlots
<1>2. IsFiniteSet(1..(base + n))
  BY FS_Interval
<1>3. QED
  BY <1>1, <1>2, FS_Subset, FS_CardinalityType

-----------------------------------------------------------------------------
(***************************************************************************)
(* The baseline                                                            *)
(***************************************************************************)

LEMMA RangeParts == ASSUME NEW r, IsRange(r) PROVE r[1] \in Nat /\ r[2] \in Nat /\ r = <<r[1], r[2]>>
  BY DEF IsRange

\* What a construction leaves alone, and what stays in its place.
LEMMA BaselineFrame ==
  ASSUME BaselineInv, DOMAIN graph' = GraphFields,
         \A f \in GraphFields \ {"objects", "objectIds", "objectCons", "links", "derived", "paths"} :
           graph'[f] = graph[f],
         \A f \in {"objects", "objectIds", "objectCons", "links", "derived", "paths"} :
           IsTable(graph'[f]),
         Len(graph'.objectIds) = Len(graph'.objects)
  PROVE  BaselineInv'
<1>1. \A f \in GraphFields : IsTable(graph'[f])
  BY DEF BaselineInv, GraphFields
<1>2. /\ graph'.types = graph.types /\ graph'.typeIds = graph.typeIds
      /\ graph'.members = graph.members /\ graph'.memberCons = graph.memberCons
  BY DEF GraphFields
<1>3. QED
  BY <1>1, <1>2 DEF BaselineInv

LEMMA DeclareFill ==
  ASSUME BaselineInv, NEW id, NEW kind, graph' = DeclareRecord(graph, id, kind)
  PROVE  BaselineInv'
<1>1. CASE FindType(graph, id) # 0
  BY <1>1 DEF DeclareRecord, BaselineInv
<1>2. CASE FindType(graph, id) = 0
  <2> DEFINE e == Undefined(kind)
  <2>1. graph' = [graph EXCEPT !.types = Append(@, e), !.typeIds = Append(@, id)]
    BY <1>2 DEF DeclareRecord
  <2>2. e.defined = FALSE
    BY DEF Undefined
  <2> HIDE DEF e
  <2>3. /\ DOMAIN graph' = GraphFields
        /\ graph'.types = Append(graph.types, e) /\ graph'.typeIds = Append(graph.typeIds, id)
        /\ \A f \in GraphFields \ {"types", "typeIds"} : graph'[f] = graph[f]
    BY <2>1 DEF BaselineInv, GraphFields
  <2>4. IsTable(graph.types) /\ IsTable(graph.typeIds)
    BY DEF BaselineInv, GraphFields
  <2>5. /\ IsTable(graph'.types) /\ IsTable(graph'.typeIds)
        /\ Len(graph'.types) = Len(graph.types) + 1 /\ Len(graph'.typeIds) = Len(graph.typeIds) + 1
        /\ DOMAIN graph'.types = DOMAIN graph.types \cup {Len(graph.types) + 1}
        /\ graph'.types[Len(graph.types) + 1] = e
        /\ \A h \in DOMAIN graph.types : graph'.types[h] = graph.types[h]
    BY <2>3, <2>4, AppendTable
  <2>6. \A f \in GraphFields : IsTable(graph'[f])
    BY <2>3, <2>5 DEF BaselineInv, GraphFields
  <2>7. /\ graph'.members = graph.members /\ graph'.memberCons = graph.memberCons
        /\ graph'.objects = graph.objects /\ graph'.objectIds = graph.objectIds
    BY <2>3 DEF GraphFields
  <2>8. QED
    BY <2>2, <2>3, <2>5, <2>6, <2>7 DEF BaselineInv
<1>3. QED
  BY <1>1, <1>2

LEMMA DefineFill ==
  ASSUME BaselineInv, NEW h \in DOMAIN graph.types, NEW kind, NEW members, IsTable(members),
         NEW cons, IsTable(cons), Len(members) = Len(cons), NEW bases, IsTable(bases), NEW virtual,
         graph' = DefineRecord(graph, h, kind, members, cons, bases, virtual)
  PROVE  BaselineInv'
<1> DEFINE e == [kind |-> kind, defined |-> TRUE, polymorphic |-> Polymorphic(graph, bases, virtual),
                 members |-> <<Len(graph.members), Len(members)>>,
                 bases |-> <<Len(graph.bases), Len(bases)>>]
<1>1. CASE graph' = graph
  BY <1>1 DEF BaselineInv
<1>2. CASE graph' # graph
  <2>1. graph' = [graph EXCEPT !.types[h] = e, !.bases = @ \o bases, !.members = @ \o members,
                               !.memberCons = @ \o cons]
    BY <1>2 DEF DefineRecord
  <2>2. e.members = <<Len(graph.members), Len(members)>>
    OBVIOUS
  <2> HIDE DEF e
  <2>3. /\ DOMAIN graph' = GraphFields
        /\ graph'.types = [graph.types EXCEPT ![h] = e]
        /\ graph'.bases = graph.bases \o bases
        /\ graph'.members = graph.members \o members /\ graph'.memberCons = graph.memberCons \o cons
        /\ \A f \in GraphFields \ {"types", "bases", "members", "memberCons"} : graph'[f] = graph[f]
    BY <2>1 DEF BaselineInv, GraphFields
  <2>4. /\ IsTable(graph.types) /\ IsTable(graph.bases) /\ IsTable(graph.members)
        /\ IsTable(graph.memberCons)
    BY DEF BaselineInv, GraphFields
  <2>5. /\ IsTable(graph'.bases) /\ IsTable(graph'.members) /\ IsTable(graph'.memberCons)
        /\ Len(graph'.members) = Len(graph.members) + Len(members)
        /\ Len(graph'.memberCons) = Len(graph.memberCons) + Len(cons)
    <3>1. IsTable(graph'.bases)
      BY <2>3, <2>4, ConcatTable
    <3>2. IsTable(graph'.members) /\ Len(graph'.members) = Len(graph.members) + Len(members)
      <4>1. /\ IsTable(graph.members \o members)
            /\ Len(graph.members \o members) = Len(graph.members) + Len(members)
        BY <2>4, ConcatTable
      <4>2. QED
        BY <2>3, <4>1
    <3>3. IsTable(graph'.memberCons) /\ Len(graph'.memberCons) = Len(graph.memberCons) + Len(cons)
      <4>1. /\ IsTable(graph.memberCons \o cons)
            /\ Len(graph.memberCons \o cons) = Len(graph.memberCons) + Len(cons)
        BY <2>4, ConcatTable
      <4>2. QED
        BY <2>3, <4>1
    <3>4. QED
      BY <3>1, <3>2, <3>3
  <2>6. /\ IsTable(graph'.types) /\ Len(graph'.types) = Len(graph.types)
        /\ DOMAIN graph'.types = DOMAIN graph.types /\ graph'.types[h] = e
        /\ \A k \in DOMAIN graph.types : k # h => graph'.types[k] = graph.types[k]
    BY <2>3, <2>4, UpdateTable
  <2>7. \A f \in GraphFields : IsTable(graph'[f])
    BY <2>3, <2>5, <2>6 DEF BaselineInv, GraphFields
  <2>8. /\ Len(members) \in Nat /\ Len(graph.members) \in Nat
    BY <2>4, TableFacts
  <2>9. ASSUME NEW k \in DOMAIN graph'.types, graph'.types[k].defined
        PROVE  /\ IsRange(graph'.types[k].members)
               /\ graph'.types[k].members[1] + graph'.types[k].members[2] <= Len(graph'.members)
    <3>1. CASE k = h
      <4>1. graph'.types[k].members = <<Len(graph.members), Len(members)>>
        BY <2>2, <2>6, <3>1
      <4>2. QED
        BY <2>5, <2>8, <4>1 DEF IsRange
    <3>2. CASE k # h
      <4>1. /\ IsRange(graph.types[k].members) /\ graph'.types[k] = graph.types[k]
            /\ graph.types[k].members[1] + graph.types[k].members[2] <= Len(graph.members)
        BY <2>6, <2>9, <3>2 DEF BaselineInv
      <4>2. QED
        BY <2>5, <2>8, <4>1, RangeParts
    <3>3. QED
      BY <3>1, <3>2
  <2>10. graph'.objects = graph.objects /\ graph'.objectIds = graph.objectIds
         /\ graph'.typeIds = graph.typeIds
    BY <2>3 DEF GraphFields
  <2>11. QED
    BY <2>3, <2>5, <2>6, <2>7, <2>9, <2>10 DEF BaselineInv
<1>3. QED
  BY <1>1, <1>2

LEMMA DeriveFill ==
  ASSUME BaselineInv, NEW child, NEW kind, NEW payload, graph' = Derive(graph, child, kind, payload)
  PROVE  BaselineInv'
<1> DEFINE r == [child |-> child, kind |-> kind, payload |-> payload]
<1>1. CASE graph' = graph
  BY <1>1 DEF BaselineInv
<1>2. CASE graph' # graph
  <2>1. graph' = [graph EXCEPT !.derived = Intern(@, r)]
    BY <1>2 DEF Derive
  <2> HIDE DEF r
  <2>2. DOMAIN graph' = GraphFields /\ graph'.derived = Intern(graph.derived, r)
        /\ \A f \in GraphFields \ {"derived"} : graph'[f] = graph[f]
    BY <2>1 DEF BaselineInv, GraphFields
  <2>3. IsTable(graph.derived)
    BY DEF BaselineInv, GraphFields
  <2>4. IsTable(graph'.derived)
    BY <2>2, <2>3, AppendTable DEF Intern
  <2>5. QED
    BY <2>2, <2>4, BaselineFrame DEF BaselineInv, GraphFields
<1>3. QED
  BY <1>1, <1>2

LEMMA ObjectFill ==
  ASSUME BaselineInv, NEW id, NEW type, NEW static, NEW initialized, NEW initial,
         graph' = AddObject(graph, id, type, static, initialized, initial)
  PROVE  BaselineInv'
<1> DEFINE e == [type |-> type, static |-> static, initialized |-> initialized,
                 slot |-> IF initialized THEN Len(graph.objectCons) + 1 ELSE 0]
<1>1. CASE graph' = graph
  BY <1>1 DEF BaselineInv
<1>2. CASE graph' # graph
  <2>1. graph' = [graph EXCEPT !.objectCons = IF initialized THEN Append(@, initial) ELSE @,
                               !.objects = Append(@, e), !.objectIds = Append(@, id)]
    BY <1>2 DEF AddObject
  <2> HIDE DEF e
  <2>2. /\ DOMAIN graph' = GraphFields
        /\ graph'.objectCons = IF initialized THEN Append(graph.objectCons, initial) ELSE graph.objectCons
        /\ graph'.objects = Append(graph.objects, e) /\ graph'.objectIds = Append(graph.objectIds, id)
        /\ \A f \in GraphFields \ {"objectCons", "objects", "objectIds"} : graph'[f] = graph[f]
    BY <2>1 DEF BaselineInv, GraphFields
  <2>3. IsTable(graph.objectCons) /\ IsTable(graph.objects) /\ IsTable(graph.objectIds)
    BY DEF BaselineInv, GraphFields
  <2>4. IsTable(graph'.objectCons)
    BY <2>2, <2>3, AppendTable
  <2>5. IsTable(graph'.objects) /\ IsTable(graph'.objectIds)
        /\ Len(graph'.objects) = Len(graph.objects) + 1
        /\ Len(graph'.objectIds) = Len(graph.objectIds) + 1
    BY <2>2, <2>3, AppendTable
  <2>6. QED
    BY <2>2, <2>4, <2>5, BaselineFrame DEF BaselineInv, GraphFields
<1>3. QED
  BY <1>1, <1>2

LEMMA PathFill ==
  ASSUME BaselineInv, NEW root, NEW steps, graph' = InternEndpointPath(graph, root, steps)
  PROVE  BaselineInv'
<1> DEFINE r == [root |-> root, steps |-> steps, value |-> ResolveEndpointPath(graph, root, steps)]
<1>1. CASE graph' = graph
  BY <1>1 DEF BaselineInv
<1>2. CASE graph' # graph
  <2>1. graph' = [graph EXCEPT !.paths = Append(@, r)]
    BY <1>2 DEF InternEndpointPath
  <2> HIDE DEF r
  <2>2. DOMAIN graph' = GraphFields /\ graph'.paths = Append(graph.paths, r)
        /\ \A f \in GraphFields \ {"paths"} : graph'[f] = graph[f]
    BY <2>1 DEF BaselineInv, GraphFields
  <2>3. IsTable(graph.paths)
    BY DEF BaselineInv, GraphFields
  <2>4. IsTable(graph'.paths)
    BY <2>2, <2>3, AppendTable
  <2>5. QED
    BY <2>2, <2>4, BaselineFrame DEF BaselineInv, GraphFields
<1>3. QED
  BY <1>1, <1>2

LEMMA LinkFill ==
  ASSUME BaselineInv, NEW source, NEW target, graph' = AddLink(graph, source, target)
  PROVE  BaselineInv'
<1> DEFINE r == [source |-> source, target |-> target]
<1>1. CASE graph' = graph
  BY <1>1 DEF BaselineInv
<1>2. CASE graph' # graph
  <2>1. graph' = [graph EXCEPT !.links = Append(@, r)]
    BY <1>2 DEF AddLink
  <2> HIDE DEF r
  <2>2. DOMAIN graph' = GraphFields /\ graph'.links = Append(graph.links, r)
        /\ \A f \in GraphFields \ {"links"} : graph'[f] = graph[f]
    BY <2>1 DEF BaselineInv, GraphFields
  <2>3. IsTable(graph.links)
    BY DEF BaselineInv, GraphFields
  <2>4. IsTable(graph'.links)
    BY <2>2, <2>3, AppendTable
  <2>5. QED
    BY <2>2, <2>4, BaselineFrame DEF BaselineInv, GraphFields
<1>3. QED
  BY <1>1, <1>2

LEMMA BaselineStep == ASSUME BaselineInv, [GraphNext]_graphVars PROVE BaselineInv'
<1>1. CASE FillRecord
  <2>1. ASSUME NEW id \in TypeIds, NEW kind \in Kinds, Fill(DeclareRecord(graph, id, kind))
        PROVE  BaselineInv'
    BY <2>1, DeclareFill DEF Fill
  <2>2. ASSUME NEW h \in DOMAIN graph.types, NEW kind \in Kinds, NEW def \in Definitions,
               NEW virtual \in BOOLEAN, NEW bases \in {<<>>} \cup {<<b>> : b \in DOMAIN graph.types},
               Fill(DefineRecord(graph, h, kind, def.members, def.cons, bases, virtual))
        PROVE  BaselineInv'
    <3>1. IsTable(bases)
      <4>1. CASE bases = <<>>
        BY <4>1, EmptyTable
      <4>2. ASSUME NEW b \in DOMAIN graph.types, bases = <<b>> PROVE IsTable(bases)
        <5>1. bases \in Seq({b})
          BY <4>2
        <5>2. QED
          BY <5>1, SeqIsTable
      <4>3. QED
        BY <4>1, <4>2
    <3>2. IsTable(def.members) /\ IsTable(def.cons) /\ Len(def.members) = Len(def.cons)
      BY GraphMenus
    <3>3. QED
      BY <2>2, <3>1, <3>2, DefineFill DEF Fill
  <2>3. ASSUME NEW r \in Derivations, Fill(Derive(graph, r.child, r.kind, r.payload))
        PROVE  BaselineInv'
    BY <2>3, DeriveFill DEF Fill
  <2>4. QED
    BY <1>1, <2>1, <2>2, <2>3 DEF FillRecord
<1>2. CASE FillObject
  <2>1. ASSUME NEW id \in ObjectIds, NEW type \in ObjectTypes, NEW init \in Initials,
               Fill(AddObject(graph, id, type, init.static, init.initialized, init.initial))
        PROVE  BaselineInv'
    BY <2>1, ObjectFill DEF Fill
  <2>2. ASSUME NEW p \in Paths, Fill(InternEndpointPath(graph, p.root, p.steps)) PROVE BaselineInv'
    BY <2>2, PathFill DEF Fill
  <2>3. ASSUME NEW source \in EndpointsOf(graph), NEW target \in EndpointsOf(graph),
               Fill(AddLink(graph, source, target))
        PROVE  BaselineInv'
    BY <2>3, LinkFill DEF Fill
  <2>4. QED
    BY <1>2, <2>1, <2>2, <2>3 DEF FillObject
<1>3. CASE UNCHANGED graph
  BY <1>3 DEF BaselineInv
<1>4. CASE BindBaseline \/ UNCHANGED graphVars
  BY <1>3, <1>4 DEF BindBaseline, graphVars
<1>5. CASE Edit
  <2>1. UNCHANGED graph
    BY <1>5 DEF Edit, EditRecord, EditObject, DeltaDeclareRecord, ClearDefinition, RetireType,
                DeltaDefineRecord, DeltaDerive, DeltaAddObject, RetireObject, DeltaAddLink, RetireLink
  <2>2. QED
    BY <1>3, <2>1
<1>6. QED
  BY <1>1, <1>2, <1>4, <1>5 DEF GraphNext

-----------------------------------------------------------------------------
(***************************************************************************)
(* One slot h is written: by a patch of the baseline, in the tables of the *)
(* delta, or behind them.  old is the baseline's table, new the delta's    *)
(* with the flags live and the patches; new2, live2 and patches2 are those *)
(* afterwards.                                                             *)
(***************************************************************************)
SlotsOf(old, new) == 1..(Len(old) + Len(new))
EntryOf(old, new, patches, h) == Entry(h, Len(old), patches, old, new)
LiveOf(old, new, live, patches) == LiveSlots(Len(old), Len(new), patches, live)

Tables(old, new, live, patches) ==
  /\ IsTable(old) /\ IsTable(new) /\ IsTable(live)
  /\ Len(live) = Len(new)
  /\ DOMAIN patches \subseteq DOMAIN old

\* Slot h has entry e, and is live or not; no other slot has changed.
Written(old, new, live, patches, new2, live2, patches2, h, e, b) ==
  /\ Tables(old, new2, live2, patches2)
  /\ Len(new2) = Len(new)
  /\ h > Len(old) \/ h \in DOMAIN patches2
  /\ EntryOf(old, new2, patches2, h) = e
  /\ \A k \in SlotsOf(old, new) : k # h =>
       /\ EntryOf(old, new2, patches2, k) = EntryOf(old, new, patches, k)
       /\ k \in DOMAIN patches2 <=> k \in DOMAIN patches
       /\ k \in DOMAIN patches2 => patches2[k] = patches[k]
  /\ LiveOf(old, new2, live2, patches2) = Switched(LiveOf(old, new, live, patches), h, b)

\* A new slot h with entry e lies behind all others.
Appended(old, new, live, patches, new2, live2, h, e) ==
  /\ Tables(old, new2, live2, patches)
  /\ Len(new2) = Len(new) + 1
  /\ h = Len(old) + Len(new) + 1
  /\ SlotsOf(old, new2) = SlotsOf(old, new) \cup {h}
  /\ h > Len(old) /\ h \notin LiveOf(old, new, live, patches)
  /\ EntryOf(old, new2, patches, h) = e
  /\ \A k \in SlotsOf(old, new) : EntryOf(old, new2, patches, k) = EntryOf(old, new, patches, k)
  /\ LiveOf(old, new2, live2, patches) = Switched(LiveOf(old, new, live, patches), h, TRUE)

LEMMA TablesFacts ==
  ASSUME NEW old, NEW new, NEW live, NEW patches, Tables(old, new, live, patches)
  PROVE  /\ Len(old) \in Nat /\ DOMAIN old = 1..Len(old)
         /\ Len(new) \in Nat /\ DOMAIN new = 1..Len(new) /\ DOMAIN live = 1..Len(new)
         /\ DOMAIN patches \subseteq 1..Len(old)
  BY TableFacts DEF Tables

LEMMA WrittenByPatch ==
  ASSUME NEW old, NEW new, NEW live, NEW patches, Tables(old, new, live, patches),
         NEW h \in SlotsOf(old, new), h <= Len(old), NEW v,
         NEW patches2, patches2 = WithPatch(patches, h, v)
  PROVE  Written(old, new, live, patches, new, live, patches2, h, v.value, v.live)
<1>1. /\ Len(old) \in Nat /\ DOMAIN old = 1..Len(old) /\ Len(new) \in Nat
      /\ h \in 1..Len(old) /\ DOMAIN patches \subseteq 1..Len(old)
  BY TablesFacts DEF SlotsOf
<1>2. LiveSlots(Len(old), Len(new), WithPatch(patches, h, v), live) =
        Switched(LiveSlots(Len(old), Len(new), patches, live), h, v.live)
  BY <1>1, LivePatch
<1>3. /\ DOMAIN patches2 = DOMAIN patches \cup {h} /\ patches2[h] = v
      /\ \A k \in DOMAIN patches : k # h => patches2[k] = patches[k]
  BY DEF WithPatch
<1>4. LiveOf(old, new, live, patches2) = Switched(LiveOf(old, new, live, patches), h, v.live)
  BY <1>2 DEF LiveOf
<1>5. EntryOf(old, new, patches2, h) = v.value
  BY <1>1, <1>3 DEF EntryOf, Entry
<1>6. \A k \in SlotsOf(old, new) : k # h =>
        /\ EntryOf(old, new, patches2, k) = EntryOf(old, new, patches, k)
        /\ k \in DOMAIN patches2 <=> k \in DOMAIN patches
        /\ k \in DOMAIN patches2 => patches2[k] = patches[k]
  BY <1>1, <1>3 DEF EntryOf, Entry, SlotsOf
<1>7. Tables(old, new, live, patches2) /\ h \in DOMAIN patches2
  BY <1>1, <1>3 DEF Tables
<1>8. QED
  BY <1>4, <1>5, <1>6, <1>7 DEF Written

LEMMA WrittenLocally ==
  ASSUME NEW old, NEW new, NEW live, NEW patches, Tables(old, new, live, patches),
         NEW h \in SlotsOf(old, new), ~(h <= Len(old)), NEW e, NEW b,
         NEW new2, new2 = [new EXCEPT ![h - Len(old)] = e],
         NEW live2, live2 = [live EXCEPT ![h - Len(old)] = b]
  PROVE  Written(old, new, live, patches, new2, live2, patches, h, e, b)
<1> DEFINE i == h - Len(old)
<1>1. /\ Len(old) \in Nat /\ Len(new) \in Nat /\ DOMAIN new = 1..Len(new)
      /\ DOMAIN live = 1..Len(new) /\ DOMAIN patches \subseteq 1..Len(old)
      /\ DOMAIN old = 1..Len(old)
  BY TablesFacts
<1>2. h \in Nat /\ h > Len(old) /\ h <= Len(old) + Len(new) /\ i \in 1..Len(new)
  BY <1>1 DEF SlotsOf
<1>3. IsTable(old) /\ IsTable(new) /\ IsTable(live) /\ Len(live) = Len(new)
  BY DEF Tables
<1>4. /\ IsTable(new2) /\ Len(new2) = Len(new) /\ new2[i] = e
      /\ \A j \in 1..Len(new) : j # i => new2[j] = new[j]
  BY <1>1, <1>2, <1>3, UpdateTable
<1>5. /\ IsTable(live2) /\ Len(live2) = Len(new) /\ live2[i] = b
      /\ \A j \in DOMAIN live : j # i => live2[j] = live[j]
  BY <1>1, <1>2, <1>3, UpdateTable
<1>6. LiveSlots(Len(old), Len(live), patches, live2) =
        Switched(LiveSlots(Len(old), Len(live), patches, live), h, b)
  <2>1. /\ Len(old) \in Nat /\ IsTable(live) /\ h \in Nat /\ h - Len(old) \in DOMAIN live
        /\ live2[h - Len(old)] = b
        /\ \A j \in DOMAIN live : j # h - Len(old) => live2[j] = live[j]
    BY <1>1, <1>2, <1>3, <1>5
  <2>2. QED
    BY ONLY <2>1, LiveFlag
<1>7. LiveOf(old, new2, live2, patches) = Switched(LiveOf(old, new, live, patches), h, b)
  BY <1>3, <1>4, <1>6 DEF LiveOf
<1>8. EntryOf(old, new2, patches, h) = e
  BY <1>2, <1>4 DEF EntryOf, Entry
<1>9. ASSUME NEW k \in SlotsOf(old, new), k # h
      PROVE  EntryOf(old, new2, patches, k) = EntryOf(old, new, patches, k)
  <2>1. CASE k > Len(old)
    <3>1. k - Len(old) \in 1..Len(new) /\ k - Len(old) # i
      BY <1>1, <1>2, <1>9, <2>1 DEF SlotsOf
    <3>2. QED
      BY <1>4, <2>1, <3>1 DEF EntryOf, Entry
  <2>2. CASE ~(k > Len(old))
    BY <2>2 DEF EntryOf, Entry
  <2>3. QED
    BY <2>1, <2>2
<1>10. Tables(old, new2, live2, patches)
  BY <1>1, <1>3, <1>4, <1>5 DEF Tables
<1>11. QED
  BY <1>1, <1>2, <1>4, <1>7, <1>8, <1>9, <1>10 DEF Written

\* A local slot written with the entry it has.
LEMMA KeptEntry ==
  ASSUME NEW old, NEW new, NEW live, NEW patches, Tables(old, new, live, patches),
         NEW h \in SlotsOf(old, new), ~(h <= Len(old))
  PROVE  new = [new EXCEPT ![h - Len(old)] = EntryOf(old, new, patches, h)]
<1>1. Len(old) \in Nat /\ Len(new) \in Nat /\ h - Len(old) \in DOMAIN new /\ h > Len(old)
  BY TablesFacts DEF SlotsOf
<1>2. EntryOf(old, new, patches, h) = new[h - Len(old)]
  BY <1>1 DEF EntryOf, Entry
<1>3. new \in Seq(ToSet(new))
  BY DEF Tables, IsTable
<1>4. QED
  BY <1>1, <1>2, <1>3

LEMMA WrittenBehind ==
  ASSUME NEW old, NEW new, NEW live, NEW patches, Tables(old, new, live, patches), NEW e,
         NEW new2, new2 = Append(new, e), NEW live2, live2 = Append(live, TRUE)
  PROVE  Appended(old, new, live, patches, new2, live2, Len(old) + Len(new) + 1, e)
<1> DEFINE h == Len(old) + Len(new) + 1
<1>1. /\ Len(old) \in Nat /\ Len(new) \in Nat /\ DOMAIN new = 1..Len(new)
      /\ DOMAIN patches \subseteq DOMAIN old
  BY TablesFacts DEF Tables
<1>2. IsTable(old) /\ IsTable(new) /\ IsTable(live) /\ Len(live) = Len(new)
  BY DEF Tables
<1>3. /\ IsTable(new2) /\ Len(new2) = Len(new) + 1 /\ new2[Len(new) + 1] = e
      /\ \A j \in 1..Len(new) : new2[j] = new[j]
  BY <1>1, <1>2, AppendTable
<1>4. IsTable(live2) /\ Len(live2) = Len(new) + 1
  BY <1>2, AppendTable
<1>5. /\ LiveSlots(Len(old), Len(live) + 1, patches, Append(live, TRUE)) =
           Switched(LiveSlots(Len(old), Len(live), patches, live), Len(old) + Len(live) + 1, TRUE)
      /\ Len(old) + Len(live) + 1 \notin LiveSlots(Len(old), Len(live), patches, live)
  BY <1>1, <1>2, LiveAppend
<1>6. /\ LiveOf(old, new2, live2, patches) = Switched(LiveOf(old, new, live, patches), h, TRUE)
      /\ h \notin LiveOf(old, new, live, patches)
  BY <1>2, <1>3, <1>5 DEF LiveOf
<1>7. h \in Nat /\ h > Len(old) /\ h - Len(old) = Len(new) + 1
  BY <1>1
<1>8. SlotsOf(old, new2) = SlotsOf(old, new) \cup {h}
  BY <1>1, <1>3 DEF SlotsOf
<1>9. EntryOf(old, new2, patches, h) = e
  BY <1>3, <1>7 DEF EntryOf, Entry
<1>10. ASSUME NEW k \in SlotsOf(old, new)
       PROVE  EntryOf(old, new2, patches, k) = EntryOf(old, new, patches, k)
  <2>1. CASE k > Len(old)
    <3>1. k - Len(old) \in 1..Len(new)
      BY <1>1, <2>1 DEF SlotsOf
    <3>2. QED
      BY <1>3, <2>1, <3>1 DEF EntryOf, Entry
  <2>2. CASE ~(k > Len(old))
    BY <2>2 DEF EntryOf, Entry
  <2>3. QED
    BY <2>1, <2>2
<1>11. Tables(old, new2, live2, patches)
  BY <1>1, <1>2, <1>3, <1>4 DEF Tables
<1>12. QED
  BY <1>3, <1>6, <1>7, <1>8, <1>9, <1>10, <1>11 DEF Appended

LEMMA LiveMore ==
  ASSUME NEW old, NEW new, NEW live, NEW patches, Tables(old, new, live, patches),
         NEW h, h \notin LiveOf(old, new, live, patches)
  PROVE  Cardinality(Switched(LiveOf(old, new, live, patches), h, TRUE)) =
           Cardinality(LiveOf(old, new, live, patches)) + 1
<1>1. IsFiniteSet(LiveOf(old, new, live, patches))
  BY TablesFacts, LiveFinite DEF LiveOf
<1>2. QED
  BY <1>1, SwitchedCount

LEMMA LiveLess ==
  ASSUME NEW old, NEW new, NEW live, NEW patches, Tables(old, new, live, patches),
         NEW h \in LiveOf(old, new, live, patches)
  PROVE  Cardinality(Switched(LiveOf(old, new, live, patches), h, FALSE)) =
           Cardinality(LiveOf(old, new, live, patches)) - 1
<1>1. IsFiniteSet(LiveOf(old, new, live, patches))
  BY TablesFacts, LiveFinite DEF LiveOf
<1>2. QED
  BY <1>1, SwitchedCount

-----------------------------------------------------------------------------
(***************************************************************************)
(* The edits of types                                                      *)
(***************************************************************************)
TypeWritten(d, h, e, b) ==
  Written(graph.types, delta.types, delta.typeLive, delta.typePatch,
          d.types, d.typeLive, d.typePatch, h, e, b)

LEMMA TypeTables ==
  ASSUME BaselineInv, TypesInv
  PROVE  /\ Tables(graph.types, delta.types, delta.typeLive, delta.typePatch)
         /\ TypeSlots = SlotsOf(graph.types, delta.types)
         /\ LiveTypes = LiveOf(graph.types, delta.types, delta.typeLive, delta.typePatch)
         /\ \A h : TypeEntry(h) = EntryOf(graph.types, delta.types, delta.typePatch, h)
         /\ \A h : ContainsType(h) <=> h \in LiveTypes
<1>1. IsTable(graph.types)
  BY DEF BaselineInv, GraphFields
<1>2. QED
  BY <1>1 DEF TypesInv, Tables, TypeSlots, SlotsOf, LiveTypes, LiveOf, LiveSlots, TypeEntry, EntryOf,
              ContainsType

LEMMA SetTypeWrites ==
  ASSUME BaselineInv, TypesInv, DOMAIN delta = DeltaFields, NEW h \in TypeSlots, NEW e
  PROVE  LET d == SetType(h, e) IN
         /\ DOMAIN d = DeltaFields
         /\ \A f \in DeltaFields \ {"types", "typeLive", "typePatch"} : d[f] = delta[f]
         /\ TypeWritten(d, h, e, TRUE)
<1> DEFINE d == SetType(h, e)
<1>1. /\ Tables(graph.types, delta.types, delta.typeLive, delta.typePatch)
      /\ h \in SlotsOf(graph.types, delta.types)
  BY TypeTables
<1>2. CASE h <= Len(graph.types)
  <2> DEFINE v == [value |-> e, live |-> TRUE]
  <2>1. d = [delta EXCEPT !.typePatch = WithPatch(@, h, v)]
    BY <1>2 DEF SetType, PatchType
  <2>2. v.value = e /\ v.live = TRUE
    OBVIOUS
  <2> HIDE DEF d, v
  <2>3. /\ DOMAIN d = DeltaFields /\ d.typePatch = WithPatch(delta.typePatch, h, v)
        /\ \A f \in DeltaFields \ {"typePatch"} : d[f] = delta[f]
    BY <2>1 DEF DeltaFields, TypeFields
  <2>4. d.types = delta.types /\ d.typeLive = delta.typeLive
    BY <2>3 DEF DeltaFields, TypeFields
  <2>5. Written(graph.types, delta.types, delta.typeLive, delta.typePatch,
                delta.types, delta.typeLive, d.typePatch, h, v.value, v.live)
    <3>1. d.typePatch = WithPatch(delta.typePatch, h, v)
      BY <2>3
    <3>2. QED
      BY ONLY <1>1, <1>2, <3>1, WrittenByPatch
  <2>6. QED
    BY <2>2, <2>3, <2>4, <2>5 DEF TypeWritten, d
<1>3. CASE ~(h <= Len(graph.types))
  <2> DEFINE i == h - Len(graph.types)
  <2>1. d = [delta EXCEPT !.types[i] = e, !.typeLive[i] = TRUE]
    BY <1>3 DEF SetType
  <2> HIDE DEF d
  <2>2. /\ DOMAIN d = DeltaFields /\ d.types = [delta.types EXCEPT ![i] = e]
        /\ d.typeLive = [delta.typeLive EXCEPT ![i] = TRUE]
        /\ \A f \in DeltaFields \ {"types", "typeLive"} : d[f] = delta[f]
    BY <2>1 DEF DeltaFields, TypeFields
  <2>3. d.typePatch = delta.typePatch
    BY <2>2 DEF DeltaFields, TypeFields
  <2>4. Written(graph.types, delta.types, delta.typeLive, delta.typePatch,
                d.types, d.typeLive, delta.typePatch, h, e, TRUE)
    BY <1>1, <1>3, <2>2, WrittenLocally
  <2>5. QED
    BY <2>2, <2>3, <2>4 DEF TypeWritten, d
<1>4. QED
  BY <1>2, <1>3

LEMMA RetireTypeWrites ==
  ASSUME BaselineInv, TypesInv, DOMAIN delta = DeltaFields, NEW h \in TypeSlots,
         NEW d, d = IF h <= Len(graph.types) THEN PatchType(h, TypeEntry(h), FALSE)
                    ELSE [delta EXCEPT !.typeLive[h - Len(graph.types)] = FALSE]
  PROVE  /\ DOMAIN d = DeltaFields
         /\ \A f \in DeltaFields \ {"types", "typeLive", "typePatch"} : d[f] = delta[f]
         /\ TypeWritten(d, h, TypeEntry(h), FALSE)
<1>1. /\ Tables(graph.types, delta.types, delta.typeLive, delta.typePatch)
      /\ h \in SlotsOf(graph.types, delta.types)
      /\ TypeEntry(h) = EntryOf(graph.types, delta.types, delta.typePatch, h)
  BY TypeTables
<1>2. CASE h <= Len(graph.types)
  <2> DEFINE v == [value |-> TypeEntry(h), live |-> FALSE]
  <2>1. d = [delta EXCEPT !.typePatch = WithPatch(@, h, v)]
    BY <1>2 DEF PatchType
  <2>2. v.value = TypeEntry(h) /\ v.live = FALSE
    OBVIOUS
  <2> HIDE DEF v
  <2>3. /\ DOMAIN d = DeltaFields /\ d.typePatch = WithPatch(delta.typePatch, h, v)
        /\ \A f \in DeltaFields \ {"typePatch"} : d[f] = delta[f]
    BY <2>1 DEF DeltaFields, TypeFields
  <2>4. d.types = delta.types /\ d.typeLive = delta.typeLive
    BY <2>3 DEF DeltaFields, TypeFields
  <2>5. Written(graph.types, delta.types, delta.typeLive, delta.typePatch,
                delta.types, delta.typeLive, d.typePatch, h, v.value, v.live)
    <3>1. d.typePatch = WithPatch(delta.typePatch, h, v)
      BY <2>3
    <3>2. QED
      BY ONLY <1>1, <1>2, <3>1, WrittenByPatch
  <2>6. QED
    BY <2>2, <2>3, <2>4, <2>5 DEF TypeWritten
<1>3. CASE ~(h <= Len(graph.types))
  <2> DEFINE i == h - Len(graph.types)
  <2>1. d = [delta EXCEPT !.typeLive[i] = FALSE]
    BY <1>3
  <2>2. /\ DOMAIN d = DeltaFields
        /\ d.typeLive = [delta.typeLive EXCEPT ![i] = FALSE]
        /\ \A f \in DeltaFields \ {"typeLive"} : d[f] = delta[f]
    BY <2>1 DEF DeltaFields, TypeFields
  <2>3. d.typePatch = delta.typePatch /\ d.types = delta.types
    BY <2>2 DEF DeltaFields, TypeFields
  <2>4. delta.types = [delta.types EXCEPT ![i] = TypeEntry(h)]
    BY <1>1, <1>3, KeptEntry
  <2>5. Written(graph.types, delta.types, delta.typeLive, delta.typePatch,
                d.types, d.typeLive, delta.typePatch, h, TypeEntry(h), FALSE)
    BY <1>1, <1>3, <2>2, <2>3, <2>4, WrittenLocally
  <2>6. QED
    BY <2>2, <2>3, <2>5 DEF TypeWritten
<1>4. QED
  BY <1>2, <1>3

LEMMA BehindGrows ==
  ASSUME NEW r, NEW m \in Nat, NEW n \in Nat, m <= n, IsTable(graph.members), Behind(r, m)
  PROVE  Behind(r, n)
  BY RangeParts, TableFacts DEF Behind

LEMMA BaselineTables ==
  ASSUME BaselineInv
  PROVE  /\ IsTable(graph.types) /\ IsTable(graph.members) /\ IsTable(graph.memberCons)
         /\ IsTable(graph.objects) /\ IsTable(graph.links)
         /\ Len(graph.members) \in Nat /\ Len(graph.types) \in Nat /\ Len(graph.objects) \in Nat
         /\ Len(graph.links) \in Nat
  BY TableFacts DEF BaselineInv, GraphFields

LEMMA TypesWrittenStep ==
  ASSUME BaselineInv, TypesInv, UNCHANGED graph, NEW h \in TypeSlots, NEW e, NEW b \in BOOLEAN,
         NEW d, TypeWritten(d, h, e, b), delta'.types = d.types, delta'.typeLive = d.typeLive,
         delta'.typePatch = d.typePatch, delta'.typeIds = delta.typeIds,
         IsTable(delta'.members), IsTable(delta'.memberCons),
         Len(delta'.memberCons) = Len(delta'.members), Len(delta.members) <= Len(delta'.members),
         b /\ e.defined => Behind(e.members, Len(delta'.members)),
         delta'.liveTypes = Cardinality(Switched(LiveTypes, h, b))
  PROVE  TypesInv'
<1>1. /\ Tables(graph.types, d.types, d.typeLive, d.typePatch) /\ Len(d.types) = Len(delta.types)
      /\ h > Len(graph.types) \/ h \in DOMAIN d.typePatch
      /\ EntryOf(graph.types, d.types, d.typePatch, h) = e
      /\ \A k \in SlotsOf(graph.types, delta.types) : k # h =>
           /\ EntryOf(graph.types, d.types, d.typePatch, k) =
                EntryOf(graph.types, delta.types, delta.typePatch, k)
           /\ k \in DOMAIN d.typePatch <=> k \in DOMAIN delta.typePatch
      /\ LiveOf(graph.types, d.types, d.typeLive, d.typePatch) =
           Switched(LiveOf(graph.types, delta.types, delta.typeLive, delta.typePatch), h, b)
  BY DEF TypeWritten, Written
<1>2. /\ TypeSlots = SlotsOf(graph.types, delta.types)
      /\ LiveTypes = LiveOf(graph.types, delta.types, delta.typeLive, delta.typePatch)
      /\ \A k : TypeEntry(k) = EntryOf(graph.types, delta.types, delta.typePatch, k)
  BY TypeTables
<1>3. /\ TypeSlots' = TypeSlots /\ LiveTypes' = Switched(LiveTypes, h, b)
      /\ TypeEntry(h)' = e
  BY <1>1, <1>2 DEF TypeSlots, LiveTypes, LiveOf, TypeEntry, EntryOf
<1>4. \A k \in TypeSlots : k # h => TypeEntry(k)' = TypeEntry(k) /\ (Patched(k)' <=> Patched(k))
  BY <1>1, <1>2 DEF TypeEntry, EntryOf, Patched
<1>5. /\ Len(graph.members) \in Nat /\ IsTable(graph.members)
      /\ Len(delta.members) \in Nat /\ Len(delta'.members) \in Nat
  BY BaselineTables, TableFacts DEF TypesInv
<1>6. ASSUME NEW k \in TypeSlots' PROVE Reachable(k)'
  <2>1. SUFFICES ASSUME k \in LiveTypes', TypeEntry(k)'.defined, Patched(k)'
                 PROVE  Behind(TypeEntry(k)'.members, Len(delta'.members))
    BY DEF Reachable, Behind
  <2>2. CASE k = h
    <3>1. b
      BY <1>3, <2>1, <2>2 DEF Switched
    <3>2. QED
      BY <1>3, <2>1, <2>2, <3>1
  <2>3. CASE k # h
    <3>1. /\ k \in TypeSlots /\ k \in LiveTypes /\ TypeEntry(k)' = TypeEntry(k) /\ Patched(k)
      BY <1>3, <1>4, <1>6, <2>1, <2>3 DEF Switched
    <3>2. Reachable(k)
      BY <3>1 DEF TypesInv
    <3>3. Behind(TypeEntry(k).members, Len(delta.members))
      BY <2>1, <3>1, <3>2 DEF Reachable, Behind
    <3>4. QED
      BY <1>5, <3>1, <3>3, BehindGrows
  <2>4. QED
    BY <2>2, <2>3
<1>7. /\ IsTable(delta'.types) /\ IsTable(delta'.typeIds) /\ IsTable(delta'.typeLive)
      /\ Len(delta'.typeLive) = Len(delta'.types) /\ Len(delta'.typeIds) = Len(delta'.types)
      /\ DOMAIN delta'.typePatch \subseteq DOMAIN graph'.types
  BY <1>1 DEF TypesInv, Tables
<1>8. delta'.liveTypes = Cardinality(LiveTypes')
  BY <1>3
<1>9. QED
  BY <1>6, <1>7, <1>8 DEF TypesInv

LEMMA TypesFrame ==
  ASSUME TypesInv, UNCHANGED graph, \A f \in TypeFields : delta'[f] = delta[f] PROVE TypesInv'
<1>1. /\ delta'.types = delta.types /\ delta'.typeIds = delta.typeIds
      /\ delta'.typeLive = delta.typeLive /\ delta'.typePatch = delta.typePatch
      /\ delta'.members = delta.members /\ delta'.memberCons = delta.memberCons
      /\ delta'.liveTypes = delta.liveTypes
  BY DEF TypeFields
<1>2. TypeSlots' = TypeSlots /\ LiveTypes' = LiveTypes
  BY <1>1 DEF TypeSlots, LiveTypes
<1>3. \A h : TypeEntry(h)' = TypeEntry(h) /\ (Patched(h)' <=> Patched(h))
  BY <1>1 DEF TypeEntry, Patched
<1>4. \A h \in TypeSlots' : Reachable(h)'
  BY <1>1, <1>2, <1>3 DEF TypesInv, Reachable, Behind
<1>5. QED
  BY <1>1, <1>2, <1>4 DEF TypesInv

LEMMA SlotFound ==
  ASSUME NEW table, NEW value, SlotOf(table, value) # 0
  PROVE  SlotOf(table, value) \in DOMAIN table /\ table[SlotOf(table, value)] = value
  BY DEF SlotOf

LEMMA LineageTypeSlot ==
  ASSUME BaselineInv, TypesInv, NEW id, LineageType(id) # 0 PROVE LineageType(id) \in TypeSlots
<1>1. /\ IsTable(graph.typeIds) /\ IsTable(delta.typeIds)
      /\ Len(graph.typeIds) = Len(graph.types) /\ Len(delta.typeIds) = Len(delta.types)
  BY DEF BaselineInv, GraphFields, TypesInv
<1>2. /\ DOMAIN graph.typeIds = 1..Len(graph.types) /\ DOMAIN delta.typeIds = 1..Len(delta.types)
      /\ Len(graph.types) \in Nat /\ Len(delta.types) \in Nat
  BY <1>1, TableFacts
<1> DEFINE m == Len(graph.types)
           n == Len(delta.types)
           i == SlotOf(delta.typeIds, id)
           j == SlotOf(graph.typeIds, id)
<1>3. LineageType(id) = (IF i # 0 THEN m + i ELSE j) /\ TypeSlots = 1..(m + n)
  BY DEF LineageType, FindType, TypeSlots
<1>4. (i # 0 => i \in 1..n) /\ (j # 0 => j \in 1..m) /\ m \in Nat /\ n \in Nat
  BY <1>2, SlotFound
<1> HIDE DEF m, n, i, j
<1>5. QED
  BY <1>3, <1>4

LEMMA DistinctAppend ==
  ASSUME NEW t, IsTable(t), Distinct(t), NEW v, SlotOf(t, v) = 0 PROVE Distinct(Append(t, v))
<1>1. \A i \in DOMAIN t : t[i] # v
  <2>1. 0 \notin DOMAIN t
    BY TableFacts
  <2>2. QED
    BY <2>1 DEF SlotOf
<1>2. /\ DOMAIN Append(t, v) = DOMAIN t \cup {Len(t) + 1} /\ Append(t, v)[Len(t) + 1] = v
      /\ \A i \in DOMAIN t : Append(t, v)[i] = t[i]
  BY AppendTable
<1>3. QED
  BY <1>1, <1>2 DEF Distinct

LEMMA TypesAppendStep ==
  ASSUME BaselineInv, TypesInv, UNCHANGED graph, NEW id, LineageType(id) = 0, NEW e, ~e.defined,
         delta'.types = Append(delta.types, e), delta'.typeIds = Append(delta.typeIds, id),
         delta'.typeLive = Append(delta.typeLive, TRUE), delta'.typePatch = delta.typePatch,
         delta'.members = delta.members, delta'.memberCons = delta.memberCons,
         delta'.liveTypes = delta.liveTypes + 1
  PROVE  TypesInv'
<1>0. PICK h : h = Len(graph.types) + Len(delta.types) + 1
  OBVIOUS
<1>1. /\ Tables(graph.types, delta.types, delta.typeLive, delta.typePatch)
      /\ TypeSlots = SlotsOf(graph.types, delta.types)
      /\ LiveTypes = LiveOf(graph.types, delta.types, delta.typeLive, delta.typePatch)
      /\ \A k : TypeEntry(k) = EntryOf(graph.types, delta.types, delta.typePatch, k)
  BY TypeTables
<1>2. Appended(graph.types, delta.types, delta.typeLive, delta.typePatch,
               delta'.types, delta'.typeLive, h, e)
  BY <1>0, <1>1, WrittenBehind
<1>3. /\ Tables(graph.types, delta'.types, delta'.typeLive, delta.typePatch)
      /\ Len(delta'.types) = Len(delta.types) + 1
      /\ SlotsOf(graph.types, delta'.types) = SlotsOf(graph.types, delta.types) \cup {h}
      /\ h \notin LiveOf(graph.types, delta.types, delta.typeLive, delta.typePatch)
      /\ EntryOf(graph.types, delta'.types, delta.typePatch, h) = e
      /\ \A k \in SlotsOf(graph.types, delta.types) :
           EntryOf(graph.types, delta'.types, delta.typePatch, k) =
             EntryOf(graph.types, delta.types, delta.typePatch, k)
      /\ LiveOf(graph.types, delta'.types, delta'.typeLive, delta.typePatch) =
           Switched(LiveOf(graph.types, delta.types, delta.typeLive, delta.typePatch), h, TRUE)
  BY <1>2 DEF Appended
<1>4. /\ TypeSlots' = TypeSlots \cup {h} /\ LiveTypes' = Switched(LiveTypes, h, TRUE)
      /\ TypeEntry(h)' = e /\ h \notin LiveTypes
      /\ \A k \in TypeSlots : TypeEntry(k)' = TypeEntry(k)
      /\ \A k : Patched(k)' <=> Patched(k)
  BY <1>1, <1>3 DEF TypeSlots, SlotsOf, LiveTypes, LiveOf, TypeEntry, EntryOf, Patched
<1>5. Cardinality(LiveTypes') = delta'.liveTypes
  <2>1. /\ Cardinality(Switched(LiveTypes, h, TRUE)) = Cardinality(LiveTypes) + 1
    BY ONLY <1>1, <1>4, LiveMore
  <2>2. QED
    BY <1>4, <2>1 DEF TypesInv
<1>6. ASSUME NEW k \in TypeSlots' PROVE Reachable(k)'
  <2>1. CASE k = h
    BY <1>4, <2>1 DEF Reachable
  <2>2. CASE k # h
    <3>1. /\ k \in TypeSlots /\ (k \in LiveTypes' <=> k \in LiveTypes)
          /\ TypeEntry(k)' = TypeEntry(k) /\ (Patched(k)' <=> Patched(k))
      BY <1>4, <2>2 DEF Switched
    <3>2. Reachable(k)
      BY <3>1 DEF TypesInv
    <3>3. QED
      BY <3>1, <3>2 DEF Reachable, Behind
  <2>3. QED
    BY <2>1, <2>2
<1>7. /\ IsTable(delta'.typeIds) /\ Len(delta'.typeIds) = Len(delta'.types)
      /\ Len(delta'.typeLive) = Len(delta'.types)
  BY <1>3, AppendTable DEF TypesInv, Tables
<1>8. SlotOf(delta.typeIds, id) = 0
  <2>1. /\ Len(graph.types) \in Nat /\ DOMAIN delta.typeIds = 1..Len(delta.typeIds)
        /\ Len(delta.typeIds) \in Nat
    BY BaselineTables, TableFacts DEF TypesInv
  <2>2. QED
    BY <2>1, SlotFound DEF LineageType
<1>9. Distinct(delta'.typeIds)
  BY <1>8, DistinctAppend DEF TypesInv
<1>10. QED
  BY <1>3, <1>5, <1>6, <1>7, <1>9 DEF TypesInv, Tables

-----------------------------------------------------------------------------
(***************************************************************************)
(* Every edit, one group of tables at a time                               *)
(***************************************************************************)
LEMMA ObjectsFrame ==
  ASSUME ObjectsInv, UNCHANGED graph, \A f \in ObjectFields : delta'[f] = delta[f]
  PROVE  ObjectsInv'
<1>1. /\ delta'.objects = delta.objects /\ delta'.objectIds = delta.objectIds
      /\ delta'.objectLive = delta.objectLive /\ delta'.objectPatch = delta.objectPatch
      /\ delta'.objectCons = delta.objectCons /\ delta'.liveObjects = delta.liveObjects
  BY DEF ObjectFields
<1>2. QED
  BY <1>1 DEF ObjectsInv, LiveObjects

LEMMA LinksFrame ==
  ASSUME LinksInv, UNCHANGED graph, \A f \in LinkFields : delta'[f] = delta[f]
  PROVE  LinksInv'
<1>1. /\ delta'.links = delta.links /\ delta'.linkLive = delta.linkLive
      /\ delta'.linkPatch = delta.linkPatch /\ delta'.liveLinks = delta.liveLinks
      /\ delta'.targets = delta.targets
  BY DEF LinkFields
<1>2. QED
  BY <1>1 DEF LinksInv, LinkSlots, LiveLinks

\* An edit of types leaves objects and links alone.
LEMMA TypesOnly ==
  ASSUME Groups, UNCHANGED graph, DOMAIN delta' = DeltaFields, TypesInv',
         \A f \in DeltaFields \ TypeFields : delta'[f] = delta[f]
  PROVE  Groups'
<1>1. \A f \in ObjectFields \cup LinkFields : delta'[f] = delta[f]
  BY DEF DeltaFields, TypeFields, ObjectFields, LinkFields
<1>2. QED
  BY <1>1, ObjectsFrame, LinksFrame DEF Groups

LEMMA DeclareEdit ==
  ASSUME BaselineInv, Groups, NEW id, NEW kind, DeltaDeclareRecord(id, kind) PROVE Groups'
<1>0. PICK h : h = LineageType(id)
  OBVIOUS
<1> DEFINE e == Undefined(kind)
<1>1. UNCHANGED graph /\ ~ContainsType(h) /\ ~e.defined
  BY <1>0 DEF DeltaDeclareRecord, Undefined
<1>2. /\ Tables(graph.types, delta.types, delta.typeLive, delta.typePatch)
      /\ LiveTypes = LiveOf(graph.types, delta.types, delta.typeLive, delta.typePatch)
      /\ h \notin LiveTypes
  BY <1>1, TypeTables DEF Groups
<1>3. CASE h # 0
  <2>0. PICK d : d = SetType(h, e)
    OBVIOUS
  <2>1. h \in TypeSlots
    BY <1>0, <1>3, LineageTypeSlot DEF Groups
  <2>2. delta' = [d EXCEPT !.liveTypes = @ + 1]
    BY <1>0, <1>3, <2>0 DEF DeltaDeclareRecord
  <2> HIDE DEF e
  <2>3. /\ DOMAIN d = DeltaFields /\ TypeWritten(d, h, e, TRUE)
        /\ \A f \in DeltaFields \ {"types", "typeLive", "typePatch"} : d[f] = delta[f]
    BY <2>0, <2>1, SetTypeWrites DEF Groups
  <2>4. /\ DOMAIN delta' = DeltaFields /\ delta'.liveTypes = d.liveTypes + 1
        /\ \A f \in DeltaFields \ {"liveTypes"} : delta'[f] = d[f]
    BY <2>2, <2>3 DEF DeltaFields, TypeFields
  <2>5. /\ delta'.types = d.types /\ delta'.typeLive = d.typeLive /\ delta'.typePatch = d.typePatch
        /\ delta'.typeIds = delta.typeIds /\ delta'.members = delta.members
        /\ delta'.memberCons = delta.memberCons /\ delta'.liveTypes = delta.liveTypes + 1
        /\ \A f \in DeltaFields \ TypeFields : delta'[f] = delta[f]
    BY <2>3, <2>4 DEF DeltaFields, TypeFields, ObjectFields, LinkFields
  <2>6. delta'.liveTypes = Cardinality(Switched(LiveTypes, h, TRUE))
    <3>1. Cardinality(Switched(LiveTypes, h, TRUE)) = Cardinality(LiveTypes) + 1
      BY ONLY <1>2, LiveMore
    <3>2. QED
      BY <2>5, <3>1 DEF Groups, TypesInv
  <2>7. /\ IsTable(delta'.members) /\ IsTable(delta'.memberCons)
        /\ Len(delta'.memberCons) = Len(delta'.members) /\ Len(delta.members) <= Len(delta'.members)
    BY <2>5, TableFacts DEF Groups, TypesInv
  <2>8. TypesInv'
    BY <1>1, <2>1, <2>3, <2>5, <2>6, <2>7, TypesWrittenStep DEF Groups
  <2>9. QED
    BY <1>1, <2>4, <2>5, <2>8, TypesOnly
<1>4. CASE h = 0
  <2>1. delta' = [delta EXCEPT !.types = Append(@, e), !.typeIds = Append(@, id),
                               !.typeLive = Append(@, TRUE), !.liveTypes = @ + 1]
    BY <1>0, <1>4 DEF DeltaDeclareRecord
  <2> HIDE DEF e
  <2>2. /\ DOMAIN delta' = DeltaFields
        /\ delta'.types = Append(delta.types, e) /\ delta'.typeIds = Append(delta.typeIds, id)
        /\ delta'.typeLive = Append(delta.typeLive, TRUE)
        /\ delta'.liveTypes = delta.liveTypes + 1
        /\ \A f \in DeltaFields \ {"types", "typeIds", "typeLive", "liveTypes"} : delta'[f] = delta[f]
    BY <2>1 DEF DeltaFields, TypeFields, Groups
  <2>3. /\ delta'.typePatch = delta.typePatch /\ delta'.members = delta.members
        /\ delta'.memberCons = delta.memberCons
        /\ \A f \in DeltaFields \ TypeFields : delta'[f] = delta[f]
    BY <2>2 DEF DeltaFields, TypeFields, ObjectFields, LinkFields
  <2>4. TypesInv'
    BY <1>0, <1>1, <1>4, <2>2, <2>3, TypesAppendStep DEF Groups
  <2>5. QED
    BY <1>1, <2>2, <2>3, <2>4, TypesOnly
<1>5. QED
  BY <1>3, <1>4

\* A definition made or cleared: slot h was live and stays so.
LEMMA RewriteEdit ==
  ASSUME BaselineInv, Groups, UNCHANGED graph, NEW h, ContainsType(h), NEW e,
         NEW d, d = SetType(h, e), DOMAIN delta' = DeltaFields,
         \A f \in DeltaFields \ {"members", "memberCons"} : delta'[f] = d[f],
         IsTable(delta'.members), IsTable(delta'.memberCons),
         Len(delta'.memberCons) = Len(delta'.members), Len(delta.members) <= Len(delta'.members),
         e.defined => Behind(e.members, Len(delta'.members))
  PROVE  Groups'
<1>1. h \in LiveTypes /\ h \in TypeSlots
  BY TypeTables DEF Groups, ContainsType
<1>2. /\ DOMAIN d = DeltaFields /\ TypeWritten(d, h, e, TRUE)
      /\ \A f \in DeltaFields \ {"types", "typeLive", "typePatch"} : d[f] = delta[f]
  BY <1>1, SetTypeWrites DEF Groups
<1>3. /\ delta'.types = d.types /\ delta'.typeLive = d.typeLive /\ delta'.typePatch = d.typePatch
      /\ delta'.typeIds = delta.typeIds /\ delta'.liveTypes = delta.liveTypes
      /\ \A f \in DeltaFields \ TypeFields : delta'[f] = delta[f]
  BY <1>2 DEF DeltaFields, TypeFields, ObjectFields, LinkFields
<1>4. Switched(LiveTypes, h, TRUE) = LiveTypes
  BY <1>1 DEF Switched
<1>5. delta'.liveTypes = Cardinality(Switched(LiveTypes, h, TRUE))
  BY <1>3, <1>4 DEF Groups, TypesInv
<1>6. TypesInv'
  BY <1>1, <1>2, <1>3, <1>5, TypesWrittenStep DEF Groups
<1>7. QED
  BY <1>3, <1>6, TypesOnly

LEMMA ClearEdit == ASSUME BaselineInv, Groups, NEW h, ClearDefinition(h) PROVE Groups'
<1>0. PICK e : e = Undefined(TypeEntry(h).kind)
  OBVIOUS
<1>1. UNCHANGED graph /\ ContainsType(h) /\ delta' = SetType(h, e) /\ ~e.defined
  BY <1>0 DEF ClearDefinition, Undefined
<1>2. h \in TypeSlots
  BY <1>1 DEF ContainsType
<1>3. /\ DOMAIN delta' = DeltaFields
      /\ \A f \in DeltaFields \ {"types", "typeLive", "typePatch"} : delta'[f] = delta[f]
  BY <1>1, <1>2, SetTypeWrites DEF Groups
<1>4. delta'.members = delta.members /\ delta'.memberCons = delta.memberCons
  BY <1>3 DEF DeltaFields, TypeFields
<1>5. /\ IsTable(delta'.members) /\ IsTable(delta'.memberCons)
      /\ Len(delta'.memberCons) = Len(delta'.members) /\ Len(delta.members) <= Len(delta'.members)
  BY <1>4, TableFacts DEF Groups, TypesInv
<1>6. QED
  BY <1>1, <1>3, <1>5, RewriteEdit

LEMMA DefineEdit ==
  ASSUME BaselineInv, Groups, NEW h, NEW kind, NEW members, IsTable(members), NEW cons,
         IsTable(cons), Len(members) = Len(cons), DeltaDefineRecord(h, kind, members, cons)
  PROVE  Groups'
<1>0. PICK e, d : e = DefinedAt(kind, Len(members)) /\ d = SetType(h, e)
  OBVIOUS
<1>1. /\ UNCHANGED graph /\ ContainsType(h)
      /\ delta' = [d EXCEPT !.members = @ \o members, !.memberCons = @ \o cons]
  BY <1>0 DEF DeltaDefineRecord, CanDefineDelta
<1>2. h \in TypeSlots
  BY <1>1 DEF ContainsType
<1>3. /\ DOMAIN d = DeltaFields
      /\ \A f \in DeltaFields \ {"types", "typeLive", "typePatch"} : d[f] = delta[f]
  BY <1>0, <1>2, SetTypeWrites DEF Groups
<1>4. d.members = delta.members /\ d.memberCons = delta.memberCons
  BY <1>3 DEF DeltaFields, TypeFields
<1>5. /\ DOMAIN delta' = DeltaFields /\ delta'.members = delta.members \o members
      /\ delta'.memberCons = delta.memberCons \o cons
      /\ \A f \in DeltaFields \ {"members", "memberCons"} : delta'[f] = d[f]
  BY <1>1, <1>3, <1>4 DEF DeltaFields, TypeFields
<1>6. IsTable(delta.members) /\ IsTable(delta.memberCons) /\ Len(delta.memberCons) = Len(delta.members)
  BY DEF Groups, TypesInv
<1>7. /\ IsTable(delta'.members) /\ IsTable(delta'.memberCons)
      /\ Len(delta'.members) = Len(delta.members) + Len(members)
      /\ Len(delta'.memberCons) = Len(delta.memberCons) + Len(cons)
  <2>1. /\ IsTable(delta.members \o members) /\ IsTable(delta.memberCons \o cons)
        /\ Len(delta.members \o members) = Len(delta.members) + Len(members)
        /\ Len(delta.memberCons \o cons) = Len(delta.memberCons) + Len(cons)
    BY <1>6, ConcatTable
  <2>2. QED
    BY <1>5, <2>1
<1>8. Len(delta.members) \in Nat /\ Len(members) \in Nat /\ Len(graph.members) \in Nat
  BY <1>6, TableFacts, BaselineTables
<1>9. Behind(e.members, Len(delta'.members))
  <2>1. e.members = <<Len(graph.members) + Len(delta.members), Len(members)>>
    BY <1>0 DEF DefinedAt
  <2> DEFINE b == Len(graph.members)
             m == Len(delta.members)
             n == Len(members)
  <2>2. b \in Nat /\ m \in Nat /\ n \in Nat /\ Len(delta'.members) = m + n /\ e.members = <<b + m, n>>
    BY <1>7, <1>8, <2>1
  <2> HIDE DEF m, n
  <2>3. Behind(e.members, m + n)
    <3> HIDE DEF b
    <3>1. IsRange(<<b + m, n>>) /\ b + m >= b /\ (b + m) - b + n <= m + n
      BY <2>2 DEF IsRange
    <3>2. QED
      BY <2>2, <3>1 DEF Behind, b
  <2>4. QED
    BY <2>2, <2>3
<1>10. Len(delta'.memberCons) = Len(delta'.members) /\ Len(delta.members) <= Len(delta'.members)
  BY <1>6, <1>7, <1>8
<1>11. QED
  BY <1>0, <1>1, <1>5, <1>7, <1>9, <1>10, RewriteEdit

LEMMA RetireTypeEdit == ASSUME BaselineInv, Groups, NEW h, RetireType(h) PROVE Groups'
<1>0. PICK d : d = IF h <= Len(graph.types) THEN PatchType(h, TypeEntry(h), FALSE)
                   ELSE [delta EXCEPT !.typeLive[h - Len(graph.types)] = FALSE]
  OBVIOUS
<1>1. UNCHANGED graph /\ ContainsType(h) /\ delta' = [d EXCEPT !.liveTypes = @ - 1]
  BY <1>0 DEF RetireType
<1>2. /\ Tables(graph.types, delta.types, delta.typeLive, delta.typePatch)
      /\ LiveTypes = LiveOf(graph.types, delta.types, delta.typeLive, delta.typePatch)
      /\ h \in LiveTypes /\ h \in TypeSlots
  BY <1>1, TypeTables DEF Groups, ContainsType
<1>3. PICK e : e = TypeEntry(h)
  OBVIOUS
<1>4. /\ DOMAIN d = DeltaFields /\ TypeWritten(d, h, e, FALSE)
      /\ \A f \in DeltaFields \ {"types", "typeLive", "typePatch"} : d[f] = delta[f]
  BY <1>0, <1>2, <1>3, RetireTypeWrites DEF Groups
<1>5. /\ DOMAIN delta' = DeltaFields /\ delta'.liveTypes = d.liveTypes - 1
      /\ \A f \in DeltaFields \ {"liveTypes"} : delta'[f] = d[f]
  BY <1>1, <1>4 DEF DeltaFields, TypeFields
<1>6. /\ delta'.types = d.types /\ delta'.typeLive = d.typeLive /\ delta'.typePatch = d.typePatch
      /\ delta'.typeIds = delta.typeIds /\ delta'.members = delta.members
      /\ delta'.memberCons = delta.memberCons /\ delta'.liveTypes = delta.liveTypes - 1
      /\ \A f \in DeltaFields \ TypeFields : delta'[f] = delta[f]
  BY <1>4, <1>5 DEF DeltaFields, TypeFields, ObjectFields, LinkFields
<1>7. delta'.liveTypes = Cardinality(Switched(LiveTypes, h, FALSE))
  <2>1. Cardinality(Switched(LiveTypes, h, FALSE)) = Cardinality(LiveTypes) - 1
    BY ONLY <1>2, LiveLess
  <2>2. QED
    BY <1>6, <2>1 DEF Groups, TypesInv
<1>8. /\ IsTable(delta'.members) /\ IsTable(delta'.memberCons)
      /\ Len(delta'.memberCons) = Len(delta'.members) /\ Len(delta.members) <= Len(delta'.members)
  BY <1>6, TableFacts DEF Groups, TypesInv
<1>9. TypesInv'
  BY <1>1, <1>2, <1>4, <1>6, <1>7, <1>8, TypesWrittenStep DEF Groups
<1>10. QED
  BY <1>1, <1>5, <1>6, <1>9, TypesOnly

LEMMA DeriveEdit ==
  ASSUME Groups, NEW child, NEW kind, NEW payload, DeltaDerive(child, kind, payload) PROVE Groups'
<1>1. PICK r : UNCHANGED graph /\ delta' = [delta EXCEPT !.derived = Append(@, r)]
  BY DEF DeltaDerive, AppendDerived
<1>2. DOMAIN delta' = DeltaFields /\ \A f \in DeltaFields \ {"derived"} : delta'[f] = delta[f]
  BY <1>1 DEF Groups, DeltaFields
<1>3. \A f \in TypeFields \cup ObjectFields \cup LinkFields : delta'[f] = delta[f]
  BY <1>2 DEF DeltaFields, TypeFields, ObjectFields, LinkFields
<1>4. QED
  BY <1>1, <1>2, <1>3, TypesFrame, ObjectsFrame, LinksFrame DEF Groups

-----------------------------------------------------------------------------
(***************************************************************************)
(* The edits of objects                                                    *)
(***************************************************************************)
ObjectWritten(d, h, e, b) ==
  Written(graph.objects, delta.objects, delta.objectLive, delta.objectPatch,
          d.objects, d.objectLive, d.objectPatch, h, e, b)

LEMMA ObjectTables ==
  ASSUME BaselineInv, ObjectsInv
  PROVE  /\ Tables(graph.objects, delta.objects, delta.objectLive, delta.objectPatch)
         /\ ObjectSlots = SlotsOf(graph.objects, delta.objects)
         /\ LiveObjects = LiveOf(graph.objects, delta.objects, delta.objectLive, delta.objectPatch)
         /\ \A h : ObjectEntry(h) = EntryOf(graph.objects, delta.objects, delta.objectPatch, h)
         /\ \A h : ContainsObject(h) <=> h \in LiveObjects
<1>1. IsTable(graph.objects)
  BY BaselineTables
<1>2. QED
  BY <1>1 DEF ObjectsInv, Tables, ObjectSlots, SlotsOf, LiveObjects, LiveOf, LiveSlots, ObjectEntry,
              EntryOf, ContainsObject

LEMMA ObjectsOnly ==
  ASSUME Groups, UNCHANGED graph, DOMAIN delta' = DeltaFields, ObjectsInv',
         \A f \in DeltaFields \ ObjectFields : delta'[f] = delta[f]
  PROVE  Groups'
<1>1. \A f \in TypeFields \cup LinkFields : delta'[f] = delta[f]
  BY DEF DeltaFields, TypeFields, ObjectFields, LinkFields
<1>2. QED
  BY <1>1, TypesFrame, LinksFrame DEF Groups

LEMMA LineageObjectSlot ==
  ASSUME BaselineInv, ObjectsInv, NEW id, LineageObject(id) # 0 PROVE LineageObject(id) \in ObjectSlots
<1>1. /\ IsTable(graph.objectIds) /\ IsTable(delta.objectIds)
      /\ Len(graph.objectIds) = Len(graph.objects) /\ Len(delta.objectIds) = Len(delta.objects)
  BY DEF BaselineInv, GraphFields, ObjectsInv
<1>2. /\ DOMAIN graph.objectIds = 1..Len(graph.objects)
      /\ DOMAIN delta.objectIds = 1..Len(delta.objects)
      /\ Len(graph.objects) \in Nat /\ Len(delta.objects) \in Nat
  BY <1>1, TableFacts
<1> DEFINE m == Len(graph.objects)
           n == Len(delta.objects)
           i == SlotOf(delta.objectIds, id)
           j == SlotOf(graph.objectIds, id)
<1>3. LineageObject(id) = (IF i # 0 THEN m + i ELSE j) /\ ObjectSlots = 1..(m + n)
  BY DEF LineageObject, FindObject, ObjectSlots
<1>4. (i # 0 => i \in 1..n) /\ (j # 0 => j \in 1..m) /\ m \in Nat /\ n \in Nat
  BY <1>2, SlotFound
<1> HIDE DEF m, n, i, j
<1>5. QED
  BY <1>3, <1>4

\* Object h is restored with entry e and construction initial.
ObjectRestored(d, h, e, initial) ==
  /\ DOMAIN d = DeltaFields
  /\ \A f \in DeltaFields \ {"objects", "objectLive", "objectPatch"} : d[f] = delta[f]
  /\ ObjectWritten(d, h, e, TRUE)
  /\ h <= Len(graph.objects) => d.objectPatch[h].construction = initial
  /\ DOMAIN d.objects = DOMAIN delta.objects
  /\ \A o \in DOMAIN delta.objects : d.objects[o] \in {e, delta.objects[o]}

LEMMA RestoreObjectWrites ==
  ASSUME BaselineInv, ObjectsInv, DOMAIN delta = DeltaFields, NEW h \in ObjectSlots, NEW e,
         NEW initial
  PROVE  ObjectRestored(RestoreObject(h, e, initial), h, e, initial)
<1>0. PICK d : d = RestoreObject(h, e, initial)
  OBVIOUS
<1>1. /\ Tables(graph.objects, delta.objects, delta.objectLive, delta.objectPatch)
      /\ h \in SlotsOf(graph.objects, delta.objects)
  BY ObjectTables
<1>2. CASE h <= Len(graph.objects)
  <2>0. PICK v : v = [value |-> e, construction |-> initial, live |-> TRUE]
    OBVIOUS
  <2>1. d = [delta EXCEPT !.objectPatch = WithPatch(@, h, v)]
    BY <1>0, <1>2, <2>0 DEF RestoreObject, PatchObject
  <2>2. v.value = e /\ v.live = TRUE /\ v.construction = initial
    BY <2>0
  <2>3. /\ DOMAIN d = DeltaFields /\ d.objectPatch = WithPatch(delta.objectPatch, h, v)
        /\ \A f \in DeltaFields \ {"objectPatch"} : d[f] = delta[f]
    BY <2>1 DEF DeltaFields, ObjectFields
  <2>4. d.objects = delta.objects /\ d.objectLive = delta.objectLive
    BY <2>3 DEF DeltaFields, ObjectFields
  <2>5. Written(graph.objects, delta.objects, delta.objectLive, delta.objectPatch,
                delta.objects, delta.objectLive, d.objectPatch, h, v.value, v.live)
    <3>1. d.objectPatch = WithPatch(delta.objectPatch, h, v)
      BY <2>3
    <3>2. QED
      BY ONLY <1>1, <1>2, <3>1, WrittenByPatch
  <2>6. d.objectPatch[h] = v
    BY <2>3 DEF WithPatch
  <2>7. QED
    BY <1>0, <1>2, <2>2, <2>3, <2>4, <2>5, <2>6 DEF ObjectWritten, ObjectRestored
<1>3. CASE ~(h <= Len(graph.objects))
  <2>0. PICK i : i = h - Len(graph.objects)
    OBVIOUS
  <2>1. d = [delta EXCEPT !.objects[i] = e, !.objectLive[i] = TRUE]
    BY <1>0, <1>3, <2>0 DEF RestoreObject
  <2>2. /\ DOMAIN d = DeltaFields /\ d.objects = [delta.objects EXCEPT ![i] = e]
        /\ d.objectLive = [delta.objectLive EXCEPT ![i] = TRUE]
        /\ \A f \in DeltaFields \ {"objects", "objectLive"} : d[f] = delta[f]
    BY <2>1 DEF DeltaFields, ObjectFields
  <2>3. d.objectPatch = delta.objectPatch
    BY <2>2 DEF DeltaFields, ObjectFields
  <2>4. Written(graph.objects, delta.objects, delta.objectLive, delta.objectPatch,
                d.objects, d.objectLive, delta.objectPatch, h, e, TRUE)
    BY <1>1, <1>3, <2>0, <2>2, WrittenLocally
  <2>5. QED
    BY <1>0, <1>3, <2>0, <2>2, <2>3, <2>4 DEF ObjectWritten, ObjectRestored
<1>4. QED
  BY <1>2, <1>3

LEMMA RetireObjectWrites ==
  ASSUME BaselineInv, ObjectsInv, DOMAIN delta = DeltaFields, NEW h \in ObjectSlots,
         NEW d, d = IF h <= Len(graph.objects)
                    THEN PatchObject(h, ObjectEntry(h), DeltaObjectConstruction(h), FALSE)
                    ELSE [delta EXCEPT !.objectLive[h - Len(graph.objects)] = FALSE]
  PROVE  /\ DOMAIN d = DeltaFields
         /\ \A f \in DeltaFields \ {"objectLive", "objectPatch"} : d[f] = delta[f]
         /\ ObjectWritten(d, h, ObjectEntry(h), FALSE)
<1>1. /\ Tables(graph.objects, delta.objects, delta.objectLive, delta.objectPatch)
      /\ h \in SlotsOf(graph.objects, delta.objects)
      /\ ObjectEntry(h) = EntryOf(graph.objects, delta.objects, delta.objectPatch, h)
  BY ObjectTables
<1>2. CASE h <= Len(graph.objects)
  <2>0. PICK v : v = [value |-> ObjectEntry(h), construction |-> DeltaObjectConstruction(h),
                      live |-> FALSE]
    OBVIOUS
  <2>1. d = [delta EXCEPT !.objectPatch = WithPatch(@, h, v)]
    BY <1>2, <2>0 DEF PatchObject
  <2>2. v.value = ObjectEntry(h) /\ v.live = FALSE
    BY <2>0
  <2>3. /\ DOMAIN d = DeltaFields /\ d.objectPatch = WithPatch(delta.objectPatch, h, v)
        /\ \A f \in DeltaFields \ {"objectPatch"} : d[f] = delta[f]
    BY <2>1 DEF DeltaFields, ObjectFields
  <2>4. d.objects = delta.objects /\ d.objectLive = delta.objectLive
    BY <2>3 DEF DeltaFields, ObjectFields
  <2>5. Written(graph.objects, delta.objects, delta.objectLive, delta.objectPatch,
                delta.objects, delta.objectLive, d.objectPatch, h, v.value, v.live)
    <3>1. d.objectPatch = WithPatch(delta.objectPatch, h, v)
      BY <2>3
    <3>2. QED
      BY ONLY <1>1, <1>2, <3>1, WrittenByPatch
  <2>6. QED
    BY <2>2, <2>3, <2>4, <2>5 DEF ObjectWritten
<1>3. CASE ~(h <= Len(graph.objects))
  <2>0. PICK i : i = h - Len(graph.objects)
    OBVIOUS
  <2>1. d = [delta EXCEPT !.objectLive[i] = FALSE]
    BY <1>3, <2>0
  <2>2. /\ DOMAIN d = DeltaFields
        /\ d.objectLive = [delta.objectLive EXCEPT ![i] = FALSE]
        /\ \A f \in DeltaFields \ {"objectLive"} : d[f] = delta[f]
    BY <2>1 DEF DeltaFields, ObjectFields
  <2>3. d.objectPatch = delta.objectPatch /\ d.objects = delta.objects
    BY <2>2 DEF DeltaFields, ObjectFields
  <2>4. delta.objects = [delta.objects EXCEPT ![i] = ObjectEntry(h)]
    BY <1>1, <1>3, <2>0, KeptEntry
  <2>5. Written(graph.objects, delta.objects, delta.objectLive, delta.objectPatch,
                d.objects, d.objectLive, delta.objectPatch, h, ObjectEntry(h), FALSE)
    BY <1>1, <1>3, <2>0, <2>2, <2>3, <2>4, WrittenLocally
  <2>6. QED
    BY <2>2, <2>3, <2>5 DEF ObjectWritten
<1>4. QED
  BY <1>2, <1>3

\* The construction of an added object lies behind all others, and is read.
Constructed(cons, e, type, static, initialized, initial) ==
  /\ IsTable(cons) /\ DOMAIN delta.objectCons \subseteq DOMAIN cons
  /\ \A i \in DOMAIN delta.objectCons : cons[i] = delta.objectCons[i]
  /\ e.type = type /\ e.static = static /\ (e.initialized <=> initialized)
  /\ e.initialized => /\ e.slot - Len(graph.objectCons) \in DOMAIN cons
                      /\ cons[e.slot - Len(graph.objectCons)] = initial

LEMMA NewObjectSlot ==
  ASSUME BaselineInv, ObjectsInv, NEW type, NEW static, NEW initialized, NEW initial,
         delta'.objectCons =
           IF initialized THEN Append(delta.objectCons, initial) ELSE delta.objectCons
  PROVE  Constructed(delta'.objectCons, NewObject(type, static, initialized), type, static,
                     initialized, initial)
<1> DEFINE cons == delta'.objectCons
<1>0. PICK e : e = NewObject(type, static, initialized)
  OBVIOUS
<1>1. e.type = type /\ e.static = static /\ e.initialized = initialized
      /\ e.slot = IF initialized THEN Len(graph.objectCons) + Len(delta.objectCons) + 1 ELSE 0
  BY <1>0 DEF NewObject
<1>2. IsTable(delta.objectCons) /\ IsTable(graph.objectCons)
  BY DEF ObjectsInv, BaselineInv, GraphFields
<1>3. CASE initialized
  <2>1. /\ IsTable(cons) /\ cons[Len(delta.objectCons) + 1] = initial
        /\ \A i \in DOMAIN delta.objectCons : i \in DOMAIN cons /\ cons[i] = delta.objectCons[i]
        /\ DOMAIN cons = DOMAIN delta.objectCons \cup {Len(delta.objectCons) + 1}
    BY <1>2, <1>3, AppendTable
  <2> DEFINE m == Len(graph.objectCons)
             n == Len(delta.objectCons)
  <2>2. m \in Nat /\ n \in Nat /\ e.slot = m + n + 1
    BY <1>1, <1>2, <1>3, TableFacts
  <2> HIDE DEF m, n
  <2>3. e.slot - m = n + 1
    BY <2>2
  <2>4. QED
    BY <1>0, <1>1, <2>1, <2>3 DEF m, n, Constructed
<1>4. CASE ~initialized
  BY <1>0, <1>1, <1>2, <1>4 DEF Constructed
<1>5. QED
  BY <1>0, <1>3, <1>4 DEF Constructed

LEMMA LineageObjectFree ==
  ASSUME BaselineInv, ObjectsInv, NEW id, LineageObject(id) = 0 PROVE SlotOf(delta.objectIds, id) = 0
<1>1. /\ Len(graph.objects) \in Nat /\ DOMAIN delta.objectIds = 1..Len(delta.objectIds)
      /\ Len(delta.objectIds) \in Nat
  BY BaselineTables, TableFacts DEF ObjectsInv
<1>2. QED
  BY <1>1, SlotFound DEF LineageObject

LEMMA AddObjectEdit ==
  ASSUME BaselineInv, Groups, NEW id, NEW type, NEW static, NEW initialized, NEW initial,
         DeltaAddObject(id, type, static, initialized, initial)
  PROVE  Groups'
<1>0. PICK h, e : h = LineageObject(id) /\ e = NewObject(type, static, initialized)
  OBVIOUS
<1>1. PICK d : /\ d = IF h = 0 THEN AppendObject(id, e) ELSE RestoreObject(h, e, initial)
               /\ delta' = [d EXCEPT !.objectCons = IF initialized THEN Append(@, initial) ELSE @,
                                     !.liveObjects = @ + 1]
  BY <1>0 DEF DeltaAddObject
<1>2. UNCHANGED graph /\ ~ContainsObject(h)
  BY <1>0 DEF DeltaAddObject, CanAddObject
<1>3. /\ Tables(graph.objects, delta.objects, delta.objectLive, delta.objectPatch)
      /\ ObjectSlots = SlotsOf(graph.objects, delta.objects)
      /\ LiveObjects = LiveOf(graph.objects, delta.objects, delta.objectLive, delta.objectPatch)
      /\ h \notin LiveObjects
  BY <1>2, ObjectTables DEF Groups
<1>4. /\ DOMAIN delta = DeltaFields /\ ObjectsInv
      /\ Len(delta.objects) \in Nat /\ DOMAIN delta.objects = 1..Len(delta.objects)
  BY TableFacts DEF Groups, ObjectsInv
<1>5. ASSUME NEW k, LiveObjects' = Switched(LiveObjects, k, TRUE), k \notin LiveObjects,
             DOMAIN d = DeltaFields,
             \A f \in DeltaFields \ {"objects", "objectIds", "objectLive", "objectPatch"} :
               d[f] = delta[f],
             IsTable(d.objectIds), Distinct(d.objectIds), Len(d.objectIds) = Len(d.objects),
             Tables(graph.objects, d.objects, d.objectLive, d.objectPatch),
             \A o \in DOMAIN d.objects : d.objects[o] = e \/
               (o \in DOMAIN delta.objects /\ d.objects[o] = delta.objects[o])
      PROVE  Groups'
  <2>1. d.objectCons = delta.objectCons /\ d.liveObjects = delta.liveObjects
    BY <1>5 DEF DeltaFields, ObjectFields
  <2>2. /\ DOMAIN delta' = DeltaFields
        /\ delta'.objectCons = IF initialized THEN Append(delta.objectCons, initial)
                               ELSE delta.objectCons
        /\ delta'.liveObjects = delta.liveObjects + 1
        /\ \A f \in DeltaFields \ {"objectCons", "liveObjects"} : delta'[f] = d[f]
    BY <1>1, <1>5, <2>1 DEF DeltaFields, ObjectFields
  <2>3. /\ delta'.objects = d.objects /\ delta'.objectIds = d.objectIds
        /\ delta'.objectLive = d.objectLive /\ delta'.objectPatch = d.objectPatch
        /\ \A f \in DeltaFields \ ObjectFields : delta'[f] = delta[f]
    BY <1>5, <2>2 DEF DeltaFields, TypeFields, ObjectFields, LinkFields
  <2>4. /\ IsTable(delta'.objectCons) /\ DOMAIN delta.objectCons \subseteq DOMAIN delta'.objectCons
        /\ e.initialized => e.slot - Len(graph.objectCons) \in DOMAIN delta'.objectCons
    <3>1. e = NewObject(type, static, initialized)
      BY <1>0
    <3>2. delta'.objectCons = IF initialized THEN Append(delta.objectCons, initial)
                              ELSE delta.objectCons
      BY <2>2
    <3>3. Constructed(delta'.objectCons, e, type, static, initialized, initial)
      BY <1>4, <3>1, <3>2, NewObjectSlot
    <3>4. QED
      BY <3>3 DEF Constructed
  <2>5. \A o \in DOMAIN delta'.objects : delta'.objects[o].initialized =>
          delta'.objects[o].slot - Len(graph'.objectCons) \in DOMAIN delta'.objectCons
    BY <1>2, <1>4, <1>5, <2>3, <2>4 DEF ObjectsInv
  <2>6. delta'.liveObjects = Cardinality(LiveObjects')
    <3>0. k \notin LiveObjects
      BY <1>5
    <3>1. Cardinality(Switched(LiveObjects, k, TRUE)) = Cardinality(LiveObjects) + 1
      BY ONLY <1>3, <3>0, LiveMore
    <3>2. QED
      BY <1>4, <1>5, <2>2, <3>1 DEF ObjectsInv
  <2>7. ObjectsInv'
    BY <1>2, <1>5, <2>3, <2>4, <2>5, <2>6 DEF ObjectsInv, Tables
  <2>8. QED
    BY <1>2, <2>2, <2>3, <2>7, ObjectsOnly
<1>6. /\ delta'.objects = d.objects /\ delta'.objectLive = d.objectLive
      /\ delta'.objectPatch = d.objectPatch
  BY <1>1
<1>7. CASE h # 0
  <2>1. h \in ObjectSlots
    BY <1>0, <1>4, <1>7, LineageObjectSlot
  <2>2. /\ DOMAIN d = DeltaFields
        /\ \A f \in DeltaFields \ {"objects", "objectLive", "objectPatch"} : d[f] = delta[f]
        /\ ObjectWritten(d, h, e, TRUE)
        /\ DOMAIN d.objects = DOMAIN delta.objects
        /\ \A o \in DOMAIN delta.objects : d.objects[o] \in {e, delta.objects[o]}
    <3>1. d = RestoreObject(h, e, initial)
      BY <1>1, <1>7
    <3>2. ObjectRestored(d, h, e, initial)
      BY <1>4, <2>1, <3>1, RestoreObjectWrites
    <3>3. QED
      BY <3>2 DEF ObjectRestored
  <2>3. \A o \in DOMAIN d.objects : d.objects[o] = e \/
          (o \in DOMAIN delta.objects /\ d.objects[o] = delta.objects[o])
    BY <2>2
  <2>4. d.objectIds = delta.objectIds
    BY <2>2 DEF DeltaFields, ObjectFields
  <2>5. /\ Tables(graph.objects, d.objects, d.objectLive, d.objectPatch)
        /\ Len(d.objects) = Len(delta.objects)
        /\ LiveOf(graph.objects, d.objects, d.objectLive, d.objectPatch) =
             Switched(LiveOf(graph.objects, delta.objects, delta.objectLive, delta.objectPatch),
                      h, TRUE)
    BY <2>2 DEF ObjectWritten, Written
  <2>6. LiveObjects' = Switched(LiveObjects, h, TRUE)
    BY <1>2, <1>3, <1>6, <2>5 DEF LiveObjects, LiveOf
  <2>7. QED
    BY <1>3, <1>4, <1>5, <2>2, <2>3, <2>4, <2>5, <2>6 DEF ObjectsInv
<1>8. CASE h = 0
  <2>0. PICK k : k = Len(graph.objects) + Len(delta.objects) + 1
    OBVIOUS
  <2>1. d = [delta EXCEPT !.objects = Append(@, e), !.objectIds = Append(@, id),
                          !.objectLive = Append(@, TRUE)]
    BY <1>1, <1>8 DEF AppendObject
  <2>2. /\ DOMAIN d = DeltaFields /\ d.objects = Append(delta.objects, e)
        /\ d.objectIds = Append(delta.objectIds, id)
        /\ d.objectLive = Append(delta.objectLive, TRUE)
        /\ \A f \in DeltaFields \ {"objects", "objectIds", "objectLive"} : d[f] = delta[f]
    BY <1>4, <2>1 DEF DeltaFields, ObjectFields
  <2>3. d.objectPatch = delta.objectPatch
    BY <2>2 DEF DeltaFields, ObjectFields
  <2>4. Appended(graph.objects, delta.objects, delta.objectLive, delta.objectPatch,
                 d.objects, d.objectLive, k, e)
    BY <1>3, <2>0, <2>2, WrittenBehind
  <2>5. /\ Tables(graph.objects, d.objects, d.objectLive, d.objectPatch)
        /\ Len(d.objects) = Len(delta.objects) + 1 /\ k \notin LiveObjects
        /\ LiveOf(graph.objects, d.objects, d.objectLive, d.objectPatch) =
             Switched(LiveObjects, k, TRUE)
    BY <1>3, <2>3, <2>4 DEF Appended
  <2>6. LiveObjects' = Switched(LiveObjects, k, TRUE)
    BY <1>2, <1>6, <2>5 DEF LiveObjects, LiveOf
  <2>7. /\ IsTable(d.objectIds) /\ Distinct(d.objectIds) /\ Len(d.objectIds) = Len(d.objects)
    <3>1. SlotOf(delta.objectIds, id) = 0
      BY <1>0, <1>4, <1>8, LineageObjectFree
    <3>2. QED
      BY <1>4, <2>2, <2>5, <3>1, AppendTable, DistinctAppend DEF ObjectsInv
  <2>8. \A o \in DOMAIN d.objects : d.objects[o] = e \/
          (o \in DOMAIN delta.objects /\ d.objects[o] = delta.objects[o])
    <3>1. IsTable(delta.objects)
      BY <1>4 DEF ObjectsInv
    <3>2. /\ DOMAIN d.objects = DOMAIN delta.objects \cup {Len(delta.objects) + 1}
          /\ d.objects[Len(delta.objects) + 1] = e
          /\ \A o \in DOMAIN delta.objects : d.objects[o] = delta.objects[o]
      BY <2>2, <3>1, AppendTable
    <3>3. QED
      BY <3>2
  <2>9. QED
    BY <1>5, <2>2, <2>5, <2>6, <2>7, <2>8
<1>9. QED
  BY <1>7, <1>8

LEMMA RetireObjectEdit == ASSUME BaselineInv, Groups, NEW h, RetireObject(h) PROVE Groups'
<1>0. PICK d : d = IF h <= Len(graph.objects)
                   THEN PatchObject(h, ObjectEntry(h), DeltaObjectConstruction(h), FALSE)
                   ELSE [delta EXCEPT !.objectLive[h - Len(graph.objects)] = FALSE]
  OBVIOUS
<1>1. UNCHANGED graph /\ ContainsObject(h) /\ delta' = [d EXCEPT !.liveObjects = @ - 1]
  BY <1>0 DEF RetireObject
<1>2. /\ Tables(graph.objects, delta.objects, delta.objectLive, delta.objectPatch)
      /\ LiveObjects = LiveOf(graph.objects, delta.objects, delta.objectLive, delta.objectPatch)
      /\ h \in LiveObjects /\ h \in ObjectSlots
  BY <1>1, ObjectTables DEF Groups, ContainsObject
<1>3. /\ DOMAIN d = DeltaFields /\ ObjectWritten(d, h, ObjectEntry(h), FALSE)
      /\ \A f \in DeltaFields \ {"objectLive", "objectPatch"} : d[f] = delta[f]
  BY <1>0, <1>2, RetireObjectWrites DEF Groups
<1>4. /\ DOMAIN delta' = DeltaFields /\ delta'.liveObjects = d.liveObjects - 1
      /\ \A f \in DeltaFields \ {"liveObjects"} : delta'[f] = d[f]
  BY <1>1, <1>3 DEF DeltaFields, ObjectFields
<1>5. /\ delta'.objects = delta.objects /\ delta'.objectLive = d.objectLive
      /\ delta'.objectPatch = d.objectPatch /\ delta'.objectIds = delta.objectIds
      /\ delta'.objectCons = delta.objectCons /\ delta'.liveObjects = delta.liveObjects - 1
      /\ d.objects = delta.objects
      /\ \A f \in DeltaFields \ ObjectFields : delta'[f] = delta[f]
  BY <1>3, <1>4 DEF DeltaFields, TypeFields, ObjectFields, LinkFields
<1>6. /\ Tables(graph.objects, delta.objects, d.objectLive, d.objectPatch)
      /\ LiveOf(graph.objects, delta.objects, d.objectLive, d.objectPatch) =
           Switched(LiveObjects, h, FALSE)
  BY <1>2, <1>3, <1>5 DEF ObjectWritten, Written
<1>7. LiveObjects' = Switched(LiveObjects, h, FALSE)
  BY <1>1, <1>5, <1>6 DEF LiveObjects, LiveOf
<1>8. delta'.liveObjects = Cardinality(LiveObjects')
  <2>1. Cardinality(Switched(LiveObjects, h, FALSE)) = Cardinality(LiveObjects) - 1
    BY ONLY <1>2, LiveLess
  <2>2. QED
    BY <1>5, <1>7, <2>1 DEF Groups, ObjectsInv
<1>9. ObjectsInv'
  BY <1>1, <1>5, <1>6, <1>8 DEF Groups, ObjectsInv, Tables
<1>10. QED
  BY <1>1, <1>4, <1>5, <1>9, ObjectsOnly

-----------------------------------------------------------------------------
(***************************************************************************)
(* The edits of links                                                      *)
(***************************************************************************)
LinkWritten(d, l, e, b) ==
  Written(graph.links, delta.links, delta.linkLive, delta.linkPatch,
          d.links, d.linkLive, d.linkPatch, l, e, b)

LEMMA LinkTables ==
  ASSUME BaselineInv, LinksInv
  PROVE  /\ Tables(graph.links, delta.links, delta.linkLive, delta.linkPatch)
         /\ LinkSlots = SlotsOf(graph.links, delta.links)
         /\ LiveLinks = LiveOf(graph.links, delta.links, delta.linkLive, delta.linkPatch)
         /\ \A l : LinkEntry(l) = EntryOf(graph.links, delta.links, delta.linkPatch, l)
         /\ \A l : ContainsLink(l) <=> l \in LiveLinks
<1>1. IsTable(graph.links)
  BY BaselineTables
<1>2. QED
  BY <1>1 DEF LinksInv, Tables, LinkSlots, SlotsOf, LiveLinks, LiveOf, LiveSlots, LinkEntry, EntryOf,
              ContainsLink

LEMMA LinksOnly ==
  ASSUME Groups, UNCHANGED graph, DOMAIN delta' = DeltaFields, LinksInv',
         \A f \in DeltaFields \ LinkFields : delta'[f] = delta[f]
  PROVE  Groups'
<1>1. \A f \in TypeFields \cup ObjectFields : delta'[f] = delta[f]
  BY DEF DeltaFields, TypeFields, ObjectFields, LinkFields
<1>2. QED
  BY <1>1, TypesFrame, ObjectsFrame DEF Groups

\* A target found in the baseline has a slot of it, one of the delta's index a
\* local slot.
LEMMA LineageLink ==
  ASSUME BaselineInv, LinksInv, NEW target, LineageLinkTarget(target) # 0
  PROVE  /\ LineageLinkTarget(target) \in LinkSlots
         /\ LineageLinkTarget(target) > Len(graph.links) <=> target \in DOMAIN delta.targets
         /\ LineageLinkTarget(target) > Len(graph.links) =>
              /\ delta.targets[target] = LineageLinkTarget(target)
              /\ delta.links[LineageLinkTarget(target) - Len(graph.links)].target = target
         /\ LineageLinkTarget(target) <= Len(graph.links) =>
              graph.links[LineageLinkTarget(target)].target = target
<1>0. PICK x, m, n : x = LineageLinkTarget(target) /\ m = Len(graph.links) /\ n = Len(delta.links)
  OBVIOUS
<1>1. m \in Nat /\ DOMAIN graph.links = 1..m /\ n \in Nat /\ LinkSlots = 1..(m + n)
  BY <1>0, BaselineTables, TableFacts DEF LinksInv, LinkSlots
<1>2. CASE target \in DOMAIN delta.targets
  <2>1. /\ x = delta.targets[target] /\ x - m \in 1..n /\ x \in Nat
        /\ delta.links[x - m].target = target
    BY <1>0, <1>1, <1>2, TableFacts DEF LineageLinkTarget, LinksInv, TargetsIndexed
  <2>2. ~(x <= m) /\ x \in 1..(m + n) /\ x > m
    BY <1>1, <2>1
  <2>3. QED
    BY <1>0, <1>1, <1>2, <2>1, <2>2
<1>3. CASE target \notin DOMAIN delta.targets
  <2>0. PICK g : g = [l \in DOMAIN graph.links |-> graph.links[l].target]
    OBVIOUS
  <2>1. x = SlotOf(g, target) /\ DOMAIN g = DOMAIN graph.links
    BY <1>0, <1>3, <2>0 DEF LineageLinkTarget, FindLinkTarget
  <2>2. x \in 1..m /\ g[x] = target
    BY <1>0, <1>1, <2>1, SlotFound
  <2>3. x \in 1..(m + n) /\ ~(x > m) /\ x <= m
    BY <1>1, <2>2
  <2>4. graph.links[x].target = target
    BY <1>1, <2>0, <2>2
  <2>5. QED
    BY <1>0, <1>1, <1>3, <2>3, <2>4
<1>4. QED
  BY <1>2, <1>3

LEMMA RestoreLinkWrites ==
  ASSUME BaselineInv, LinksInv, DOMAIN delta = DeltaFields, NEW l \in LinkSlots, NEW e,
         NEW d, d = RestoreLink(l, e)
  PROVE  /\ DOMAIN d = DeltaFields
         /\ \A f \in DeltaFields \ {"links", "linkLive", "linkPatch"} : d[f] = delta[f]
         /\ LinkWritten(d, l, e, TRUE)
<1>1. /\ Tables(graph.links, delta.links, delta.linkLive, delta.linkPatch)
      /\ l \in SlotsOf(graph.links, delta.links)
  BY LinkTables
<1>2. CASE l <= Len(graph.links)
  <2>0. PICK v : v = [value |-> e, live |-> TRUE]
    OBVIOUS
  <2>1. d = [delta EXCEPT !.linkPatch = WithPatch(@, l, v)]
    BY <1>2, <2>0 DEF RestoreLink, PatchLink
  <2>2. v.value = e /\ v.live = TRUE
    BY <2>0
  <2>3. /\ DOMAIN d = DeltaFields /\ d.linkPatch = WithPatch(delta.linkPatch, l, v)
        /\ \A f \in DeltaFields \ {"linkPatch"} : d[f] = delta[f]
    BY <2>1 DEF DeltaFields, LinkFields
  <2>4. d.links = delta.links /\ d.linkLive = delta.linkLive
    BY <2>3 DEF DeltaFields, LinkFields
  <2>5. Written(graph.links, delta.links, delta.linkLive, delta.linkPatch,
                delta.links, delta.linkLive, d.linkPatch, l, v.value, v.live)
    <3>1. d.linkPatch = WithPatch(delta.linkPatch, l, v)
      BY <2>3
    <3>2. QED
      BY ONLY <1>1, <1>2, <3>1, WrittenByPatch
  <2>6. QED
    BY <2>2, <2>3, <2>4, <2>5 DEF LinkWritten
<1>3. CASE ~(l <= Len(graph.links))
  <2>0. PICK i : i = l - Len(graph.links)
    OBVIOUS
  <2>1. d = [delta EXCEPT !.links[i] = e, !.linkLive[i] = TRUE]
    BY <1>3, <2>0 DEF RestoreLink
  <2>2. /\ DOMAIN d = DeltaFields /\ d.links = [delta.links EXCEPT ![i] = e]
        /\ d.linkLive = [delta.linkLive EXCEPT ![i] = TRUE]
        /\ \A f \in DeltaFields \ {"links", "linkLive"} : d[f] = delta[f]
    BY <2>1 DEF DeltaFields, LinkFields
  <2>3. d.linkPatch = delta.linkPatch
    BY <2>2 DEF DeltaFields, LinkFields
  <2>4. Written(graph.links, delta.links, delta.linkLive, delta.linkPatch,
                d.links, d.linkLive, delta.linkPatch, l, e, TRUE)
    BY <1>1, <1>3, <2>0, <2>2, WrittenLocally
  <2>5. QED
    BY <2>2, <2>3, <2>4 DEF LinkWritten
<1>4. QED
  BY <1>2, <1>3

LEMMA RetireLinkWrites ==
  ASSUME BaselineInv, LinksInv, DOMAIN delta = DeltaFields, NEW l \in LinkSlots,
         NEW d, d = IF l <= Len(graph.links) THEN PatchLink(l, LinkEntry(l), FALSE)
                    ELSE [delta EXCEPT !.linkLive[l - Len(graph.links)] = FALSE]
  PROVE  /\ DOMAIN d = DeltaFields
         /\ \A f \in DeltaFields \ {"linkLive", "linkPatch"} : d[f] = delta[f]
         /\ LinkWritten(d, l, LinkEntry(l), FALSE)
<1>1. /\ Tables(graph.links, delta.links, delta.linkLive, delta.linkPatch)
      /\ l \in SlotsOf(graph.links, delta.links)
      /\ LinkEntry(l) = EntryOf(graph.links, delta.links, delta.linkPatch, l)
  BY LinkTables
<1>2. CASE l <= Len(graph.links)
  <2>0. PICK v : v = [value |-> LinkEntry(l), live |-> FALSE]
    OBVIOUS
  <2>1. d = [delta EXCEPT !.linkPatch = WithPatch(@, l, v)]
    BY <1>2, <2>0 DEF PatchLink
  <2>2. v.value = LinkEntry(l) /\ v.live = FALSE
    BY <2>0
  <2>3. /\ DOMAIN d = DeltaFields /\ d.linkPatch = WithPatch(delta.linkPatch, l, v)
        /\ \A f \in DeltaFields \ {"linkPatch"} : d[f] = delta[f]
    BY <2>1 DEF DeltaFields, LinkFields
  <2>4. d.links = delta.links /\ d.linkLive = delta.linkLive
    BY <2>3 DEF DeltaFields, LinkFields
  <2>5. Written(graph.links, delta.links, delta.linkLive, delta.linkPatch,
                delta.links, delta.linkLive, d.linkPatch, l, v.value, v.live)
    <3>1. d.linkPatch = WithPatch(delta.linkPatch, l, v)
      BY <2>3
    <3>2. QED
      BY ONLY <1>1, <1>2, <3>1, WrittenByPatch
  <2>6. QED
    BY <2>2, <2>3, <2>4, <2>5 DEF LinkWritten
<1>3. CASE ~(l <= Len(graph.links))
  <2>0. PICK i : i = l - Len(graph.links)
    OBVIOUS
  <2>1. d = [delta EXCEPT !.linkLive[i] = FALSE]
    BY <1>3, <2>0
  <2>2. /\ DOMAIN d = DeltaFields
        /\ d.linkLive = [delta.linkLive EXCEPT ![i] = FALSE]
        /\ \A f \in DeltaFields \ {"linkLive"} : d[f] = delta[f]
    BY <2>1 DEF DeltaFields, LinkFields
  <2>3. d.linkPatch = delta.linkPatch /\ d.links = delta.links
    BY <2>2 DEF DeltaFields, LinkFields
  <2>4. delta.links = [delta.links EXCEPT ![i] = LinkEntry(l)]
    BY <1>1, <1>3, <2>0, KeptEntry
  <2>5. Written(graph.links, delta.links, delta.linkLive, delta.linkPatch,
                d.links, d.linkLive, delta.linkPatch, l, LinkEntry(l), FALSE)
    BY <1>1, <1>3, <2>0, <2>2, <2>3, <2>4, WrittenLocally
  <2>6. QED
    BY <2>2, <2>3, <2>5 DEF LinkWritten
<1>4. QED
  BY <1>2, <1>3

LEMMA AddLinkEdit ==
  ASSUME BaselineInv, Groups, NEW source, NEW target, DeltaAddLink(source, target)
  PROVE  Groups'
<1>0. PICK l, e : l = LineageLinkTarget(target) /\ e = [source |-> source, target |-> target]
  OBVIOUS
<1>1. PICK d : /\ d = IF l = 0 THEN AppendLink(e) ELSE RestoreLink(l, e)
               /\ delta' = [d EXCEPT !.liveLinks = @ + 1]
  BY <1>0 DEF DeltaAddLink
<1>2. UNCHANGED graph /\ ~ContainsLink(l) /\ e.target = target
  BY <1>0 DEF DeltaAddLink
<1>3. /\ Tables(graph.links, delta.links, delta.linkLive, delta.linkPatch)
      /\ LinkSlots = SlotsOf(graph.links, delta.links)
      /\ LiveLinks = LiveOf(graph.links, delta.links, delta.linkLive, delta.linkPatch)
      /\ l \notin LiveLinks
  BY <1>2, LinkTables DEF Groups
<1>4. PICK m, n : m = Len(graph.links) /\ n = Len(delta.links)
  OBVIOUS
<1>5. /\ DOMAIN delta = DeltaFields /\ LinksInv /\ m \in Nat /\ n \in Nat
      /\ DOMAIN delta.links = 1..n /\ LinkSlots = 1..(m + n) /\ IsTable(delta.links)
      /\ TargetsIndexed(delta.targets, delta.links, m)
  BY <1>4, BaselineTables, TableFacts DEF Groups, LinksInv, LinkSlots
<1>6. ASSUME NEW k, LiveLinks' = Switched(LiveLinks, k, TRUE), k \notin LiveLinks,
             DOMAIN d = DeltaFields,
             \A f \in DeltaFields \ {"links", "linkLive", "linkPatch", "targets"} : d[f] = delta[f],
             Tables(graph.links, d.links, d.linkLive, d.linkPatch),
             TargetsIndexed(d.targets, d.links, m)
      PROVE  Groups'
  <2>1. d.liveLinks = delta.liveLinks
    BY <1>6 DEF DeltaFields, LinkFields
  <2>2. /\ DOMAIN delta' = DeltaFields /\ delta'.liveLinks = delta.liveLinks + 1
        /\ \A f \in DeltaFields \ {"liveLinks"} : delta'[f] = d[f]
    BY <1>1, <1>6, <2>1 DEF DeltaFields, LinkFields
  <2>3. /\ delta'.links = d.links /\ delta'.linkLive = d.linkLive
        /\ delta'.linkPatch = d.linkPatch /\ delta'.targets = d.targets
        /\ \A f \in DeltaFields \ LinkFields : delta'[f] = delta[f]
    BY <1>6, <2>2 DEF DeltaFields, TypeFields, ObjectFields, LinkFields
  <2>4. delta'.liveLinks = Cardinality(LiveLinks')
    <3>1. k \notin LiveLinks
      BY <1>6
    <3>2. Cardinality(Switched(LiveLinks, k, TRUE)) = Cardinality(LiveLinks) + 1
      BY ONLY <1>3, <3>1, LiveMore
    <3>3. QED
      BY <1>5, <1>6, <2>2, <3>2 DEF LinksInv
  <2>5. LinksInv'
    BY <1>2, <1>4, <1>6, <2>3, <2>4 DEF LinksInv, Tables
  <2>6. QED
    BY <1>2, <2>2, <2>3, <2>5, LinksOnly
<1>7. delta'.links = d.links /\ delta'.linkLive = d.linkLive /\ delta'.linkPatch = d.linkPatch
  BY <1>1
<1>8. CASE l # 0
  <2>1. /\ l \in 1..(m + n)
        /\ l > m => delta.targets[target] = l /\ delta.links[l - m].target = target
    BY <1>0, <1>4, <1>5, <1>8, LineageLink
  <2>2. d = RestoreLink(l, e)
    BY <1>1, <1>8
  <2>3. /\ DOMAIN d = DeltaFields /\ LinkWritten(d, l, e, TRUE)
        /\ \A f \in DeltaFields \ {"links", "linkLive", "linkPatch"} : d[f] = delta[f]
    <3>1. BaselineInv /\ LinksInv /\ DOMAIN delta = DeltaFields /\ l \in LinkSlots
      BY <1>5, <2>1
    <3>2. QED
      BY ONLY <2>2, <3>1, RestoreLinkWrites
  <2>4. d.targets = delta.targets
    BY <2>3 DEF DeltaFields, LinkFields
  <2>5. /\ Tables(graph.links, d.links, d.linkLive, d.linkPatch)
        /\ Len(d.links) = Len(delta.links)
        /\ LiveOf(graph.links, d.links, d.linkLive, d.linkPatch) = Switched(LiveLinks, l, TRUE)
    BY <1>3, <2>3 DEF LinkWritten, Written
  <2>6. LiveLinks' = Switched(LiveLinks, l, TRUE)
    BY <1>2, <1>7, <2>5 DEF LiveLinks, LiveOf
  <2>7. TargetsIndexed(d.targets, d.links, m)
    <3>1. CASE l <= m
      <4>1. d.links = delta.links
        BY <1>4, <1>5, <2>2, <3>1 DEF RestoreLink, PatchLink, DeltaFields, LinkFields
      <4>2. QED
        BY <1>5, <2>4, <4>1
    <3>2. CASE ~(l <= m)
      <4>1. l - m \in 1..n /\ l > m
        BY <1>5, <2>1, <3>2
      <4>2. d.links = [delta.links EXCEPT ![l - m] = e]
        BY <1>4, <1>5, <2>2, <3>2 DEF RestoreLink, DeltaFields, LinkFields
      <4>3. /\ DOMAIN d.links = 1..n /\ d.links[l - m] = e
            /\ \A i \in 1..n : i # l - m => d.links[i] = delta.links[i]
        BY <1>5, <4>1, <4>2
      <4>4. \A i \in 1..n : d.links[i].target = delta.links[i].target
        BY <1>2, <2>1, <4>1, <4>3
      <4>5. QED
        BY <1>5, <2>4, <4>3, <4>4 DEF TargetsIndexed
    <3>3. QED
      BY <3>1, <3>2
  <2>8. QED
    BY <1>3, <1>6, <2>3, <2>5, <2>6, <2>7
<1>9. CASE l = 0
  <2>0. PICK k : k = Len(graph.links) + Len(delta.links) + 1 /\ k = m + n + 1
    BY <1>4
  <2>1. d = [delta EXCEPT !.links = Append(@, e), !.linkLive = Append(@, TRUE),
                          !.targets = IndexTarget(target, k)]
    BY <1>1, <1>2, <1>9, <2>0 DEF AppendLink
  <2>2. /\ DOMAIN d = DeltaFields /\ d.links = Append(delta.links, e)
        /\ d.linkLive = Append(delta.linkLive, TRUE)
        /\ d.targets = WithPatch(delta.targets, target, k)
        /\ \A f \in DeltaFields \ {"links", "linkLive", "targets"} : d[f] = delta[f]
    BY <1>5, <2>1 DEF DeltaFields, LinkFields, IndexTarget
  <2>3. d.linkPatch = delta.linkPatch
    BY <2>2 DEF DeltaFields, LinkFields
  <2>4. Appended(graph.links, delta.links, delta.linkLive, delta.linkPatch,
                 d.links, d.linkLive, k, e)
    BY <1>3, <2>0, <2>2, WrittenBehind
  <2>5. /\ Tables(graph.links, d.links, d.linkLive, d.linkPatch) /\ k \notin LiveLinks
        /\ LiveOf(graph.links, d.links, d.linkLive, d.linkPatch) = Switched(LiveLinks, k, TRUE)
    BY <1>3, <2>3, <2>4 DEF Appended
  <2>6. LiveLinks' = Switched(LiveLinks, k, TRUE)
    BY <1>2, <1>7, <2>5 DEF LiveLinks, LiveOf
  <2>7. TargetsIndexed(d.targets, d.links, m)
    <3>1. /\ DOMAIN d.links = DOMAIN delta.links \cup {n + 1} /\ d.links[n + 1] = e
          /\ \A i \in DOMAIN delta.links : d.links[i] = delta.links[i]
      BY <1>4, <1>5, <2>2, AppendTable
    <3>2. k \in Nat /\ k - m = n + 1
      <4>1. m \in Nat /\ n \in Nat /\ k = m + n + 1
        BY <1>5, <2>0
      <4>2. QED
        BY ONLY <4>1
    <3>3. /\ DOMAIN d.targets = DOMAIN delta.targets \cup {target} /\ d.targets[target] = k
          /\ \A t \in DOMAIN delta.targets : t # target => d.targets[t] = delta.targets[t]
      BY <2>2 DEF WithPatch
    <3>4. QED
      BY <1>2, <1>5, <3>1, <3>2, <3>3 DEF TargetsIndexed
  <2>8. QED
    BY <1>6, <2>2, <2>5, <2>6, <2>7
<1>10. QED
  BY <1>8, <1>9

LEMMA RetireLinkEdit == ASSUME BaselineInv, Groups, NEW l, RetireLink(l) PROVE Groups'
<1>0. PICK d : d = IF l <= Len(graph.links) THEN PatchLink(l, LinkEntry(l), FALSE)
                   ELSE [delta EXCEPT !.linkLive[l - Len(graph.links)] = FALSE]
  OBVIOUS
<1>1. UNCHANGED graph /\ ContainsLink(l) /\ delta' = [d EXCEPT !.liveLinks = @ - 1]
  BY <1>0 DEF RetireLink
<1>2. /\ Tables(graph.links, delta.links, delta.linkLive, delta.linkPatch)
      /\ LiveLinks = LiveOf(graph.links, delta.links, delta.linkLive, delta.linkPatch)
      /\ l \in LiveLinks /\ l \in LinkSlots
  BY <1>1, LinkTables DEF Groups, ContainsLink
<1>3. /\ DOMAIN d = DeltaFields /\ LinkWritten(d, l, LinkEntry(l), FALSE)
      /\ \A f \in DeltaFields \ {"linkLive", "linkPatch"} : d[f] = delta[f]
  BY <1>0, <1>2, RetireLinkWrites DEF Groups
<1>4. /\ DOMAIN delta' = DeltaFields /\ delta'.liveLinks = d.liveLinks - 1
      /\ \A f \in DeltaFields \ {"liveLinks"} : delta'[f] = d[f]
  BY <1>1, <1>3 DEF DeltaFields, LinkFields
<1>5. /\ delta'.links = delta.links /\ delta'.linkLive = d.linkLive
      /\ delta'.linkPatch = d.linkPatch /\ delta'.targets = delta.targets
      /\ delta'.liveLinks = delta.liveLinks - 1 /\ d.links = delta.links
      /\ \A f \in DeltaFields \ LinkFields : delta'[f] = delta[f]
  BY <1>3, <1>4 DEF DeltaFields, TypeFields, ObjectFields, LinkFields
<1>6. /\ Tables(graph.links, delta.links, d.linkLive, d.linkPatch)
      /\ LiveOf(graph.links, delta.links, d.linkLive, d.linkPatch) = Switched(LiveLinks, l, FALSE)
  BY <1>2, <1>3, <1>5 DEF LinkWritten, Written
<1>7. LiveLinks' = Switched(LiveLinks, l, FALSE)
  BY <1>1, <1>5, <1>6 DEF LiveLinks, LiveOf
<1>8. delta'.liveLinks = Cardinality(LiveLinks')
  <2>1. Cardinality(Switched(LiveLinks, l, FALSE)) = Cardinality(LiveLinks) - 1
    BY ONLY <1>2, LiveLess
  <2>2. QED
    BY <1>5, <1>7, <2>1 DEF Groups, LinksInv
<1>9. LinksInv'
  BY <1>1, <1>5, <1>6, <1>8 DEF Groups, LinksInv, Tables
<1>10. QED
  BY <1>1, <1>4, <1>5, <1>9, LinksOnly

-----------------------------------------------------------------------------
(***************************************************************************)
(* The delta is readable                                                   *)
(***************************************************************************)

\* Nothing is patched and nothing is local: every slot of the baseline is live.
LEMMA BaselineLive ==
  ASSUME NEW base \in Nat
  PROVE  /\ LiveSlots(base, 0, NoPatch, <<>>) = 1..base
         /\ Cardinality(LiveSlots(base, 0, NoPatch, <<>>)) = base
<1>1. LiveSlots(base, 0, NoPatch, <<>>) = 1..base
  BY DEF LiveSlots, SlotLive, NoPatch
<1>2. Cardinality(1..base) = base
  BY FS_Interval
<1>3. QED
  BY <1>1, <1>2

LEMMA BindStep == ASSUME BaselineInv, BindBaseline PROVE Groups'
<1>1. /\ UNCHANGED graph
      /\ delta' = [EmptyDelta EXCEPT !.liveTypes = Len(graph.types),
                                     !.liveObjects = Len(graph.objects),
                                     !.liveLinks = Len(graph.links)]
  BY DEF BindBaseline
<1>2. /\ DOMAIN delta' = DeltaFields
      /\ delta'.types = <<>> /\ delta'.typeIds = <<>> /\ delta'.typeLive = <<>>
      /\ delta'.typePatch = NoPatch /\ delta'.members = <<>> /\ delta'.memberCons = <<>>
      /\ delta'.objects = <<>> /\ delta'.objectIds = <<>> /\ delta'.objectLive = <<>>
      /\ delta'.objectPatch = NoPatch /\ delta'.objectCons = <<>>
      /\ delta'.links = <<>> /\ delta'.linkLive = <<>> /\ delta'.linkPatch = NoPatch
      /\ delta'.targets = NoPatch
      /\ delta'.liveTypes = Len(graph.types) /\ delta'.liveObjects = Len(graph.objects)
      /\ delta'.liveLinks = Len(graph.links)
  BY <1>1 DEF EmptyDelta, DeltaFields, TypeFields, ObjectFields, LinkFields
<1>3. /\ Len(graph.types) \in Nat /\ Len(graph.objects) \in Nat /\ Len(graph.links) \in Nat
      /\ DOMAIN graph.types = 1..Len(graph.types)
  BY BaselineTables, TableFacts
<1>4. /\ IsTable(<<>>) /\ Len(<<>>) = 0 /\ DOMAIN NoPatch = {} /\ Distinct(<<>>)
      /\ DOMAIN <<>> = {}
  BY EmptyTable DEF NoPatch, Distinct
<1>5. TypesInv'
  <2>1. LiveTypes' = LiveSlots(Len(graph.types), 0, NoPatch, <<>>)
    BY <1>1, <1>2, <1>4 DEF LiveTypes
  <2>2. \A h \in TypeSlots' : ~Patched(h)'
    <3>0. PICK n : n = Len(graph.types)
      OBVIOUS
    <3>1. TypeSlots' = 1..(n + 0) /\ n \in Nat
      BY <1>1, <1>2, <1>3, <1>4, <3>0 DEF TypeSlots
    <3>2. \A h \in 1..(n + 0) : ~(h > n)
      BY ONLY <3>1
    <3>3. QED
      BY <1>1, <1>2, <1>4, <3>0, <3>1, <3>2 DEF Patched
  <2>3. \A h \in TypeSlots' : Reachable(h)'
    BY <2>2 DEF Reachable
  <2>4. delta'.liveTypes = Cardinality(LiveTypes')
    BY <1>2, <1>3, <2>1, BaselineLive
  <2>5. QED
    BY <1>2, <1>4, <2>3, <2>4 DEF TypesInv
<1>6. ObjectsInv'
  <2>1. LiveObjects' = LiveSlots(Len(graph.objects), 0, NoPatch, <<>>)
    BY <1>1, <1>2, <1>4 DEF LiveObjects
  <2>2. delta'.liveObjects = Cardinality(LiveObjects')
    BY <1>2, <1>3, <2>1, BaselineLive
  <2>3. QED
    BY <1>2, <1>4, <2>2 DEF ObjectsInv
<1>7. LinksInv'
  <2>1. LiveLinks' = LiveSlots(Len(graph.links), 0, NoPatch, <<>>)
    BY <1>1, <1>2, <1>4 DEF LiveLinks
  <2>2. delta'.liveLinks = Cardinality(LiveLinks')
    BY <1>2, <1>3, <2>1, BaselineLive
  <2>3. QED
    BY <1>2, <1>4, <2>2 DEF LinksInv, TargetsIndexed
<1>8. QED
  BY <1>2, <1>5, <1>6, <1>7 DEF Groups

LEMMA EditStep == ASSUME BaselineInv, Groups, Edit PROVE Groups'
<1>1. CASE EditRecord
  <2>1. ASSUME NEW id, NEW kind, DeltaDeclareRecord(id, kind) PROVE Groups'
    BY <2>1, DeclareEdit
  <2>2. ASSUME NEW h, ClearDefinition(h) \/ RetireType(h) PROVE Groups'
    BY <2>2, ClearEdit, RetireTypeEdit
  <2>3. ASSUME NEW h, NEW kind, NEW def \in Definitions,
               DeltaDefineRecord(h, kind, def.members, def.cons)
        PROVE  Groups'
    <3>1. IsTable(def.members) /\ IsTable(def.cons) /\ Len(def.members) = Len(def.cons)
      BY GraphMenus
    <3>2. QED
      BY <2>3, <3>1, DefineEdit
  <2>4. ASSUME NEW child, NEW kind, NEW payload, DeltaDerive(child, kind, payload) PROVE Groups'
    BY <2>4, DeriveEdit
  <2>5. QED
    BY <1>1, <2>1, <2>2, <2>3, <2>4 DEF EditRecord
<1>2. CASE EditObject
  <2>1. ASSUME NEW id, NEW type, NEW static, NEW initialized, NEW initial,
               DeltaAddObject(id, type, static, initialized, initial)
        PROVE  Groups'
    BY <2>1, AddObjectEdit
  <2>2. ASSUME NEW h, RetireObject(h) PROVE Groups'
    BY <2>2, RetireObjectEdit
  <2>3. ASSUME NEW source, NEW target, DeltaAddLink(source, target) PROVE Groups'
    BY <2>3, AddLinkEdit
  <2>4. ASSUME NEW l, RetireLink(l) PROVE Groups'
    BY <2>4, RetireLinkEdit
  <2>5. QED
    BY <1>2, <2>1, <2>2, <2>3, <2>4 DEF EditObject
<1>3. QED
  BY <1>1, <1>2 DEF Edit

LEMMA DeltaStep == ASSUME BaselineInv, DeltaInv, [GraphNext]_graphVars PROVE DeltaInv'
<1>1. bound => Groups
  BY DEF DeltaInv
<1>2. Groups' => DeltaInv'
  BY DEF DeltaInv
<1>3. CASE FillRecord \/ FillObject
  <2>1. ~bound'
    BY <1>3 DEF FillRecord, FillObject, Fill
  <2>2. QED
    BY <2>1 DEF DeltaInv
<1>4. CASE BindBaseline
  BY <1>2, <1>4, BindStep
<1>5. CASE Edit
  <2>1. bound
    BY <1>5 DEF Edit, EditRecord, EditObject, DeltaDeclareRecord, ClearDefinition, RetireType,
                DeltaDefineRecord, DeltaDerive, DeltaAddObject, RetireObject, DeltaAddLink, RetireLink
  <2>2. QED
    BY <1>1, <1>2, <1>5, <2>1, EditStep
<1>6. CASE UNCHANGED graphVars
  <2>1. UNCHANGED <<graph, delta, bound>>
    BY <1>6 DEF graphVars
  <2>2. CASE bound
    <3>1. Groups
      BY <1>1, <2>2
    <3>2. TypesInv' /\ ObjectsInv' /\ LinksInv' /\ DOMAIN delta' = DeltaFields
      BY <2>1, <3>1, TypesFrame, ObjectsFrame, LinksFrame DEF Groups
    <3>3. QED
      BY <1>2, <3>2 DEF Groups
  <2>3. CASE ~bound
    BY <2>1, <2>3 DEF DeltaInv
  <2>4. QED
    BY <2>2, <2>3
<1>7. QED
  BY <1>3, <1>4, <1>5, <1>6 DEF GraphNext

\* The inductive invariant: before the baseline is bound, the tables of the
\* graph are consistent, and afterwards those of the delta over it too.
THEOREM GraphInvariant == GraphSpec => [](BaselineInv /\ DeltaInv)
<1>1. GraphInit => BaselineInv /\ DeltaInv
  <2>1. SUFFICES ASSUME GraphInit PROVE BaselineInv
    BY DEF GraphInit, DeltaInv
  <2>2. /\ DOMAIN graph = GraphFields /\ \A f \in GraphFields : graph[f] = <<>>
    BY <2>1 DEF GraphInit, EmptyGraph, GraphFields
  <2>3. /\ graph.types = <<>> /\ graph.typeIds = <<>> /\ graph.objects = <<>>
        /\ graph.objectIds = <<>> /\ graph.members = <<>> /\ graph.memberCons = <<>>
    BY <2>2 DEF GraphFields
  <2>4. IsTable(<<>>) /\ DOMAIN <<>> = {}
    BY EmptyTable
  <2>5. QED
    BY <2>2, <2>3, <2>4 DEF BaselineInv
<1>2. BaselineInv /\ DeltaInv /\ [GraphNext]_graphVars => BaselineInv' /\ DeltaInv'
  BY BaselineStep, DeltaStep
<1>3. QED
  BY <1>1, <1>2, PTL DEF GraphSpec

LEMMA ReadMembers ==
  ASSUME BaselineInv, Groups, NEW h \in LiveTypes, TypeEntry(h).defined, NEW old, NEW new,
         IsTable(old), IsTable(new), Len(old) = Len(graph.members), Len(new) = Len(delta.members)
  PROVE  Len(DeltaRange(h, old, new)) = TypeEntry(h).members[2]
<1>0. PICK r : r = TypeEntry(h).members
  OBVIOUS
<1>1. h \in TypeSlots /\ Len(graph.members) \in Nat /\ Len(delta.members) \in Nat
      /\ Len(graph.types) \in Nat /\ Len(delta.types) \in Nat
      /\ DOMAIN graph.types = 1..Len(graph.types)
  BY BaselineTables, TableFacts DEF Groups, TypesInv, LiveTypes, LiveSlots, TypeSlots
<1>2. CASE ~Patched(h)
  <2>1. h \in DOMAIN graph.types /\ TypeEntry(h) = graph.types[h]
    BY <1>1, <1>2 DEF Patched, TypeSlots, TypeEntry, Entry
  <2>2. IsRange(r) /\ r[1] + r[2] <= Len(old)
    BY <1>0, <2>1 DEF BaselineInv
  <2>3. r[1] \in Nat /\ r[2] \in Nat /\ r = <<r[1], r[2]>>
    BY <2>2, RangeParts
  <2>4. Len(Slice(old, <<r[1], r[2]>>)) = r[2]
    BY <2>2, <2>3, SliceLength
  <2>5. DeltaRange(h, old, new) = Slice(old, r)
    BY <1>0, <1>2 DEF DeltaRange
  <2>6. QED
    BY <1>0, <2>3, <2>4, <2>5
<1>3. CASE Patched(h)
  <2>1. Reachable(h)
    BY <1>1 DEF Groups, TypesInv
  <2>2. IsRange(r) /\ r[1] >= Len(old) /\ r[1] - Len(old) + r[2] <= Len(new)
    BY <1>0, <1>3, <2>1 DEF Reachable, Behind
  <2>3. PICK a, b, c : /\ a = r[1] /\ b = r[2] /\ c = Len(old) /\ a \in Nat /\ b \in Nat /\ c \in Nat
                       /\ a >= c /\ (a - c) + b <= Len(new)
    BY <1>1, <2>2, RangeParts
  <2>4. a - c \in Nat
    BY <2>3
  <2>5. Len(Slice(new, <<a - c, b>>)) = b
    BY <2>3, <2>4, SliceLength
  <2>6. DeltaRange(h, old, new) = Slice(new, <<r[1] - Len(old), r[2]>>)
    BY <1>0, <1>3, <2>2 DEF DeltaRange
  <2>7. QED
    BY <1>0, <2>3, <2>5, <2>6
<1>4. QED
  BY <1>2, <1>3

\* Every definition of a live type can be read with all its members and
\* constructions, whichever of baseline and delta they are stored in, and the
\* live counters count the contained slots, after any sequence of edits.
THEOREM EveryDefinitionIsReadable == GraphSpec => []DeltaReadable
<1>1. BaselineInv /\ DeltaInv => DeltaReadable
  <2>1. SUFFICES ASSUME BaselineInv, Groups PROVE DeltaReadable
    BY DEF DeltaInv, DeltaReadable
  <2>2. \A h : ContainsType(h) <=> h \in LiveTypes
    BY <2>1, TypeTables DEF Groups
  <2>3. ASSUME NEW h \in TypeSlots, ContainsType(h), TypeEntry(h).defined
        PROVE  /\ Len(DeltaMembers(h)) = TypeEntry(h).members[2]
               /\ Len(DeltaConstructions(h)) = TypeEntry(h).members[2]
    <3>1. /\ IsTable(graph.members) /\ IsTable(graph.memberCons)
          /\ IsTable(delta.members) /\ IsTable(delta.memberCons)
          /\ Len(graph.memberCons) = Len(graph.members) /\ Len(delta.memberCons) = Len(delta.members)
      BY <2>1, BaselineTables DEF BaselineInv, Groups, TypesInv
    <3>2. h \in LiveTypes
      BY <2>2, <2>3
    <3>3. QED
      BY <2>1, <2>3, <3>1, <3>2, ReadMembers DEF DeltaMembers, DeltaConstructions
  <2>4. /\ {h \in TypeSlots : ContainsType(h)} = LiveTypes
        /\ {h \in ObjectSlots : ContainsObject(h)} = LiveObjects
        /\ {l \in LinkSlots : ContainsLink(l)} = LiveLinks
    BY DEF ContainsType, ContainsObject, ContainsLink, TypeSlots, ObjectSlots, LinkSlots,
           LiveTypes, LiveObjects, LiveLinks, LiveSlots
  <2>5. QED
    BY <2>1, <2>3, <2>4 DEF DeltaReadable, Groups, TypesInv, ObjectsInv, LinksInv
<1>2. QED
  BY <1>1, GraphInvariant, PTL

-----------------------------------------------------------------------------
(***************************************************************************)
(* The edits act like updates of maps.  The maps of GraphMap, as the       *)
(* refinement mapping has them, and when a step is a step of GraphMap.     *)
(***************************************************************************)
TypeMap == [id \in TypeIds |-> TypeView(id)]
ObjectMap == [id \in ObjectIds |-> ObjectView(id)]
LinkMap == [target \in Targets |-> LinkView(target)]

TypeData(h) ==
  [kind |-> TypeEntry(h).kind,
   members |-> IF TypeEntry(h).defined THEN {<<DeltaMembers(h), DeltaConstructions(h)>>} ELSE {}]
ObjectData(h) == <<ObjectEntry(h).type, ObjectEntry(h).static, DeltaObjectConstruction(h)>>

\* A handle is never taken away from an identity or a target.
LineageKept ==
  /\ \A id : LineageType(id) # 0 => LineageType(id)' = LineageType(id)
  /\ \A id : LineageObject(id) # 0 => LineageObject(id)' = LineageObject(id)
  /\ \A t : LineageLinkTarget(t) # 0 => LineageLinkTarget(t)' = LineageLinkTarget(t)

LEMMA ViewsOf ==
  /\ \A id : TypeView(id) =
       IF LineageType(id) \in LiveTypes THEN {TypeData(LineageType(id))} ELSE {}
  /\ \A id : ObjectView(id) =
       IF LineageObject(id) \in LiveObjects THEN {ObjectData(LineageObject(id))} ELSE {}
  /\ \A t : LinkView(t) =
       IF LineageLinkTarget(t) \in LiveLinks THEN {LinkEntry(LineageLinkTarget(t)).source} ELSE {}
<1>1. /\ \A h : h \in {t \in TypeSlots : ContainsType(t)} <=> h \in LiveTypes
      /\ \A h : h \in {o \in ObjectSlots : ContainsObject(o)} <=> h \in LiveObjects
      /\ \A l : ContainsLink(l) <=> l \in LiveLinks
  BY DEF ContainsType, ContainsObject, ContainsLink, TypeSlots, ObjectSlots, LinkSlots, LiveTypes,
         LiveObjects, LiveLinks, LiveSlots
<1>2. 0 \notin LiveTypes /\ 0 \notin LiveObjects /\ 0 \notin LiveLinks
  BY DEF LiveTypes, LiveObjects, LiveLinks, LiveSlots
<1>3. QED
  BY <1>1, <1>2 DEF TypeView, ObjectView, LinkView, FindLive, TypeData, ObjectData

LEMMA NextTypeView ==
  ASSUME NEW id, NEW h, h = LineageType(id)'
  PROVE  TypeView(id)' = IF h \in LiveTypes' THEN {TypeData(h)'} ELSE {}
<1>1. PICK S : S = {t \in TypeSlots : ContainsType(t)}'
  OBVIOUS
<1>2. h \in S <=> h \in LiveTypes'
  BY <1>1 DEF ContainsType, TypeSlots, LiveTypes, LiveSlots
<1>3. 0 \notin LiveTypes'
  BY DEF LiveTypes, LiveSlots
<1>4. CASE h \in S
  <2>1. FindLive(h, S) = h /\ h # 0
    BY <1>2, <1>3, <1>4 DEF FindLive
  <2>2. TypeView(id)' = {TypeData(h)'}
    BY <1>1, <2>1 DEF TypeView, TypeData
  <2>3. QED
    BY <1>2, <1>4, <2>2
<1>5. CASE h \notin S
  <2>1. FindLive(h, S) = 0
    BY <1>5 DEF FindLive
  <2>2. TypeView(id)' = {}
    BY <1>1, <2>1 DEF TypeView
  <2>3. QED
    BY <1>2, <1>5, <2>2
<1>6. QED
  BY <1>4, <1>5

LEMMA NextObjectView ==
  ASSUME NEW id, NEW h, h = LineageObject(id)'
  PROVE  ObjectView(id)' = IF h \in LiveObjects' THEN {ObjectData(h)'} ELSE {}
<1>1. PICK S : S = {o \in ObjectSlots : ContainsObject(o)}'
  OBVIOUS
<1>2. h \in S <=> h \in LiveObjects'
  BY <1>1 DEF ContainsObject, ObjectSlots, LiveObjects, LiveSlots
<1>3. 0 \notin LiveObjects'
  BY DEF LiveObjects, LiveSlots
<1>4. CASE h \in S
  <2>1. FindLive(h, S) = h /\ h # 0
    BY <1>2, <1>3, <1>4 DEF FindLive
  <2>2. ObjectView(id)' = {ObjectData(h)'}
    BY <1>1, <2>1 DEF ObjectView, ObjectData
  <2>3. QED
    BY <1>2, <1>4, <2>2
<1>5. CASE h \notin S
  <2>1. FindLive(h, S) = 0
    BY <1>5 DEF FindLive
  <2>2. ObjectView(id)' = {}
    BY <1>1, <2>1 DEF ObjectView
  <2>3. QED
    BY <1>2, <1>5, <2>2
<1>6. QED
  BY <1>4, <1>5

LEMMA NextLinkView ==
  ASSUME NEW t, NEW l, l = LineageLinkTarget(t)'
  PROVE  LinkView(t)' = IF l \in LiveLinks' THEN {LinkEntry(l)'.source} ELSE {}
<1>1. l \in LiveLinks' <=> ContainsLink(l)'
  BY DEF ContainsLink, LinkSlots, LiveLinks, LiveSlots
<1>2. QED
  BY <1>1 DEF LinkView

\* What is not edited is not seen to change.
LEMMA TypesSeen ==
  ASSUME UNCHANGED graph, \A f \in TypeFields : delta'[f] = delta[f]
  PROVE  UNCHANGED TypeMap /\ \A id : LineageType(id)' = LineageType(id)
<1>1. /\ delta'.types = delta.types /\ delta'.typeIds = delta.typeIds
      /\ delta'.typeLive = delta.typeLive /\ delta'.typePatch = delta.typePatch
      /\ delta'.members = delta.members /\ delta'.memberCons = delta.memberCons
  BY DEF TypeFields
<1>2. \A id : LineageType(id)' = LineageType(id)
  BY <1>1 DEF LineageType
<1>3. LiveTypes' = LiveTypes /\ \A h : TypeData(h)' = TypeData(h)
  BY <1>1 DEF LiveTypes, TypeData, TypeEntry, DeltaMembers, DeltaConstructions, DeltaRange, Patched
<1>4. \A id : TypeView(id)' = TypeView(id)
  BY <1>2, <1>3, ViewsOf, NextTypeView
<1>5. QED
  BY <1>2, <1>4 DEF TypeMap

LEMMA ObjectsSeen ==
  ASSUME UNCHANGED graph, \A f \in ObjectFields : delta'[f] = delta[f]
  PROVE  UNCHANGED ObjectMap /\ \A id : LineageObject(id)' = LineageObject(id)
<1>1. /\ delta'.objects = delta.objects /\ delta'.objectIds = delta.objectIds
      /\ delta'.objectLive = delta.objectLive /\ delta'.objectPatch = delta.objectPatch
      /\ delta'.objectCons = delta.objectCons
  BY DEF ObjectFields
<1>2. \A id : LineageObject(id)' = LineageObject(id)
  BY <1>1 DEF LineageObject
<1>3. LiveObjects' = LiveObjects /\ \A h : ObjectData(h)' = ObjectData(h)
  BY <1>1 DEF LiveObjects, ObjectData, ObjectEntry, DeltaObjectConstruction
<1>4. \A id : ObjectView(id)' = ObjectView(id)
  BY <1>2, <1>3, ViewsOf, NextObjectView
<1>5. QED
  BY <1>2, <1>4 DEF ObjectMap

LEMMA LinksSeen ==
  ASSUME UNCHANGED graph, \A f \in LinkFields : delta'[f] = delta[f]
  PROVE  UNCHANGED LinkMap /\ \A t : LineageLinkTarget(t)' = LineageLinkTarget(t)
<1>1. /\ delta'.links = delta.links /\ delta'.linkLive = delta.linkLive
      /\ delta'.linkPatch = delta.linkPatch /\ delta'.targets = delta.targets
  BY DEF LinkFields
<1>2. \A t : LineageLinkTarget(t)' = LineageLinkTarget(t)
  BY <1>1 DEF LineageLinkTarget
<1>3. LiveLinks' = LiveLinks /\ \A l : LinkEntry(l)' = LinkEntry(l)
  BY <1>1 DEF LiveLinks, LinkEntry
<1>4. \A t : LinkView(t)' = LinkView(t)
  BY <1>2, <1>3, ViewsOf, NextLinkView
<1>5. QED
  BY <1>2, <1>4 DEF LinkMap

LEMMA HandlesStay == ASSUME LineageKept PROVE Map!HandlesKept
<1>1. ASSUME NEW key \in ({"type"} \X TypeIds) \cup ({"object"} \X ObjectIds) \cup ({"link"} \X Targets),
             HandleView(key) # {}
      PROVE  HandleView(key)' = HandleView(key)
  <2>1. CASE key[1] = "type"
    BY <1>1, <2>1 DEF HandleView, LineageKept
  <2>2. CASE key[1] = "object"
    BY <1>1, <2>2 DEF HandleView, LineageKept
  <2>3. CASE key[1] = "link"
    BY <1>1, <2>3 DEF HandleView, LineageKept
  <2>4. QED
    BY <2>1, <2>2, <2>3
<1>2. QED
  BY <1>1 DEF Map!HandlesKept

LEMMA TypeMapStep ==
  ASSUME LineageKept, UNCHANGED <<ObjectMap, LinkMap>>, NEW id \in TypeIds,
         \/ /\ TypeMap[id] = {}
            /\ \E kind \in RecordKinds :
                 TypeMap' = [TypeMap EXCEPT ![id] = {[kind |-> kind, members |-> {}]}]
         \/ \E t \in TypeMap[id], u \in TypeMap'[id] :
              /\ t.members = {} /\ u.members # {} /\ CompatibleKind(t.kind, u.kind)
              /\ TypeMap' = [TypeMap EXCEPT ![id] = {u}]
         \/ \E t \in TypeMap[id] :
              TypeMap' = [TypeMap EXCEPT ![id] = {[kind |-> t.kind, members |-> {}]}]
         \/ TypeMap' = [TypeMap EXCEPT ![id] = {}]
  PROVE  Map!MapNext
<1>1. Map!Declare(id) \/ Map!Define(id) \/ Map!Clear(id) \/ Map!RetireType(id)
  BY DEF TypeMap, Map!Declare, Map!Define, Map!Clear, Map!RetireType, RecordKinds, CompatibleKind
<1>2. QED
  BY <1>1, HandlesStay DEF Map!MapNext, TypeMap, ObjectMap, LinkMap

LEMMA ObjectMapStep ==
  ASSUME LineageKept, UNCHANGED <<TypeMap, LinkMap>>, NEW id \in ObjectIds,
         ObjectMap' = [ObjectMap EXCEPT ![id] = ObjectMap'[id]],
         ObjectMap[id] = {} \/ ObjectMap'[id] = {}
  PROVE  Map!MapNext
<1>1. Map!SetOrRetire(ObjectMap, ObjectMap')
  BY DEF ObjectMap, Map!SetOrRetire
<1>2. QED
  BY <1>1, HandlesStay DEF Map!MapNext, TypeMap, ObjectMap, LinkMap

LEMMA LinkMapStep ==
  ASSUME LineageKept, UNCHANGED <<TypeMap, ObjectMap>>, NEW t \in Targets,
         LinkMap' = [LinkMap EXCEPT ![t] = LinkMap'[t]], LinkMap[t] = {} \/ LinkMap'[t] = {}
  PROVE  Map!MapNext
<1>1. Map!SetOrRetire(LinkMap, LinkMap')
  BY DEF LinkMap, Map!SetOrRetire
<1>2. QED
  BY <1>1, HandlesStay DEF Map!MapNext, TypeMap, ObjectMap, LinkMap

LEMMA MapStays ==
  ASSUME UNCHANGED <<TypeMap, ObjectMap, LinkMap>>, \A id : LineageType(id)' = LineageType(id),
         \A id : LineageObject(id)' = LineageObject(id),
         \A t \in Targets : LineageLinkTarget(t)' = LineageLinkTarget(t)
  PROVE  UNCHANGED Map!mapVars
<1>1. ASSUME NEW key \in ({"type"} \X TypeIds) \cup ({"object"} \X ObjectIds) \cup ({"link"} \X Targets)
      PROVE  HandleView(key)' = HandleView(key)
  <2>1. CASE key[1] = "type"
    BY <2>1 DEF HandleView
  <2>2. CASE key[1] = "object"
    BY <2>2 DEF HandleView
  <2>3. CASE key[1] = "link"
    BY <1>1, <2>3 DEF HandleView
  <2>4. QED
    BY <2>1, <2>2, <2>3
<1>2. QED
  BY <1>1 DEF Map!mapVars, TypeMap, ObjectMap, LinkMap

\* What an edit has to look like.
LikeMaps == Map!MapNext \/ UNCHANGED Map!mapVars

-----------------------------------------------------------------------------
(***************************************************************************)
(* Types seen through an edit                                              *)
(***************************************************************************)
\* Table t continues s.
Grown(s, t) == IsTable(t) /\ Len(s) <= Len(t) /\ \A i \in DOMAIN s : t[i] = s[i]

LEMMA SliceGrown ==
  ASSUME NEW s, IsTable(s), NEW t, Grown(s, t), NEW b \in Nat, NEW n \in Nat, b + n <= Len(s)
  PROVE  Slice(t, <<b, n>>) = Slice(s, <<b, n>>)
<1>1. PICK i, j : i = b + 1 /\ j = b + n /\ i \in Int /\ j \in Int
  OBVIOUS
<1>2. \A k \in i..j : s[k] \in ToSet(s) /\ t[k] = s[k]
  BY <1>1, TableFacts DEF ToSet, Grown
<1>3. PICK x, y : x = SubSeq(s, i, j) /\ y = SubSeq(t, i, j)
  OBVIOUS
<1>4. /\ x \in Seq(ToSet(s)) /\ Len(x) = (IF i <= j THEN j - i + 1 ELSE 0)
      /\ \A k \in 1..(j - i + 1) : x[k] = s[i + k - 1]
  BY <1>1, <1>2, <1>3, SubSeqProperties
<1>5. /\ y \in Seq(ToSet(s)) /\ Len(y) = (IF i <= j THEN j - i + 1 ELSE 0)
      /\ \A k \in 1..(j - i + 1) : y[k] = t[i + k - 1]
  BY <1>1, <1>2, <1>3, SubSeqProperties
<1>6. Len(x) = Len(y) /\ \A k \in 1..Len(x) : x[k] = y[k]
  BY <1>1, <1>2, <1>4, <1>5
<1>7. x = y
  BY <1>4, <1>5, <1>6, SeqEqual
<1>8. QED
  BY <1>1, <1>3, <1>7 DEF Slice

\* A live type keeps its members while the table of members grows.
LEMMA DataKept ==
  ASSUME BaselineInv, Groups, UNCHANGED graph, NEW h \in LiveTypes, TypeEntry(h)' = TypeEntry(h),
         Patched(h)' <=> Patched(h), Grown(delta.members, delta'.members),
         Grown(delta.memberCons, delta'.memberCons)
  PROVE  TypeData(h)' = TypeData(h)
<1>0. PICK e : e = TypeEntry(h) /\ e = TypeEntry(h)'
  OBVIOUS
<1>1. CASE ~e.defined
  BY <1>0, <1>1 DEF TypeData
<1>2. CASE e.defined /\ ~Patched(h)
  BY <1>0, <1>2 DEF TypeData, DeltaMembers, DeltaConstructions, DeltaRange
<1>3. CASE e.defined /\ Patched(h)
  <2>1. h \in TypeSlots
    BY DEF LiveTypes, LiveSlots, TypeSlots
  <2>2. Behind(e.members, Len(delta.members))
    BY <1>0, <1>3, <2>1 DEF Groups, TypesInv, Reachable
  <2>3. PICK r : r = e.members
    OBVIOUS
  <2>4. PICK m, n, c, b, k :
          /\ m = Len(delta.members) /\ n = Len(delta'.members) /\ c = Len(graph.members)
          /\ m = Len(delta.memberCons) /\ c = Len(graph.memberCons) /\ b = r[1] /\ k = r[2]
    BY DEF Groups, TypesInv, BaselineInv
  <2>5. /\ m \in Nat /\ n \in Nat /\ c \in Nat /\ b \in Nat /\ k \in Nat
        /\ b >= c /\ (b - c) + k <= m /\ m <= n /\ m <= Len(delta'.memberCons)
        /\ Len(delta'.memberCons) \in Nat
        /\ IsTable(delta.members) /\ IsTable(delta.memberCons)
    BY <2>2, <2>3, <2>4, RangeParts, TableFacts, BaselineTables
       DEF Behind, Groups, TypesInv, Grown
  <2>6. b - c \in Nat /\ (b - c) + k <= n /\ (b - c) + k <= Len(delta'.memberCons)
    BY <2>5
  <2>7. /\ DeltaMembers(h) = Slice(delta.members, <<b - c, k>>)
        /\ DeltaConstructions(h) = Slice(delta.memberCons, <<b - c, k>>)
    BY <1>0, <1>3, <2>3, <2>4, <2>5 DEF DeltaMembers, DeltaConstructions, DeltaRange
  <2>8. /\ DeltaMembers(h)' = Slice(delta'.members, <<b - c, k>>)
        /\ DeltaConstructions(h)' = Slice(delta'.memberCons, <<b - c, k>>)
    BY <1>0, <1>3, <2>3, <2>4, <2>5, <2>6 DEF DeltaMembers, DeltaConstructions, DeltaRange
  <2>9. /\ Slice(delta'.members, <<b - c, k>>) = Slice(delta.members, <<b - c, k>>)
        /\ Slice(delta'.memberCons, <<b - c, k>>) = Slice(delta.memberCons, <<b - c, k>>)
    <3>1. PICK p : p = b - c /\ p \in Nat /\ p + k <= Len(delta.members) /\ p + k <= Len(delta.memberCons)
      BY <2>4, <2>5, <2>6
    <3>2. QED
      BY <2>5, <3>1, SliceGrown
  <2>10. DeltaMembers(h)' = DeltaMembers(h) /\ DeltaConstructions(h)' = DeltaConstructions(h)
    BY <2>7, <2>8, <2>9
  <2>11. QED
    BY <1>0, <2>10 DEF TypeData
<1>4. QED
  BY <1>1, <1>2, <1>3

\* No two identities have one handle.
LEMMA OneTypePerSlot ==
  ASSUME BaselineInv, TypesInv, NEW a, NEW b, LineageType(a) = LineageType(b), LineageType(a) # 0
  PROVE  a = b
<1>1. PICK n, s, t : n = Len(graph.types) /\ s = SlotOf(delta.typeIds, a) /\ t = SlotOf(delta.typeIds, b)
  OBVIOUS
<1>2. n \in Nat /\ DOMAIN graph.typeIds = 1..n /\ DOMAIN delta.typeIds = 1..Len(delta.typeIds)
      /\ Len(delta.typeIds) \in Nat
  BY <1>1, BaselineTables, TableFacts DEF BaselineInv, TypesInv, GraphFields
<1>3. /\ s # 0 => s \in DOMAIN delta.typeIds /\ delta.typeIds[s] = a
      /\ t # 0 => t \in DOMAIN delta.typeIds /\ delta.typeIds[t] = b
  BY <1>1, SlotFound
<1>4. PICK u, v : u = FindType(graph, a) /\ v = FindType(graph, b)
  OBVIOUS
<1>5. /\ u # 0 => u \in DOMAIN graph.typeIds /\ graph.typeIds[u] = a
      /\ v # 0 => v \in DOMAIN graph.typeIds /\ graph.typeIds[v] = b
  BY <1>4, SlotFound DEF FindType
<1>6. /\ LineageType(a) = (IF s # 0 THEN n + s ELSE u)
      /\ LineageType(b) = (IF t # 0 THEN n + t ELSE v)
  BY <1>1, <1>4 DEF LineageType
<1>7. /\ s # 0 => s \in Nat /\ n + s > n
      /\ t # 0 => t \in Nat /\ n + t > n
      /\ u # 0 => u \in Nat /\ u <= n
      /\ v # 0 => v \in Nat /\ v <= n
  BY ONLY <1>2, <1>3, <1>5
<1>8. CASE s # 0 /\ t # 0
  <2>1. n + s = n + t
    BY <1>6, <1>8
  <2>2. s = t
    BY ONLY <1>2, <1>7, <1>8, <2>1
  <2>3. QED
    BY <1>3, <1>8, <2>2
<1>9. CASE s = 0 /\ t = 0
  BY <1>5, <1>6, <1>9
<1>10. CASE s = 0 /\ t # 0
  <2>1. u = n + t /\ u # 0
    BY <1>6, <1>10
  <2>2. QED
    BY ONLY <1>2, <1>7, <1>10, <2>1
<1>11. CASE s # 0 /\ t = 0
  <2>1. v = n + s /\ v # 0
    BY <1>6, <1>11
  <2>2. QED
    BY ONLY <1>2, <1>7, <1>11, <2>1
<1>12. QED
  BY <1>8, <1>9, <1>10, <1>11

\* What an edit that writes slot h, live or not, shows of the types.
TypeSeenAt(h, e, b) ==
  /\ \A id : LineageType(id)' = LineageType(id)
  /\ LiveTypes' = Switched(LiveTypes, h, b)
  /\ TypeEntry(h)' = e
  /\ Patched(h)'
  /\ \A id : LineageType(id) # h => TypeView(id)' = TypeView(id)

LEMMA WrittenTypeSeen ==
  ASSUME BaselineInv, Groups, UNCHANGED graph, NEW h \in TypeSlots, NEW e, NEW b \in BOOLEAN,
         NEW d, TypeWritten(d, h, e, b), delta'.types = d.types, delta'.typeLive = d.typeLive,
         delta'.typePatch = d.typePatch, delta'.typeIds = delta.typeIds,
         Grown(delta.members, delta'.members), Grown(delta.memberCons, delta'.memberCons)
  PROVE  TypeSeenAt(h, e, b)
<1>1. /\ Len(d.types) = Len(delta.types)
      /\ h > Len(graph.types) \/ h \in DOMAIN d.typePatch
      /\ EntryOf(graph.types, d.types, d.typePatch, h) = e
      /\ \A k \in SlotsOf(graph.types, delta.types) : k # h =>
           /\ EntryOf(graph.types, d.types, d.typePatch, k) =
                EntryOf(graph.types, delta.types, delta.typePatch, k)
           /\ k \in DOMAIN d.typePatch <=> k \in DOMAIN delta.typePatch
      /\ LiveOf(graph.types, d.types, d.typeLive, d.typePatch) =
           Switched(LiveOf(graph.types, delta.types, delta.typeLive, delta.typePatch), h, b)
  BY DEF TypeWritten, Written
<1>2. /\ TypeSlots = SlotsOf(graph.types, delta.types)
      /\ LiveTypes = LiveOf(graph.types, delta.types, delta.typeLive, delta.typePatch)
      /\ \A k : TypeEntry(k) = EntryOf(graph.types, delta.types, delta.typePatch, k)
  BY TypeTables DEF Groups
<1>3. LiveTypes' = Switched(LiveTypes, h, b) /\ TypeEntry(h)' = e /\ Patched(h)'
  BY <1>1, <1>2 DEF LiveTypes, LiveOf, TypeEntry, EntryOf, Patched
<1>4. \A k \in TypeSlots : k # h => TypeEntry(k)' = TypeEntry(k) /\ (Patched(k)' <=> Patched(k))
  BY <1>1, <1>2 DEF TypeEntry, EntryOf, Patched
<1>5. \A id : LineageType(id)' = LineageType(id)
  BY DEF LineageType
<1>6. ASSUME NEW id, LineageType(id) # h PROVE TypeView(id)' = TypeView(id)
  <2>1. PICK k : k = LineageType(id) /\ k = LineageType(id)' /\ k # h
    BY <1>5, <1>6
  <2>2. k \in LiveTypes' <=> k \in LiveTypes
    BY <1>3, <2>1 DEF Switched
  <2>3. k \in LiveTypes => TypeData(k)' = TypeData(k)
    <3>1. SUFFICES ASSUME k \in LiveTypes PROVE TypeData(k)' = TypeData(k)
      OBVIOUS
    <3>2. k \in TypeSlots
      BY <3>1 DEF LiveTypes, LiveSlots, TypeSlots
    <3>3. QED
      BY <1>4, <2>1, <3>1, <3>2, DataKept
  <2>4. TypeView(id)' = IF k \in LiveTypes' THEN {TypeData(k)'} ELSE {}
    BY <2>1, NextTypeView
  <2>5. TypeView(id) = IF k \in LiveTypes THEN {TypeData(k)} ELSE {}
    BY <2>1, ViewsOf
  <2>6. QED
    BY <2>2, <2>3, <2>4, <2>5
<1>7. QED
  BY <1>3, <1>5, <1>6 DEF TypeSeenAt

\* An edit of types shows nothing of objects and links.
LEMMA TypesAlone ==
  ASSUME UNCHANGED graph, \A f \in DeltaFields \ TypeFields : delta'[f] = delta[f]
  PROVE  /\ UNCHANGED <<ObjectMap, LinkMap>>
         /\ \A id : LineageObject(id)' = LineageObject(id)
         /\ \A t : LineageLinkTarget(t)' = LineageLinkTarget(t)
<1>1. /\ \A f \in ObjectFields : delta'[f] = delta[f]
      /\ \A f \in LinkFields : delta'[f] = delta[f]
  BY DEF DeltaFields, TypeFields, ObjectFields, LinkFields
<1>2. QED
  BY <1>1, ObjectsSeen, LinksSeen

LEMMA TypeSeenOnce ==
  ASSUME BaselineInv, Groups, NEW h \in TypeSlots, NEW e, NEW b, TypeSeenAt(h, e, b), NEW id \in TypeIds,
         LineageType(id) = h
  PROVE  /\ TypeMap[id] = IF h \in LiveTypes THEN {TypeData(h)} ELSE {}
         /\ TypeMap' = [TypeMap EXCEPT ![id] = IF b THEN {TypeData(h)'} ELSE {}]
<1>1. TypeMap[id] = IF h \in LiveTypes THEN {TypeData(h)} ELSE {}
  BY ViewsOf DEF TypeMap
<1>2. TypeView(id)' = IF b THEN {TypeData(h)'} ELSE {}
  <2>1. h = LineageType(id)' /\ (h \in LiveTypes' <=> b)
    BY DEF TypeSeenAt, Switched
  <2>2. QED
    BY <2>1, NextTypeView
<1>3. \A a \in TypeIds : a # id => TypeView(a)' = TypeView(a)
  <2>1. h # 0
    BY DEF TypeSlots
  <2>2. \A a : LineageType(a) = h => a = id
    BY <2>1, OneTypePerSlot DEF Groups
  <2>3. QED
    BY <2>2 DEF TypeSeenAt
<1>4. QED
  BY <1>1, <1>2, <1>3 DEF TypeMap

\* One rewritten slot: the entry of its identity, if it has one, takes a step.
LEMMA TypeLikeMap ==
  ASSUME BaselineInv, Groups, UNCHANGED graph, \A f \in DeltaFields \ TypeFields : delta'[f] = delta[f],
         NEW h \in TypeSlots, NEW e, NEW b \in BOOLEAN, TypeSeenAt(h, e, b),
         \/ h \notin LiveTypes /\ b /\ \E kind \in RecordKinds : e = Undefined(kind)
         \/ h \in LiveTypes /\ b /\ e = Undefined(TypeEntry(h).kind)
         \/ /\ h \in LiveTypes /\ b /\ ~TypeEntry(h).defined /\ e.defined
            /\ CompatibleKind(TypeEntry(h).kind, e.kind)
         \/ ~b
  PROVE  LikeMaps
<1>1. /\ UNCHANGED <<ObjectMap, LinkMap>>
      /\ \A id : LineageObject(id)' = LineageObject(id)
      /\ \A t : LineageLinkTarget(t)' = LineageLinkTarget(t)
  BY TypesAlone
<1>2. \A id : LineageType(id)' = LineageType(id)
  BY DEF TypeSeenAt
<1>3. CASE \A id \in TypeIds : LineageType(id) # h
  <2>1. UNCHANGED TypeMap
    BY <1>3 DEF TypeMap, TypeSeenAt
  <2>2. QED
    BY <1>1, <1>2, <2>1, MapStays DEF LikeMaps
<1>4. CASE \E id \in TypeIds : LineageType(id) = h
  <2>1. PICK id \in TypeIds : LineageType(id) = h
    BY <1>4
  <2>2. PICK x, y : x = TypeData(h) /\ y = TypeData(h)'
    OBVIOUS
  <2>3. /\ TypeMap[id] = IF h \in LiveTypes THEN {x} ELSE {}
        /\ TypeMap' = [TypeMap EXCEPT ![id] = IF b THEN {y} ELSE {}]
    BY <2>1, <2>2, TypeSeenOnce
  <2>4. /\ x.kind = TypeEntry(h).kind /\ (~TypeEntry(h).defined => x.members = {})
        /\ y.kind = e.kind /\ (e.defined => y.members # {})
        /\ ~e.defined => y = [kind |-> e.kind, members |-> {}]
    BY <2>2 DEF TypeData, TypeSeenAt
  <2>5. LineageKept
    BY <1>1, <1>2 DEF LineageKept
  <2>6. TypeMap'[id] = IF b THEN {y} ELSE {}
    BY <2>3 DEF TypeMap
  <2>7. CASE h \notin LiveTypes /\ b /\ \E kind \in RecordKinds : e = Undefined(kind)
    <3>1. PICK kind \in RecordKinds : e = Undefined(kind)
      BY <2>7
    <3>2. y = [kind |-> kind, members |-> {}]
      BY <2>4, <3>1 DEF Undefined
    <3>3. TypeMap[id] = {} /\ TypeMap' = [TypeMap EXCEPT ![id] = {[kind |-> kind, members |-> {}]}]
      BY <2>3, <2>7, <3>2
    <3>4. QED
      BY <1>1, <2>5, <3>3, TypeMapStep DEF LikeMaps
  <2>8. CASE h \in LiveTypes /\ b /\ e = Undefined(TypeEntry(h).kind)
    <3>1. y = [kind |-> x.kind, members |-> {}]
      BY <2>4, <2>8 DEF Undefined
    <3>2. x \in TypeMap[id] /\ TypeMap' = [TypeMap EXCEPT ![id] = {[kind |-> x.kind, members |-> {}]}]
      BY <2>3, <2>8, <3>1
    <3>3. QED
      BY <1>1, <2>5, <3>2, TypeMapStep DEF LikeMaps
  <2>9. CASE /\ h \in LiveTypes /\ b /\ ~TypeEntry(h).defined /\ e.defined
             /\ CompatibleKind(TypeEntry(h).kind, e.kind)
    <3>1. x \in TypeMap[id] /\ y \in TypeMap'[id] /\ TypeMap' = [TypeMap EXCEPT ![id] = {y}]
      BY <2>3, <2>6, <2>9
    <3>2. x.members = {} /\ y.members # {} /\ CompatibleKind(x.kind, y.kind)
      BY <2>4, <2>9
    <3>3. QED
      BY <1>1, <2>5, <3>1, <3>2, TypeMapStep DEF LikeMaps
  <2>10. CASE ~b
    <3>1. TypeMap' = [TypeMap EXCEPT ![id] = {}]
      BY <2>3, <2>10
    <3>2. QED
      BY <1>1, <2>5, <3>1, TypeMapStep DEF LikeMaps
  <2>11. QED
    BY <2>7, <2>8, <2>9, <2>10
<1>5. QED
  BY <1>3, <1>4

LEMMA TypeWriteLikeMap ==
  ASSUME BaselineInv, Groups, UNCHANGED graph, NEW h \in TypeSlots, NEW e, NEW b \in BOOLEAN,
         NEW d, TypeWritten(d, h, e, b),
         \A f \in DeltaFields \ {"types", "typeLive", "typePatch"} : d[f] = delta[f],
         \A f \in DeltaFields \ {"members", "memberCons", "liveTypes"} : delta'[f] = d[f],
         Grown(delta.members, delta'.members), Grown(delta.memberCons, delta'.memberCons),
         \/ h \notin LiveTypes /\ b /\ \E kind \in RecordKinds : e = Undefined(kind)
         \/ h \in LiveTypes /\ b /\ e = Undefined(TypeEntry(h).kind)
         \/ /\ h \in LiveTypes /\ b /\ ~TypeEntry(h).defined /\ e.defined
            /\ CompatibleKind(TypeEntry(h).kind, e.kind)
         \/ ~b
  PROVE  LikeMaps
<1>1. /\ delta'.types = d.types /\ delta'.typeLive = d.typeLive /\ delta'.typePatch = d.typePatch
      /\ delta'.typeIds = delta.typeIds
      /\ \A f \in DeltaFields \ TypeFields : delta'[f] = delta[f]
  BY DEF DeltaFields, TypeFields, ObjectFields, LinkFields
<1>2. TypeSeenAt(h, e, b)
  BY <1>1, WrittenTypeSeen
<1>3. QED
  BY <1>1, <1>2, TypeLikeMap

LEMMA SameGrown == ASSUME NEW s, IsTable(s) PROVE Grown(s, s)
  BY TableFacts DEF Grown

LEMMA ConcatGrown == ASSUME NEW s, IsTable(s), NEW t, IsTable(t) PROVE Grown(s, s \o t)
<1>1. PICK u : u = s \o t
  OBVIOUS
<1>2. IsTable(u) /\ Len(u) = Len(s) + Len(t) /\ \A i \in DOMAIN s : u[i] = s[i]
  BY <1>1, ConcatTable
<1>3. Len(s) <= Len(u)
  BY <1>2, TableFacts
<1>4. QED
  BY <1>1, <1>2, <1>3 DEF Grown

LEMMA MembersGrown ==
  ASSUME Groups, delta'.members = delta.members, delta'.memberCons = delta.memberCons
  PROVE  Grown(delta.members, delta'.members) /\ Grown(delta.memberCons, delta'.memberCons)
  BY SameGrown DEF Groups, TypesInv

LEMMA ClearSeen == ASSUME BaselineInv, Groups, NEW h, ClearDefinition(h) PROVE LikeMaps
<1>0. PICK e : e = Undefined(TypeEntry(h).kind)
  OBVIOUS
<1>1. UNCHANGED graph /\ ContainsType(h) /\ delta' = SetType(h, e)
  BY <1>0 DEF ClearDefinition
<1>2. h \in TypeSlots /\ h \in LiveTypes
  BY <1>1, TypeTables DEF ContainsType, Groups
<1>3. /\ TypeWritten(delta', h, e, TRUE)
      /\ \A f \in DeltaFields \ {"types", "typeLive", "typePatch"} : delta'[f] = delta[f]
  BY <1>1, <1>2, SetTypeWrites DEF Groups
<1>4. delta'.members = delta.members /\ delta'.memberCons = delta.memberCons
  BY <1>3 DEF DeltaFields, TypeFields
<1>5. PICK d : d = delta'
  OBVIOUS
<1>6. QED
  BY <1>0, <1>1, <1>2, <1>3, <1>4, <1>5, MembersGrown, TypeWriteLikeMap

LEMMA DefineSeen ==
  ASSUME BaselineInv, Groups, NEW h, NEW kind, NEW members, IsTable(members), NEW cons,
         IsTable(cons), DeltaDefineRecord(h, kind, members, cons)
  PROVE  LikeMaps
<1>0. PICK e, d : e = DefinedAt(kind, Len(members)) /\ d = SetType(h, e)
  OBVIOUS
<1>1. /\ UNCHANGED graph /\ ContainsType(h) /\ ~TypeEntry(h).defined
      /\ CompatibleKind(TypeEntry(h).kind, kind)
      /\ delta' = [d EXCEPT !.members = @ \o members, !.memberCons = @ \o cons]
  BY <1>0 DEF DeltaDefineRecord, CanDefineDelta
<1>2. h \in TypeSlots /\ h \in LiveTypes /\ e.kind = kind /\ e.defined
  BY <1>0, <1>1, TypeTables DEF ContainsType, Groups, DefinedAt
<1>3. /\ DOMAIN d = DeltaFields /\ TypeWritten(d, h, e, TRUE)
      /\ \A f \in DeltaFields \ {"types", "typeLive", "typePatch"} : d[f] = delta[f]
  BY <1>0, <1>2, SetTypeWrites DEF Groups
<1>4. d.members = delta.members /\ d.memberCons = delta.memberCons
  BY <1>3 DEF DeltaFields, TypeFields
<1>5. /\ delta'.members = delta.members \o members /\ delta'.memberCons = delta.memberCons \o cons
      /\ \A f \in DeltaFields \ {"members", "memberCons"} : delta'[f] = d[f]
  BY <1>1, <1>3, <1>4 DEF DeltaFields, TypeFields
<1>6. Grown(delta.members, delta'.members) /\ Grown(delta.memberCons, delta'.memberCons)
  BY <1>5, ConcatGrown DEF Groups, TypesInv
<1>7. QED
  BY <1>1, <1>2, <1>3, <1>5, <1>6, TypeWriteLikeMap

LEMMA RetireTypeSeen == ASSUME BaselineInv, Groups, NEW h, RetireType(h) PROVE LikeMaps
<1>0. PICK d : d = IF h <= Len(graph.types) THEN PatchType(h, TypeEntry(h), FALSE)
                   ELSE [delta EXCEPT !.typeLive[h - Len(graph.types)] = FALSE]
  OBVIOUS
<1>1. UNCHANGED graph /\ ContainsType(h) /\ delta' = [d EXCEPT !.liveTypes = @ - 1]
  BY <1>0 DEF RetireType
<1>2. h \in TypeSlots
  BY <1>1 DEF ContainsType
<1>3. PICK e : e = TypeEntry(h)
  OBVIOUS
<1>4. /\ DOMAIN d = DeltaFields /\ TypeWritten(d, h, e, FALSE)
      /\ \A f \in DeltaFields \ {"types", "typeLive", "typePatch"} : d[f] = delta[f]
  BY <1>0, <1>2, <1>3, RetireTypeWrites DEF Groups
<1>5. \A f \in DeltaFields \ {"liveTypes"} : delta'[f] = d[f]
  BY <1>1, <1>4 DEF DeltaFields, TypeFields
<1>6. delta'.members = delta.members /\ delta'.memberCons = delta.memberCons
  BY <1>4, <1>5 DEF DeltaFields, TypeFields
<1>7. QED
  BY <1>1, <1>2, <1>4, <1>5, <1>6, MembersGrown, TypeWriteLikeMap

LEMMA DeriveSeen ==
  ASSUME Groups, NEW child, NEW kind, NEW payload, DeltaDerive(child, kind, payload) PROVE LikeMaps
<1>1. PICK r : UNCHANGED graph /\ delta' = [delta EXCEPT !.derived = Append(@, r)]
  BY DEF DeltaDerive, AppendDerived
<1>2. \A f \in DeltaFields \ {"derived"} : delta'[f] = delta[f]
  BY <1>1 DEF Groups, DeltaFields
<1>3. /\ \A f \in TypeFields : delta'[f] = delta[f]
      /\ \A f \in ObjectFields : delta'[f] = delta[f]
      /\ \A f \in LinkFields : delta'[f] = delta[f]
  BY <1>2 DEF DeltaFields, TypeFields, ObjectFields, LinkFields
<1>4. QED
  BY <1>1, <1>3, TypesSeen, ObjectsSeen, LinksSeen, MapStays DEF LikeMaps

LEMMA SameSlot ==
  ASSUME NEW t, NEW u, NEW v, DOMAIN t \subseteq DOMAIN u, \A s \in DOMAIN t : u[s] = t[s],
         \A s \in DOMAIN u : s \notin DOMAIN t => u[s] # v
  PROVE  SlotOf(u, v) = SlotOf(t, v)
<1>1. \A s : (s \in DOMAIN t /\ t[s] = v) <=> (s \in DOMAIN u /\ u[s] = v)
  OBVIOUS
<1>2. (CHOOSE s : s \in DOMAIN t /\ t[s] = v) = (CHOOSE s : s \in DOMAIN u /\ u[s] = v)
  BY <1>1, Zenon
<1>3. QED
  BY <1>1, <1>2 DEF SlotOf

\* An appended identity has the new slot; the others keep theirs.
LEMMA SlotAppended ==
  ASSUME NEW t, IsTable(t), NEW v, SlotOf(t, v) = 0
  PROVE  /\ SlotOf(Append(t, v), v) = Len(t) + 1
         /\ \A w : w # v => SlotOf(Append(t, v), w) = SlotOf(t, w)
<1>1. PICK u, n : u = Append(t, v) /\ n = Len(t) + 1
  OBVIOUS
<1>2. /\ DOMAIN u = DOMAIN t \cup {n} /\ u[n] = v /\ \A s \in DOMAIN t : u[s] = t[s]
      /\ n \notin DOMAIN t /\ n # 0 /\ 0 \notin DOMAIN t
  BY <1>1, AppendTable, TableFacts
<1>3. \A s \in DOMAIN t : t[s] # v
  <2>1. SUFFICES ASSUME NEW s \in DOMAIN t, t[s] = v PROVE FALSE
    OBVIOUS
  <2>2. SlotOf(t, v) \in DOMAIN t
    BY <2>1 DEF SlotOf
  <2>3. QED
    BY <1>2, <2>2
<1>4. SlotOf(u, v) = n
  BY <1>2, <1>3 DEF SlotOf
<1>5. ASSUME NEW w, w # v PROVE SlotOf(u, w) = SlotOf(t, w)
  BY <1>2, <1>5, SameSlot
<1>6. QED
  BY <1>1, <1>4, <1>5

LEMMA DeclareSeen ==
  ASSUME BaselineInv, Groups, NEW id \in TypeIds, NEW kind \in RecordKinds, DeltaDeclareRecord(id, kind)
  PROVE  LikeMaps
<1>0. PICK h, e : h = LineageType(id) /\ e = Undefined(kind)
  OBVIOUS
<1>1. UNCHANGED graph /\ ~ContainsType(h) /\ ~e.defined /\ e.kind = kind
  BY <1>0 DEF DeltaDeclareRecord, Undefined
<1>2. h \notin LiveTypes
  BY <1>1, TypeTables DEF Groups
<1>3. CASE h # 0
  <2>0. PICK d : d = SetType(h, e)
    OBVIOUS
  <2>1. h \in TypeSlots
    BY <1>0, <1>3, LineageTypeSlot DEF Groups
  <2>2. delta' = [d EXCEPT !.liveTypes = @ + 1]
    BY <1>0, <1>3, <2>0 DEF DeltaDeclareRecord
  <2>3. /\ DOMAIN d = DeltaFields /\ TypeWritten(d, h, e, TRUE)
        /\ \A f \in DeltaFields \ {"types", "typeLive", "typePatch"} : d[f] = delta[f]
    BY <2>0, <2>1, SetTypeWrites DEF Groups
  <2>4. \A f \in DeltaFields \ {"liveTypes"} : delta'[f] = d[f]
    BY <2>2, <2>3 DEF DeltaFields, TypeFields
  <2>5. delta'.members = delta.members /\ delta'.memberCons = delta.memberCons
    BY <2>3, <2>4 DEF DeltaFields, TypeFields
  <2>6. QED
    BY <1>0, <1>1, <1>2, <2>1, <2>3, <2>4, <2>5, MembersGrown, TypeWriteLikeMap
<1>4. CASE h = 0
  <2>1. delta' = [delta EXCEPT !.types = Append(@, e), !.typeIds = Append(@, id),
                               !.typeLive = Append(@, TRUE), !.liveTypes = @ + 1]
    BY <1>0, <1>4 DEF DeltaDeclareRecord
  <2>2. /\ delta'.types = Append(delta.types, e) /\ delta'.typeIds = Append(delta.typeIds, id)
        /\ delta'.typeLive = Append(delta.typeLive, TRUE)
        /\ \A f \in DeltaFields \ {"types", "typeIds", "typeLive", "liveTypes"} : delta'[f] = delta[f]
    BY <2>1 DEF DeltaFields, TypeFields, Groups
  <2>3. /\ delta'.typePatch = delta.typePatch /\ delta'.members = delta.members
        /\ delta'.memberCons = delta.memberCons
        /\ \A f \in DeltaFields \ TypeFields : delta'[f] = delta[f]
    BY <2>2 DEF DeltaFields, TypeFields, ObjectFields, LinkFields
  <2>4. PICK n : n = Len(graph.types) + Len(delta.types) + 1
    OBVIOUS
  <2>5. /\ Tables(graph.types, delta.types, delta.typeLive, delta.typePatch)
        /\ TypeSlots = SlotsOf(graph.types, delta.types)
        /\ LiveTypes = LiveOf(graph.types, delta.types, delta.typeLive, delta.typePatch)
        /\ \A k : TypeEntry(k) = EntryOf(graph.types, delta.types, delta.typePatch, k)
    BY TypeTables DEF Groups
  <2>6. Appended(graph.types, delta.types, delta.typeLive, delta.typePatch,
                 delta'.types, delta'.typeLive, n, e)
    BY <2>2, <2>4, <2>5, WrittenBehind
  <2>7. /\ EntryOf(graph.types, delta'.types, delta.typePatch, n) = e
        /\ \A k \in SlotsOf(graph.types, delta.types) :
             EntryOf(graph.types, delta'.types, delta.typePatch, k) =
               EntryOf(graph.types, delta.types, delta.typePatch, k)
        /\ LiveOf(graph.types, delta'.types, delta'.typeLive, delta.typePatch) =
             Switched(LiveOf(graph.types, delta.types, delta.typeLive, delta.typePatch), n, TRUE)
    BY <2>6 DEF Appended
  <2>8. /\ LiveTypes' = Switched(LiveTypes, n, TRUE) /\ TypeEntry(n)' = e
        /\ \A k \in TypeSlots : TypeEntry(k)' = TypeEntry(k)
        /\ \A k : Patched(k)' <=> Patched(k)
    BY <1>1, <2>3, <2>5, <2>7 DEF LiveTypes, LiveOf, TypeEntry, EntryOf, Patched
  <2>9. /\ Len(graph.types) \in Nat /\ n # 0 /\ n \notin TypeSlots
        /\ Len(delta.types) + 1 # 0 /\ n = Len(graph.types) + (Len(delta.types) + 1)
    <3>1. PICK x, y : x = Len(graph.types) /\ y = Len(delta.types) /\ x \in Nat /\ y \in Nat
      BY BaselineTables, TableFacts DEF Groups, TypesInv
    <3>2. x \in Nat /\ y \in Nat /\ n = x + y + 1
      BY <2>4, <3>1
    <3>3. n # 0 /\ n \notin 1..(x + y) /\ y + 1 # 0 /\ n = x + (y + 1)
      BY ONLY <3>2
    <3>4. QED
      BY <3>1, <3>3 DEF TypeSlots
  <2>10. SlotOf(delta.typeIds, id) = 0 /\ FindType(graph, id) = 0
    <3>1. PICK s, b : s = SlotOf(delta.typeIds, id) /\ b = Len(graph.types)
      OBVIOUS
    <3>2. s # 0 => s \in Nat /\ b \in Nat
      BY <2>9, <3>1, SlotFound, TableFacts DEF Groups, TypesInv
    <3>3. (IF s # 0 THEN b + s ELSE FindType(graph, id)) = 0
      BY <1>0, <1>4, <3>1 DEF LineageType
    <3>4. s = 0
      BY ONLY <3>2, <3>3
    <3>5. QED
      BY <3>1, <3>3, <3>4
  <2>11. /\ SlotOf(delta'.typeIds, id) = Len(delta.types) + 1
         /\ \A a : a # id => SlotOf(delta'.typeIds, a) = SlotOf(delta.typeIds, a)
    BY <2>2, <2>10, SlotAppended DEF Groups, TypesInv
  <2>12. LineageType(id)' = n /\ \A a : a # id => LineageType(a)' = LineageType(a)
    BY <1>1, <2>9, <2>11 DEF LineageType
  <2>13. ASSUME NEW a, a # id PROVE TypeView(a)' = TypeView(a)
    <3>1. PICK k : k = LineageType(a) /\ k = LineageType(a)'
      BY <2>12, <2>13
    <3>2. k # n
      BY <2>9, <3>1, LineageTypeSlot DEF Groups
    <3>3. k \in LiveTypes' <=> k \in LiveTypes
      BY <2>8, <3>2 DEF Switched
    <3>4. k \in LiveTypes => TypeData(k)' = TypeData(k)
      <4>1. SUFFICES ASSUME k \in LiveTypes PROVE TypeData(k)' = TypeData(k)
        OBVIOUS
      <4>2. TypeEntry(k)' = TypeEntry(k) /\ (Patched(k)' <=> Patched(k))
        BY <2>8, <4>1 DEF LiveTypes, LiveSlots, TypeSlots
      <4>3. QED
        BY <1>1, <2>3, <4>1, <4>2, MembersGrown, DataKept
    <3>5. TypeView(a)' = IF k \in LiveTypes' THEN {TypeData(k)'} ELSE {}
      BY <3>1, NextTypeView
    <3>6. TypeView(a) = IF k \in LiveTypes THEN {TypeData(k)} ELSE {}
      BY <3>1, ViewsOf
    <3>7. QED
      BY <3>3, <3>4, <3>5, <3>6
  <2>14. TypeView(id) = {}
    BY <1>0, <1>2, ViewsOf
  <2>15. TypeView(id)' = {[kind |-> kind, members |-> {}]}
    <3>1. n \in LiveTypes'
      BY <2>8 DEF Switched
    <3>2. TypeData(n)' = [kind |-> kind, members |-> {}]
      BY <1>1, <2>8 DEF TypeData
    <3>3. QED
      BY <2>12, <3>1, <3>2, NextTypeView
  <2>16. TypeMap[id] = {} /\ TypeMap' = [TypeMap EXCEPT ![id] = {[kind |-> kind, members |-> {}]}]
    BY <2>13, <2>14, <2>15 DEF TypeMap
  <2>17. UNCHANGED <<ObjectMap, LinkMap>> /\ LineageKept
    BY <1>0, <1>1, <1>4, <2>3, <2>12, TypesAlone DEF LineageKept
  <2>18. QED
    BY <2>16, <2>17, TypeMapStep DEF LikeMaps
<1>5. QED
  BY <1>3, <1>4

-----------------------------------------------------------------------------
(***************************************************************************)
(* Objects seen through an edit                                            *)
(***************************************************************************)
\* A live object keeps its construction while the table of them grows.
LEMMA ObjectDataKept ==
  ASSUME BaselineInv, Groups, UNCHANGED graph, NEW k \in LiveObjects, ObjectEntry(k)' = ObjectEntry(k),
         k \in DOMAIN delta'.objectPatch <=> k \in DOMAIN delta.objectPatch,
         k \in DOMAIN delta.objectPatch => delta'.objectPatch[k] = delta.objectPatch[k],
         \A i \in DOMAIN delta.objectCons : delta'.objectCons[i] = delta.objectCons[i]
  PROVE  ObjectData(k)' = ObjectData(k)
<1>0. PICK e : e = ObjectEntry(k) /\ e = ObjectEntry(k)'
  OBVIOUS
<1>1. CASE k <= Len(graph.objects)
  BY <1>0, <1>1 DEF ObjectData, DeltaObjectConstruction
<1>2. CASE ~(k <= Len(graph.objects))
  <2>1. e = delta.objects[k - Len(graph.objects)] /\ k - Len(graph.objects) \in DOMAIN delta.objects
    <3>1. PICK x, y : x = Len(graph.objects) /\ y = Len(delta.objects) /\ x \in Nat /\ y \in Nat
                      /\ DOMAIN delta.objects = 1..y
      BY BaselineTables, TableFacts DEF Groups, ObjectsInv
    <3>2. k \in 1..(x + y) /\ ~(k <= x) /\ x \in Nat /\ y \in Nat
      BY <1>2, <3>1 DEF LiveObjects, LiveSlots
    <3>3. k > x /\ k - x \in 1..y
      BY ONLY <3>2
    <3>4. QED
      BY <1>0, <3>1, <3>3 DEF ObjectEntry, Entry
  <2>2. e.initialized => e.slot - Len(graph.objectCons) \in DOMAIN delta.objectCons
    BY <2>1 DEF Groups, ObjectsInv
  <2>3. QED
    BY <1>0, <1>2, <2>2 DEF ObjectData, DeltaObjectConstruction
<1>3. QED
  BY <1>1, <1>2

LEMMA OneObjectPerSlot ==
  ASSUME BaselineInv, ObjectsInv, NEW a, NEW b, LineageObject(a) = LineageObject(b),
         LineageObject(a) # 0
  PROVE  a = b
<1>1. PICK n, s, t : /\ n = Len(graph.objects) /\ s = SlotOf(delta.objectIds, a)
                     /\ t = SlotOf(delta.objectIds, b)
  OBVIOUS
<1>2. n \in Nat /\ DOMAIN graph.objectIds = 1..n /\ DOMAIN delta.objectIds = 1..Len(delta.objectIds)
      /\ Len(delta.objectIds) \in Nat
  BY <1>1, BaselineTables, TableFacts DEF BaselineInv, ObjectsInv, GraphFields
<1>3. /\ s # 0 => s \in DOMAIN delta.objectIds /\ delta.objectIds[s] = a
      /\ t # 0 => t \in DOMAIN delta.objectIds /\ delta.objectIds[t] = b
  BY <1>1, SlotFound
<1>4. PICK u, v : u = FindObject(graph, a) /\ v = FindObject(graph, b)
  OBVIOUS
<1>5. /\ u # 0 => u \in DOMAIN graph.objectIds /\ graph.objectIds[u] = a
      /\ v # 0 => v \in DOMAIN graph.objectIds /\ graph.objectIds[v] = b
  BY <1>4, SlotFound DEF FindObject
<1>6. /\ LineageObject(a) = (IF s # 0 THEN n + s ELSE u)
      /\ LineageObject(b) = (IF t # 0 THEN n + t ELSE v)
  BY <1>1, <1>4 DEF LineageObject
<1>7. /\ s # 0 => s \in Nat /\ n + s > n
      /\ t # 0 => t \in Nat /\ n + t > n
      /\ u # 0 => u \in Nat /\ u <= n
      /\ v # 0 => v \in Nat /\ v <= n
  BY ONLY <1>2, <1>3, <1>5
<1>8. CASE s # 0 /\ t # 0
  <2>1. n + s = n + t
    BY <1>6, <1>8
  <2>2. s = t
    BY ONLY <1>2, <1>7, <1>8, <2>1
  <2>3. QED
    BY <1>3, <1>8, <2>2
<1>9. CASE s = 0 /\ t = 0
  BY <1>5, <1>6, <1>9
<1>10. CASE s = 0 /\ t # 0
  <2>1. u = n + t /\ u # 0
    BY <1>6, <1>10
  <2>2. QED
    BY ONLY <1>2, <1>7, <1>10, <2>1
<1>11. CASE s # 0 /\ t = 0
  <2>1. v = n + s /\ v # 0
    BY <1>6, <1>11
  <2>2. QED
    BY ONLY <1>2, <1>7, <1>11, <2>1
<1>12. QED
  BY <1>8, <1>9, <1>10, <1>11

LEMMA ObjectsAlone ==
  ASSUME UNCHANGED graph, \A f \in DeltaFields \ ObjectFields : delta'[f] = delta[f]
  PROVE  /\ UNCHANGED <<TypeMap, LinkMap>>
         /\ \A id : LineageType(id)' = LineageType(id)
         /\ \A t : LineageLinkTarget(t)' = LineageLinkTarget(t)
<1>1. /\ \A f \in TypeFields : delta'[f] = delta[f]
      /\ \A f \in LinkFields : delta'[f] = delta[f]
  BY DEF DeltaFields, TypeFields, ObjectFields, LinkFields
<1>2. QED
  BY <1>1, TypesSeen, LinksSeen

\* One rewritten slot: the entry of its identity, if it has one, is set or
\* retired.
LEMMA ObjectLikeMap ==
  ASSUME BaselineInv, Groups, UNCHANGED graph,
         \A f \in DeltaFields \ ObjectFields : delta'[f] = delta[f],
         NEW h \in ObjectSlots, NEW e, NEW b \in BOOLEAN, NEW d, ObjectWritten(d, h, e, b),
         delta'.objects = d.objects, delta'.objectLive = d.objectLive,
         delta'.objectPatch = d.objectPatch, delta'.objectIds = delta.objectIds,
         \A i \in DOMAIN delta.objectCons : delta'.objectCons[i] = delta.objectCons[i],
         b => h \notin LiveObjects
  PROVE  LikeMaps
<1>1. /\ EntryOf(graph.objects, d.objects, d.objectPatch, h) = e
      /\ \A k \in SlotsOf(graph.objects, delta.objects) : k # h =>
           /\ EntryOf(graph.objects, d.objects, d.objectPatch, k) =
                EntryOf(graph.objects, delta.objects, delta.objectPatch, k)
           /\ k \in DOMAIN d.objectPatch <=> k \in DOMAIN delta.objectPatch
           /\ k \in DOMAIN d.objectPatch => d.objectPatch[k] = delta.objectPatch[k]
      /\ LiveOf(graph.objects, d.objects, d.objectLive, d.objectPatch) =
           Switched(LiveOf(graph.objects, delta.objects, delta.objectLive, delta.objectPatch), h, b)
  BY DEF ObjectWritten, Written
<1>2. /\ ObjectSlots = SlotsOf(graph.objects, delta.objects)
      /\ LiveObjects = LiveOf(graph.objects, delta.objects, delta.objectLive, delta.objectPatch)
      /\ \A k : ObjectEntry(k) = EntryOf(graph.objects, delta.objects, delta.objectPatch, k)
  BY ObjectTables DEF Groups
<1>3. LiveObjects' = Switched(LiveObjects, h, b)
  BY <1>1, <1>2 DEF LiveObjects, LiveOf
<1>4. \A k \in ObjectSlots : k # h =>
        /\ ObjectEntry(k)' = ObjectEntry(k)
        /\ k \in DOMAIN delta'.objectPatch <=> k \in DOMAIN delta.objectPatch
        /\ k \in DOMAIN delta.objectPatch => delta'.objectPatch[k] = delta.objectPatch[k]
  BY <1>1, <1>2 DEF ObjectEntry, EntryOf
<1>5. \A id : LineageObject(id)' = LineageObject(id)
  BY DEF LineageObject
<1>6. ASSUME NEW id, LineageObject(id) # h PROVE ObjectView(id)' = ObjectView(id)
  <2>1. PICK k : k = LineageObject(id) /\ k = LineageObject(id)' /\ k # h
    BY <1>5, <1>6
  <2>2. k \in LiveObjects' <=> k \in LiveObjects
    BY <1>3, <2>1 DEF Switched
  <2>3. k \in LiveObjects => ObjectData(k)' = ObjectData(k)
    <3>1. SUFFICES ASSUME k \in LiveObjects PROVE ObjectData(k)' = ObjectData(k)
      OBVIOUS
    <3>2. k \in ObjectSlots
      BY <3>1 DEF LiveObjects, LiveSlots, ObjectSlots
    <3>3. QED
      BY <1>4, <2>1, <3>1, <3>2, ObjectDataKept
  <2>4. ObjectView(id)' = IF k \in LiveObjects' THEN {ObjectData(k)'} ELSE {}
    BY <2>1, NextObjectView
  <2>5. ObjectView(id) = IF k \in LiveObjects THEN {ObjectData(k)} ELSE {}
    BY <2>1, ViewsOf
  <2>6. QED
    BY <2>2, <2>3, <2>4, <2>5
<1>7. /\ UNCHANGED <<TypeMap, LinkMap>>
      /\ \A id : LineageType(id)' = LineageType(id)
      /\ \A t : LineageLinkTarget(t)' = LineageLinkTarget(t)
  BY ObjectsAlone
<1>8. CASE \A id \in ObjectIds : LineageObject(id) # h
  <2>1. UNCHANGED ObjectMap
    BY <1>6, <1>8 DEF ObjectMap
  <2>2. QED
    BY <1>5, <1>7, <2>1, MapStays DEF LikeMaps
<1>9. CASE \E id \in ObjectIds : LineageObject(id) = h
  <2>1. PICK id \in ObjectIds : LineageObject(id) = h
    BY <1>9
  <2>2. h # 0
    BY DEF ObjectSlots
  <2>3. \A a : a # id => LineageObject(a) # h
    BY <2>1, <2>2, OneObjectPerSlot DEF Groups
  <2>4. ObjectMap' = [ObjectMap EXCEPT ![id] = ObjectMap'[id]]
    BY <1>6, <2>3 DEF ObjectMap
  <2>5. ObjectMap[id] = {} \/ ObjectMap'[id] = {}
    <3>1. CASE b
      BY <2>1, <3>1, ViewsOf DEF ObjectMap
    <3>2. CASE ~b
      <4>1. h \notin LiveObjects' /\ h = LineageObject(id)'
        BY <1>3, <1>5, <2>1, <3>2 DEF Switched
      <4>2. ObjectView(id)' = {}
        BY <4>1, NextObjectView
      <4>3. QED
        BY <4>2 DEF ObjectMap
    <3>3. QED
      BY <3>1, <3>2
  <2>6. LineageKept
    BY <1>5, <1>7 DEF LineageKept
  <2>7. QED
    BY <1>7, <2>1, <2>4, <2>5, <2>6, ObjectMapStep DEF LikeMaps
<1>10. QED
  BY <1>8, <1>9

LEMMA AddObjectSeen ==
  ASSUME BaselineInv, Groups, NEW id \in ObjectIds, NEW type, NEW static, NEW initialized, NEW initial,
         DeltaAddObject(id, type, static, initialized, initial)
  PROVE  LikeMaps
<1>0. PICK h, e : h = LineageObject(id) /\ e = NewObject(type, static, initialized)
  OBVIOUS
<1>1. PICK d : /\ d = IF h = 0 THEN AppendObject(id, e) ELSE RestoreObject(h, e, initial)
               /\ delta' = [d EXCEPT !.objectCons = IF initialized THEN Append(@, initial) ELSE @,
                                     !.liveObjects = @ + 1]
  BY <1>0 DEF DeltaAddObject
<1>2. UNCHANGED graph /\ ~ContainsObject(h)
  BY <1>0 DEF DeltaAddObject, CanAddObject
<1>3. /\ Tables(graph.objects, delta.objects, delta.objectLive, delta.objectPatch)
      /\ ObjectSlots = SlotsOf(graph.objects, delta.objects)
      /\ LiveObjects = LiveOf(graph.objects, delta.objects, delta.objectLive, delta.objectPatch)
      /\ \A k : ObjectEntry(k) = EntryOf(graph.objects, delta.objects, delta.objectPatch, k)
      /\ h \notin LiveObjects
  BY <1>2, ObjectTables DEF Groups
<1>4. DOMAIN delta = DeltaFields /\ ObjectsInv
  BY DEF Groups
<1>5. ASSUME DOMAIN d = DeltaFields,
             \A f \in DeltaFields \ {"objects", "objectIds", "objectLive", "objectPatch"} :
               d[f] = delta[f]
      PROVE  /\ delta'.objects = d.objects /\ delta'.objectIds = d.objectIds
             /\ delta'.objectLive = d.objectLive /\ delta'.objectPatch = d.objectPatch
             /\ \A f \in DeltaFields \ ObjectFields : delta'[f] = delta[f]
             /\ \A i \in DOMAIN delta.objectCons : delta'.objectCons[i] = delta.objectCons[i]
  <2>1. d.objectCons = delta.objectCons
    BY <1>5 DEF DeltaFields, ObjectFields
  <2>2. /\ delta'.objectCons = IF initialized THEN Append(delta.objectCons, initial)
                               ELSE delta.objectCons
        /\ \A f \in DeltaFields \ {"objectCons", "liveObjects"} : delta'[f] = d[f]
    BY <1>1, <1>5, <2>1 DEF DeltaFields, ObjectFields
  <2>3. /\ delta'.objects = d.objects /\ delta'.objectIds = d.objectIds
        /\ delta'.objectLive = d.objectLive /\ delta'.objectPatch = d.objectPatch
        /\ \A f \in DeltaFields \ ObjectFields : delta'[f] = delta[f]
    BY <1>5, <2>2 DEF DeltaFields, TypeFields, ObjectFields, LinkFields
  <2>4. \A i \in DOMAIN delta.objectCons : delta'.objectCons[i] = delta.objectCons[i]
    BY <1>4, <2>2, AppendTable DEF ObjectsInv
  <2>5. QED
    BY <2>3, <2>4
<1>6. CASE h # 0
  <2>1. h \in ObjectSlots
    BY <1>0, <1>4, <1>6, LineageObjectSlot
  <2>2. /\ DOMAIN d = DeltaFields
        /\ \A f \in DeltaFields \ {"objects", "objectLive", "objectPatch"} : d[f] = delta[f]
        /\ ObjectWritten(d, h, e, TRUE)
    <3>1. d = RestoreObject(h, e, initial)
      BY <1>1, <1>6
    <3>2. ObjectRestored(d, h, e, initial)
      BY <1>4, <2>1, <3>1, RestoreObjectWrites
    <3>3. QED
      BY <3>2 DEF ObjectRestored
  <2>3. d.objectIds = delta.objectIds
    BY <2>2 DEF DeltaFields, ObjectFields
  <2>4. QED
    BY <1>2, <1>3, <1>5, <2>1, <2>2, <2>3, ObjectLikeMap
<1>7. CASE h = 0
  <2>0. PICK n : n = Len(graph.objects) + Len(delta.objects) + 1
    OBVIOUS
  <2>1. d = [delta EXCEPT !.objects = Append(@, e), !.objectIds = Append(@, id),
                          !.objectLive = Append(@, TRUE)]
    BY <1>1, <1>7 DEF AppendObject
  <2>2. /\ DOMAIN d = DeltaFields /\ d.objects = Append(delta.objects, e)
        /\ d.objectIds = Append(delta.objectIds, id)
        /\ d.objectLive = Append(delta.objectLive, TRUE)
        /\ \A f \in DeltaFields \ {"objects", "objectIds", "objectLive"} : d[f] = delta[f]
    BY <1>4, <2>1 DEF DeltaFields, ObjectFields
  <2>3. d.objectPatch = delta.objectPatch
    BY <2>2 DEF DeltaFields, ObjectFields
  <2>4. Appended(graph.objects, delta.objects, delta.objectLive, delta.objectPatch,
                 d.objects, d.objectLive, n, e)
    BY <1>3, <2>0, <2>2, WrittenBehind
  <2>5. /\ \A k \in SlotsOf(graph.objects, delta.objects) :
             EntryOf(graph.objects, d.objects, delta.objectPatch, k) =
               EntryOf(graph.objects, delta.objects, delta.objectPatch, k)
        /\ LiveOf(graph.objects, d.objects, d.objectLive, d.objectPatch) =
             Switched(LiveObjects, n, TRUE)
    BY <1>3, <2>3, <2>4 DEF Appended
  <2>6. /\ delta'.objects = d.objects /\ delta'.objectIds = d.objectIds
        /\ delta'.objectLive = d.objectLive /\ delta'.objectPatch = delta.objectPatch
        /\ \A f \in DeltaFields \ ObjectFields : delta'[f] = delta[f]
        /\ \A i \in DOMAIN delta.objectCons : delta'.objectCons[i] = delta.objectCons[i]
    BY <1>5, <2>2, <2>3
  <2>7. /\ LiveObjects' = Switched(LiveObjects, n, TRUE)
        /\ \A k \in ObjectSlots : ObjectEntry(k)' = ObjectEntry(k)
    BY <1>2, <1>3, <2>3, <2>5, <2>6 DEF LiveObjects, LiveOf, ObjectEntry, EntryOf
  <2>8. /\ Len(graph.objects) \in Nat /\ n # 0 /\ n \notin ObjectSlots
        /\ Len(delta.objects) + 1 # 0 /\ n = Len(graph.objects) + (Len(delta.objects) + 1)
    <3>1. PICK x, y : x = Len(graph.objects) /\ y = Len(delta.objects) /\ x \in Nat /\ y \in Nat
      BY <1>4, BaselineTables, TableFacts DEF ObjectsInv
    <3>2. x \in Nat /\ y \in Nat /\ n = x + y + 1
      BY <2>0, <3>1
    <3>3. n # 0 /\ n \notin 1..(x + y) /\ y + 1 # 0 /\ n = x + (y + 1)
      BY ONLY <3>2
    <3>4. QED
      BY <3>1, <3>3 DEF ObjectSlots
  <2>9. SlotOf(delta.objectIds, id) = 0
    BY <1>0, <1>4, <1>7, LineageObjectFree
  <2>10. /\ SlotOf(delta'.objectIds, id) = Len(delta.objects) + 1
         /\ \A a : a # id => SlotOf(delta'.objectIds, a) = SlotOf(delta.objectIds, a)
    BY <1>4, <2>2, <2>6, <2>9, SlotAppended DEF ObjectsInv
  <2>11. LineageObject(id)' = n /\ \A a : a # id => LineageObject(a)' = LineageObject(a)
    BY <1>2, <2>8, <2>10 DEF LineageObject
  <2>12. ASSUME NEW a, a # id PROVE ObjectView(a)' = ObjectView(a)
    <3>1. PICK k : k = LineageObject(a) /\ k = LineageObject(a)'
      BY <2>11, <2>12
    <3>2. k # n
      BY <1>4, <2>8, <3>1, LineageObjectSlot
    <3>3. k \in LiveObjects' <=> k \in LiveObjects
      BY <2>7, <3>2 DEF Switched
    <3>4. k \in LiveObjects => ObjectData(k)' = ObjectData(k)
      <4>1. SUFFICES ASSUME k \in LiveObjects PROVE ObjectData(k)' = ObjectData(k)
        OBVIOUS
      <4>2. ObjectEntry(k)' = ObjectEntry(k)
        BY <2>7, <4>1 DEF LiveObjects, LiveSlots, ObjectSlots
      <4>3. QED
        BY <1>2, <2>6, <4>1, <4>2, ObjectDataKept
    <3>5. ObjectView(a)' = IF k \in LiveObjects' THEN {ObjectData(k)'} ELSE {}
      BY <3>1, NextObjectView
    <3>6. ObjectView(a) = IF k \in LiveObjects THEN {ObjectData(k)} ELSE {}
      BY <3>1, ViewsOf
    <3>7. QED
      BY <3>3, <3>4, <3>5, <3>6
  <2>13. ObjectMap[id] = {} /\ ObjectMap' = [ObjectMap EXCEPT ![id] = ObjectMap'[id]]
    BY <1>0, <1>3, <2>12, ViewsOf DEF ObjectMap
  <2>14. UNCHANGED <<TypeMap, LinkMap>> /\ LineageKept
    BY <1>0, <1>2, <1>7, <2>6, <2>11, ObjectsAlone DEF LineageKept
  <2>15. QED
    BY <2>13, <2>14, ObjectMapStep DEF LikeMaps
<1>8. QED
  BY <1>6, <1>7

LEMMA RetireObjectSeen == ASSUME BaselineInv, Groups, NEW h, RetireObject(h) PROVE LikeMaps
<1>0. PICK d : d = IF h <= Len(graph.objects)
                   THEN PatchObject(h, ObjectEntry(h), DeltaObjectConstruction(h), FALSE)
                   ELSE [delta EXCEPT !.objectLive[h - Len(graph.objects)] = FALSE]
  OBVIOUS
<1>1. UNCHANGED graph /\ ContainsObject(h) /\ delta' = [d EXCEPT !.liveObjects = @ - 1]
  BY <1>0 DEF RetireObject
<1>2. h \in ObjectSlots
  BY <1>1 DEF ContainsObject
<1>3. PICK e : e = ObjectEntry(h)
  OBVIOUS
<1>4. /\ DOMAIN d = DeltaFields /\ ObjectWritten(d, h, e, FALSE)
      /\ \A f \in DeltaFields \ {"objectLive", "objectPatch"} : d[f] = delta[f]
  BY <1>0, <1>2, <1>3, RetireObjectWrites DEF Groups
<1>5. \A f \in DeltaFields \ {"liveObjects"} : delta'[f] = d[f]
  BY <1>1, <1>4 DEF DeltaFields, ObjectFields
<1>6. /\ delta'.objects = d.objects /\ delta'.objectLive = d.objectLive
      /\ delta'.objectPatch = d.objectPatch /\ delta'.objectIds = delta.objectIds
      /\ delta'.objectCons = delta.objectCons
      /\ \A f \in DeltaFields \ ObjectFields : delta'[f] = delta[f]
  BY <1>4, <1>5 DEF DeltaFields, TypeFields, ObjectFields, LinkFields
<1>7. QED
  BY <1>1, <1>2, <1>4, <1>6, ObjectLikeMap

-----------------------------------------------------------------------------
(***************************************************************************)
(* Links seen through an edit                                              *)
(***************************************************************************)
LEMMA OneLinkPerSlot ==
  ASSUME BaselineInv, LinksInv, NEW a, NEW b, LineageLinkTarget(a) = LineageLinkTarget(b),
         LineageLinkTarget(a) # 0
  PROVE  a = b
<1>1. PICK l, m : l = LineageLinkTarget(a) /\ l = LineageLinkTarget(b) /\ m = Len(graph.links)
  OBVIOUS
<1>2. /\ l > m => delta.links[l - m].target = a
      /\ l > m => delta.links[l - m].target = b
      /\ l <= m => graph.links[l].target = a
      /\ l <= m => graph.links[l].target = b
      /\ l \in LinkSlots
  BY <1>1, LineageLink
<1>3. l \in Int /\ m \in Nat
  BY <1>1, <1>2, BaselineTables DEF LinkSlots
<1>4. l > m \/ l <= m
  BY <1>3
<1>5. QED
  BY <1>2, <1>4

LEMMA LinksAlone ==
  ASSUME UNCHANGED graph, \A f \in DeltaFields \ LinkFields : delta'[f] = delta[f]
  PROVE  /\ UNCHANGED <<TypeMap, ObjectMap>>
         /\ \A id : LineageType(id)' = LineageType(id)
         /\ \A id : LineageObject(id)' = LineageObject(id)
<1>1. /\ \A f \in TypeFields : delta'[f] = delta[f]
      /\ \A f \in ObjectFields : delta'[f] = delta[f]
  BY DEF DeltaFields, TypeFields, ObjectFields, LinkFields
<1>2. QED
  BY <1>1, TypesSeen, ObjectsSeen

LEMMA LinkLikeMap ==
  ASSUME BaselineInv, Groups, UNCHANGED graph,
         \A f \in DeltaFields \ LinkFields : delta'[f] = delta[f],
         NEW l \in LinkSlots, NEW e, NEW b \in BOOLEAN, NEW d, LinkWritten(d, l, e, b),
         delta'.links = d.links, delta'.linkLive = d.linkLive,
         delta'.linkPatch = d.linkPatch, delta'.targets = delta.targets,
         b => l \notin LiveLinks
  PROVE  LikeMaps
<1>1. /\ \A k \in SlotsOf(graph.links, delta.links) : k # l =>
           EntryOf(graph.links, d.links, d.linkPatch, k) =
             EntryOf(graph.links, delta.links, delta.linkPatch, k)
      /\ LiveOf(graph.links, d.links, d.linkLive, d.linkPatch) =
           Switched(LiveOf(graph.links, delta.links, delta.linkLive, delta.linkPatch), l, b)
  BY DEF LinkWritten, Written
<1>2. /\ LinkSlots = SlotsOf(graph.links, delta.links)
      /\ LiveLinks = LiveOf(graph.links, delta.links, delta.linkLive, delta.linkPatch)
      /\ \A k : LinkEntry(k) = EntryOf(graph.links, delta.links, delta.linkPatch, k)
  BY LinkTables DEF Groups
<1>3. LiveLinks' = Switched(LiveLinks, l, b)
  BY <1>1, <1>2 DEF LiveLinks, LiveOf
<1>4. \A k \in LinkSlots : k # l => LinkEntry(k)' = LinkEntry(k)
  BY <1>1, <1>2 DEF LinkEntry, EntryOf
<1>5. \A t : LineageLinkTarget(t)' = LineageLinkTarget(t)
  BY DEF LineageLinkTarget
<1>6. ASSUME NEW t, LineageLinkTarget(t) # l PROVE LinkView(t)' = LinkView(t)
  <2>1. PICK k : k = LineageLinkTarget(t) /\ k = LineageLinkTarget(t)' /\ k # l
    BY <1>5, <1>6
  <2>2. k \in LiveLinks' <=> k \in LiveLinks
    BY <1>3, <2>1 DEF Switched
  <2>3. k \in LiveLinks => LinkEntry(k)' = LinkEntry(k)
    BY <1>4, <2>1 DEF LiveLinks, LiveSlots, LinkSlots
  <2>4. LinkView(t)' = IF k \in LiveLinks' THEN {LinkEntry(k)'.source} ELSE {}
    BY <2>1, NextLinkView
  <2>5. LinkView(t) = IF k \in LiveLinks THEN {LinkEntry(k).source} ELSE {}
    BY <2>1, ViewsOf
  <2>6. QED
    BY <2>2, <2>3, <2>4, <2>5
<1>7. /\ UNCHANGED <<TypeMap, ObjectMap>>
      /\ \A id : LineageType(id)' = LineageType(id)
      /\ \A id : LineageObject(id)' = LineageObject(id)
  BY LinksAlone
<1>8. CASE \A t \in Targets : LineageLinkTarget(t) # l
  <2>1. UNCHANGED LinkMap
    BY <1>6, <1>8 DEF LinkMap
  <2>2. QED
    BY <1>5, <1>7, <2>1, MapStays DEF LikeMaps
<1>9. CASE \E t \in Targets : LineageLinkTarget(t) = l
  <2>1. PICK t \in Targets : LineageLinkTarget(t) = l
    BY <1>9
  <2>2. l # 0
    BY DEF LinkSlots
  <2>3. \A a : a # t => LineageLinkTarget(a) # l
    BY <2>1, <2>2, OneLinkPerSlot DEF Groups
  <2>4. LinkMap' = [LinkMap EXCEPT ![t] = LinkMap'[t]]
    BY <1>6, <2>3 DEF LinkMap
  <2>5. LinkMap[t] = {} \/ LinkMap'[t] = {}
    <3>1. CASE b
      BY <2>1, <3>1, ViewsOf DEF LinkMap
    <3>2. CASE ~b
      <4>1. l \notin LiveLinks' /\ l = LineageLinkTarget(t)'
        BY <1>3, <1>5, <2>1, <3>2 DEF Switched
      <4>2. LinkView(t)' = {}
        BY <4>1, NextLinkView
      <4>3. QED
        BY <4>2 DEF LinkMap
    <3>3. QED
      BY <3>1, <3>2
  <2>6. LineageKept
    BY <1>5, <1>7 DEF LineageKept
  <2>7. QED
    BY <1>7, <2>1, <2>4, <2>5, <2>6, LinkMapStep DEF LikeMaps
<1>10. QED
  BY <1>8, <1>9

LEMMA AddLinkSeen ==
  ASSUME BaselineInv, Groups, NEW source, NEW target, DeltaAddLink(source, target)
  PROVE  LikeMaps
<1>0. PICK l, e : l = LineageLinkTarget(target) /\ e = [source |-> source, target |-> target]
  OBVIOUS
<1>1. PICK d : /\ d = IF l = 0 THEN AppendLink(e) ELSE RestoreLink(l, e)
               /\ delta' = [d EXCEPT !.liveLinks = @ + 1]
  BY <1>0 DEF DeltaAddLink
<1>2. UNCHANGED graph /\ ~ContainsLink(l) /\ e.target = target
  BY <1>0 DEF DeltaAddLink
<1>3. /\ Tables(graph.links, delta.links, delta.linkLive, delta.linkPatch)
      /\ LinkSlots = SlotsOf(graph.links, delta.links)
      /\ LiveLinks = LiveOf(graph.links, delta.links, delta.linkLive, delta.linkPatch)
      /\ \A k : LinkEntry(k) = EntryOf(graph.links, delta.links, delta.linkPatch, k)
      /\ l \notin LiveLinks
  BY <1>2, LinkTables DEF Groups
<1>4. DOMAIN delta = DeltaFields /\ LinksInv
  BY DEF Groups
<1>5. ASSUME DOMAIN d = DeltaFields,
             \A f \in DeltaFields \ {"links", "linkLive", "linkPatch", "targets"} : d[f] = delta[f]
      PROVE  /\ delta'.links = d.links /\ delta'.linkLive = d.linkLive
             /\ delta'.linkPatch = d.linkPatch /\ delta'.targets = d.targets
             /\ \A f \in DeltaFields \ LinkFields : delta'[f] = delta[f]
  <2>1. \A f \in DeltaFields \ {"liveLinks"} : delta'[f] = d[f]
    BY <1>1, <1>5 DEF DeltaFields, LinkFields
  <2>2. QED
    BY <1>5, <2>1 DEF DeltaFields, TypeFields, ObjectFields, LinkFields
<1>6. CASE l # 0
  <2>1. l \in LinkSlots
    BY <1>0, <1>4, <1>6, LineageLink
  <2>2. d = RestoreLink(l, e)
    BY <1>1, <1>6
  <2>3. /\ DOMAIN d = DeltaFields /\ LinkWritten(d, l, e, TRUE)
        /\ \A f \in DeltaFields \ {"links", "linkLive", "linkPatch"} : d[f] = delta[f]
    BY ONLY BaselineInv, <1>4, <2>1, <2>2, RestoreLinkWrites
  <2>4. d.targets = delta.targets
    BY <2>3 DEF DeltaFields, LinkFields
  <2>5. QED
    BY <1>2, <1>3, <1>5, <2>1, <2>3, <2>4, LinkLikeMap
<1>7. CASE l = 0
  <2>0. PICK n : n = Len(graph.links) + Len(delta.links) + 1
    OBVIOUS
  <2>1. d = [delta EXCEPT !.links = Append(@, e), !.linkLive = Append(@, TRUE),
                          !.targets = IndexTarget(target, n)]
    BY <1>1, <1>2, <1>7, <2>0 DEF AppendLink
  <2>2. /\ DOMAIN d = DeltaFields /\ d.links = Append(delta.links, e)
        /\ d.linkLive = Append(delta.linkLive, TRUE)
        /\ d.targets = WithPatch(delta.targets, target, n)
        /\ \A f \in DeltaFields \ {"links", "linkLive", "targets"} : d[f] = delta[f]
    BY <1>4, <2>1 DEF DeltaFields, LinkFields, IndexTarget
  <2>3. d.linkPatch = delta.linkPatch
    BY <2>2 DEF DeltaFields, LinkFields
  <2>4. Appended(graph.links, delta.links, delta.linkLive, delta.linkPatch,
                 d.links, d.linkLive, n, e)
    BY <1>3, <2>0, <2>2, WrittenBehind
  <2>5. /\ \A k \in SlotsOf(graph.links, delta.links) :
             EntryOf(graph.links, d.links, delta.linkPatch, k) =
               EntryOf(graph.links, delta.links, delta.linkPatch, k)
        /\ LiveOf(graph.links, d.links, d.linkLive, d.linkPatch) = Switched(LiveLinks, n, TRUE)
    BY <1>3, <2>3, <2>4 DEF Appended
  <2>6. /\ delta'.links = d.links /\ delta'.linkLive = d.linkLive
        /\ delta'.linkPatch = delta.linkPatch /\ delta'.targets = WithPatch(delta.targets, target, n)
        /\ \A f \in DeltaFields \ LinkFields : delta'[f] = delta[f]
    BY <1>5, <2>2, <2>3
  <2>7. /\ LiveLinks' = Switched(LiveLinks, n, TRUE)
        /\ \A k \in LinkSlots : LinkEntry(k)' = LinkEntry(k)
    BY <1>2, <1>3, <2>3, <2>5, <2>6 DEF LiveLinks, LiveOf, LinkEntry, EntryOf
  <2>8. n # 0 /\ n \notin LinkSlots
    <3>1. PICK x, y : x = Len(graph.links) /\ y = Len(delta.links) /\ x \in Nat /\ y \in Nat
      BY <1>4, BaselineTables, TableFacts DEF LinksInv
    <3>2. x \in Nat /\ y \in Nat /\ n = x + y + 1
      BY <2>0, <3>1
    <3>3. n # 0 /\ n \notin 1..(x + y)
      BY ONLY <3>2
    <3>4. QED
      BY <3>1, <3>3 DEF LinkSlots
  <2>9. LineageLinkTarget(target)' = n /\ \A a : a # target => LineageLinkTarget(a)' = LineageLinkTarget(a)
    BY <1>2, <2>6 DEF LineageLinkTarget, WithPatch
  <2>10. ASSUME NEW a, a # target PROVE LinkView(a)' = LinkView(a)
    <3>1. PICK k : k = LineageLinkTarget(a) /\ k = LineageLinkTarget(a)'
      BY <2>9, <2>10
    <3>2. k # n
      <4>1. BaselineInv /\ LinksInv
        BY <1>4
      <4>2. k # 0 => k \in LinkSlots
        BY <3>1, <4>1, LineageLink
      <4>3. QED
        BY <2>8, <4>2
    <3>3. k \in LiveLinks' <=> k \in LiveLinks
      BY <2>7, <3>2 DEF Switched
    <3>4. k \in LiveLinks => LinkEntry(k)' = LinkEntry(k)
      BY <2>7 DEF LiveLinks, LiveSlots, LinkSlots
    <3>5. LinkView(a)' = IF k \in LiveLinks' THEN {LinkEntry(k)'.source} ELSE {}
      BY <3>1, NextLinkView
    <3>6. LinkView(a) = IF k \in LiveLinks THEN {LinkEntry(k).source} ELSE {}
      BY <3>1, ViewsOf
    <3>7. QED
      BY <3>3, <3>4, <3>5, <3>6
  <2>11. /\ UNCHANGED <<TypeMap, ObjectMap>>
         /\ \A id : LineageType(id)' = LineageType(id)
         /\ \A id : LineageObject(id)' = LineageObject(id)
    BY <1>2, <2>6, LinksAlone
  <2>12. CASE target \in Targets
    <3>1. LinkMap[target] = {} /\ LinkMap' = [LinkMap EXCEPT ![target] = LinkMap'[target]]
      BY <1>0, <1>3, <2>10, <2>12, ViewsOf DEF LinkMap
    <3>2. LineageKept
      BY <1>0, <1>7, <2>9, <2>11 DEF LineageKept
    <3>3. QED
      BY <2>11, <2>12, <3>1, <3>2, LinkMapStep DEF LikeMaps
  <2>13. CASE target \notin Targets
    <3>1. UNCHANGED LinkMap
      BY <2>10, <2>13 DEF LinkMap
    <3>2. QED
      BY <2>9, <2>11, <2>13, <3>1, MapStays DEF LikeMaps
  <2>14. QED
    BY <2>12, <2>13
<1>8. QED
  BY <1>6, <1>7

LEMMA RetireLinkSeen == ASSUME BaselineInv, Groups, NEW l, RetireLink(l) PROVE LikeMaps
<1>0. PICK d : d = IF l <= Len(graph.links) THEN PatchLink(l, LinkEntry(l), FALSE)
                   ELSE [delta EXCEPT !.linkLive[l - Len(graph.links)] = FALSE]
  OBVIOUS
<1>1. UNCHANGED graph /\ ContainsLink(l) /\ delta' = [d EXCEPT !.liveLinks = @ - 1]
  BY <1>0 DEF RetireLink
<1>2. l \in LinkSlots
  BY <1>1 DEF ContainsLink
<1>3. PICK e : e = LinkEntry(l)
  OBVIOUS
<1>4. /\ DOMAIN d = DeltaFields /\ LinkWritten(d, l, e, FALSE)
      /\ \A f \in DeltaFields \ {"linkLive", "linkPatch"} : d[f] = delta[f]
  BY <1>0, <1>2, <1>3, RetireLinkWrites DEF Groups
<1>5. \A f \in DeltaFields \ {"liveLinks"} : delta'[f] = d[f]
  BY <1>1, <1>4 DEF DeltaFields, LinkFields
<1>6. /\ delta'.links = d.links /\ delta'.linkLive = d.linkLive
      /\ delta'.linkPatch = d.linkPatch /\ delta'.targets = delta.targets
      /\ \A f \in DeltaFields \ LinkFields : delta'[f] = delta[f]
  BY <1>4, <1>5 DEF DeltaFields, TypeFields, ObjectFields, LinkFields
<1>7. QED
  BY <1>1, <1>2, <1>4, <1>6, LinkLikeMap

LEMMA EditSeen == ASSUME BaselineInv, Groups, Edit PROVE LikeMaps
<1>1. CASE EditRecord
  <2>1. CASE \E id \in TypeIds, kind \in Kinds : DeltaDeclareRecord(id, kind)
    BY <2>1, DeclareSeen, GraphMenus
  <2>2. CASE \E h \in TypeSlots : ClearDefinition(h) \/ RetireType(h)
    BY <2>2, ClearSeen, RetireTypeSeen
  <2>3. CASE \E h \in TypeSlots, kind \in Kinds, def \in Definitions :
               DeltaDefineRecord(h, kind, def.members, def.cons)
    BY <2>3, DefineSeen, GraphMenus
  <2>4. CASE \E r \in Derivations : DeltaDerive(r.child, r.kind, r.payload)
    BY <2>4, DeriveSeen
  <2>5. QED
    BY <1>1, <2>1, <2>2, <2>3, <2>4 DEF EditRecord
<1>2. CASE EditObject
  <2>1. CASE \E id \in ObjectIds, type \in ObjectTypes, init \in Initials :
               DeltaAddObject(id, type, init.static, init.initialized, init.initial)
    BY <2>1, AddObjectSeen
  <2>2. CASE \E h \in ObjectSlots : RetireObject(h)
    BY <2>2, RetireObjectSeen
  <2>3. CASE \E source, target \in MemberEndpoints : DeltaAddLink(source, target)
    BY <2>3, AddLinkSeen
  <2>4. CASE \E l \in LinkSlots : RetireLink(l)
    BY <2>4, RetireLinkSeen
  <2>5. QED
    BY <1>2, <2>1, <2>2, <2>3, <2>4 DEF EditObject
<1>3. QED
  BY <1>1, <1>2 DEF Edit

\* Every edit of a bound delta is, through the refinement mapping, an operation
\* on the three maps of GraphMap or changes none of them: it touches its own
\* entry, overwrites no live object or link, and moves no handle.
THEOREM EditsActLikeMaps == GraphSpec => DeltaImplementsMap
<1>1. BaselineInv /\ DeltaInv /\ [GraphNext]_graphVars =>
        [bound => Map!MapNext \/ UNCHANGED Map!mapVars]_graphVars
  <2>1. SUFFICES ASSUME BaselineInv, DeltaInv, GraphNext, bound PROVE LikeMaps
    BY DEF LikeMaps
  <2>2. Edit
    BY <2>1 DEF GraphNext, FillRecord, FillObject, Fill, BindBaseline
  <2>3. Groups
    BY <2>1 DEF DeltaInv
  <2>4. QED
    BY <2>1, <2>2, <2>3, EditSeen
<1>2. QED
  BY <1>1, GraphInvariant, PTL DEF GraphSpec, DeltaImplementsMap

-----------------------------------------------------------------------------
(***************************************************************************)
(* Links stay typed.  A path is read hop by hop, so its proof is an        *)
(* induction on the number of hops, run as a least counterexample.         *)
(***************************************************************************)

\* Every nonempty set of naturals has a least element.
LEMMA LeastNat ==
  ASSUME NEW T \in SUBSET Nat, T # {}
  PROVE  \E n \in T : \A m \in T : n <= m
<1> DEFINE R == {pair \in Nat \X Nat : pair[1] < pair[2]}
<1>1. IsWellFoundedOn(OpToRel(<, Nat), Nat)
  BY NatLessThanWellFounded
<1>2. OpToRel(<, Nat) = R
  BY DEF OpToRel
<1>3. IsWellFoundedOn(R, Nat)
  BY <1>1, <1>2
<1>4. \A m, n \in Nat : m < n => <<m, n>> \in R
  OBVIOUS
<1> HIDE DEF R
<1>5. PICK n \in T : \A m \in T : ~(<<m, n>> \in R)
  BY <1>3, WFMin
<1>6. ASSUME NEW m \in T PROVE n <= m
  <2>1. m \in Nat /\ n \in Nat
    OBVIOUS
  <2>2. ~(m < n)
    BY <1>4, <1>5, <2>1, Zenon
  <2>3. QED
    BY <2>1, <2>2
<1>7. QED
  BY <1>6

-----------------------------------------------------------------------------
(***************************************************************************)
(* The type below the qualifiers.  A child precedes its parent, so the     *)
(* recursion of Unqualified ends.                                          *)
(***************************************************************************)

Ordered(d) ==
  /\ IsTable(d)
  /\ \A h \in DOMAIN d : d[h].child[1] = "derived" => d[h].child[2] \in 1..(h - 1)

StripBy(d, f, h) ==
  IF d[h].kind \notin Qualifiers THEN Derived(h)
  ELSE IF d[h].child[1] = "derived" THEN f[d[h].child[2]]
  ELSE d[h].child

LEMMA StripUpTo ==
  ASSUME NEW d, Ordered(d), NEW n \in Nat, n <= Len(d)
  PROVE  \E f : f = [h \in 1..n |-> StripBy(d, f, h)]
<1> DEFINE T == {m \in Nat : m <= Len(d) /\ ~\E f : f = [h \in 1..m |-> StripBy(d, f, h)]}
<1>1. Len(d) \in Nat /\ DOMAIN d = 1..Len(d)
  BY TableFacts DEF Ordered
<1>2. SUFFICES ASSUME T # {} PROVE FALSE
  OBVIOUS
<1>3. PICK m \in T : \A i \in T : m <= i
  BY <1>2, LeastNat
<1>4. m # 0
  <2>1. [h \in 1..0 |-> 0] = [h \in 1..0 |-> StripBy(d, [i \in 1..0 |-> 0], h)]
    OBVIOUS
  <2>2. QED
    BY <2>1
<1>5. m - 1 \in Nat /\ m - 1 \notin T /\ m - 1 <= Len(d) /\ m <= Len(d)
  BY <1>1, <1>3, <1>4
<1>6. PICK f : f = [h \in 1..(m - 1) |-> StripBy(d, f, h)]
  BY <1>5
<1> DEFINE e == [h \in 1..m |-> IF h = m THEN StripBy(d, f, m) ELSE f[h]]
<1>7. e = [h \in 1..m |-> StripBy(d, e, h)]
  <2>1. ASSUME NEW h \in 1..m PROVE e[h] = StripBy(d, e, h)
    <3>1. \A i \in 1..(h - 1) : e[i] = f[i]
      BY <1>5
    <3>2. d[h].child[1] = "derived" => d[h].child[2] \in 1..(h - 1)
      BY <1>1, <1>5 DEF Ordered
    <3>3. StripBy(d, e, h) = StripBy(d, f, h)
      BY <3>1, <3>2 DEF StripBy
    <3>4. CASE h = m
      BY <3>3, <3>4
    <3>5. CASE h # m
      <4>1. h \in 1..(m - 1)
        BY <1>5, <3>5
      <4>2. QED
        BY <1>6, <3>3, <3>5, <4>1
    <3>6. QED
      BY <3>4, <3>5
  <2> HIDE DEF e
  <2>2. e = [h \in 1..m |-> e[h]]
    BY DEF e
  <2>3. QED
    BY <2>1, <2>2
<1>8. QED
  BY <1>7

Strip(d) == CHOOSE f : f = [h \in DOMAIN d |-> StripBy(d, f, h)]

LEMMA UnqualifiedIs ==
  ASSUME NEW d, NEW t
  PROVE  Unqualified(d, t) = IF t[1] = "derived" THEN Strip(d)[t[2]] ELSE t
BY DEF Unqualified, Strip, StripBy

LEMMA StripIs ==
  ASSUME NEW d, Ordered(d), NEW h \in DOMAIN d PROVE Strip(d)[h] = StripBy(d, Strip(d), h)
<1>1. Len(d) \in Nat /\ DOMAIN d = 1..Len(d)
  BY TableFacts DEF Ordered
<1>2. \E f : f = [i \in DOMAIN d |-> StripBy(d, f, i)]
  BY <1>1, StripUpTo
<1>3. Strip(d) = [i \in DOMAIN d |-> StripBy(d, Strip(d), i)]
  BY <1>2 DEF Strip
<1>4. QED
  BY <1>3

\* A type keeps what lies below its qualifiers when the table grows.
LEMMA StripKept ==
  ASSUME NEW d, Ordered(d), NEW e, Ordered(e), Grown(d, e), NEW h \in DOMAIN d
  PROVE  Strip(e)[h] = Strip(d)[h]
<1>1. Len(d) \in Nat /\ DOMAIN d = 1..Len(d) /\ Len(e) \in Nat /\ DOMAIN e = 1..Len(e)
  BY TableFacts DEF Ordered
<1>2. \A i \in DOMAIN d : i \in DOMAIN e /\ e[i] = d[i]
  BY <1>1 DEF Grown
<1> DEFINE T == {i \in Nat : i \in DOMAIN d /\ Strip(e)[i] # Strip(d)[i]}
<1>3. SUFFICES ASSUME T # {} PROVE FALSE
  BY <1>1
<1>4. PICK i \in T : \A j \in T : i <= j
  BY <1>3, LeastNat
<1>5. \A j \in 1..(i - 1) : Strip(e)[j] = Strip(d)[j]
  BY <1>1, <1>4
<1>6. Strip(e)[i] = StripBy(e, Strip(e), i) /\ Strip(d)[i] = StripBy(d, Strip(d), i)
  BY <1>2, StripIs
<1>7. d[i].child[1] = "derived" => d[i].child[2] \in 1..(i - 1)
  BY DEF Ordered
<1>8. StripBy(e, Strip(e), i) = StripBy(d, Strip(d), i)
  BY <1>2, <1>5, <1>7 DEF StripBy
<1>9. QED
  BY <1>6, <1>8

-----------------------------------------------------------------------------
(***************************************************************************)
(* A graph in which every type that is mentioned exists, and a graph it    *)
(* has grown into.                                                         *)
(***************************************************************************)

\* The members of a definition lie within their table.
RangeOk(g, h) ==
  /\ IsRange(g.types[h].members)
  /\ g.types[h].members[1] + g.types[h].members[2] <= Len(g.members)

TypesTyped(g) ==
  /\ Ordered(g.derived) /\ IsTable(g.types) /\ IsTable(g.members)
  /\ \A h \in DOMAIN g.derived : HasType(g, g.derived[h].child)
  /\ \A m \in DOMAIN g.members : HasType(g, g.members[m].type)
  /\ \A h \in DOMAIN g.types : g.types[h].defined => RangeOk(g, h)

TypesGrown(g, k) ==
  /\ Grown(g.derived, k.derived) /\ Grown(g.members, k.members)
  /\ \A h \in DOMAIN g.types : h \in DOMAIN k.types
                               /\ (g.types[h].defined => k.types[h] = g.types[h])

LEMMA HasTypeKept ==
  ASSUME NEW g, NEW k, TypesTyped(g), TypesGrown(g, k), NEW t, HasType(g, t)
  PROVE  HasType(k, t)
<1>1. DOMAIN g.derived \subseteq DOMAIN k.derived
  BY TableFacts DEF TypesTyped, TypesGrown, Grown, Ordered
<1>2. QED
  BY <1>1 DEF HasType, TypesGrown

LEMMA StripTyped ==
  ASSUME NEW g, TypesTyped(g), NEW h \in DOMAIN g.derived
  PROVE  HasType(g, Strip(g.derived)[h])
<1>1. PICK d : d = g.derived
  OBVIOUS
<1>2. Ordered(d) /\ Len(d) \in Nat /\ DOMAIN d = 1..Len(d)
  BY <1>1, TableFacts DEF TypesTyped, Ordered
<1> DEFINE T == {i \in Nat : i \in DOMAIN d /\ ~HasType(g, Strip(d)[i])}
<1>3. SUFFICES ASSUME T # {} PROVE FALSE
  BY <1>1, <1>2
<1>4. PICK i \in T : \A j \in T : i <= j
  BY <1>3, LeastNat
<1>5. \A j \in 1..(i - 1) : HasType(g, Strip(d)[j])
  BY <1>2, <1>4
<1>6. Strip(d)[i] = StripBy(d, Strip(d), i)
  BY <1>2, StripIs
<1>7. d[i].child[1] = "derived" => d[i].child[2] \in 1..(i - 1)
  BY <1>2 DEF Ordered
<1>8. HasType(g, d[i].child) /\ HasType(g, Derived(i))
  BY <1>1 DEF TypesTyped, HasType, Derived
<1>9. HasType(g, StripBy(d, Strip(d), i))
  BY <1>5, <1>7, <1>8 DEF StripBy
<1>10. QED
  BY <1>6, <1>9

LEMMA UnqualifiedKept ==
  ASSUME NEW g, NEW k, TypesTyped(g), TypesTyped(k), TypesGrown(g, k), NEW t, HasType(g, t)
  PROVE  /\ HasType(g, Unqualified(g.derived, t))
         /\ Unqualified(k.derived, t) = Unqualified(g.derived, t)
<1>1. PICK d, e : d = g.derived /\ e = k.derived
  OBVIOUS
<1>2. Ordered(d) /\ Ordered(e) /\ Grown(d, e)
  BY <1>1 DEF TypesTyped, TypesGrown
<1>3. /\ Unqualified(d, t) = IF t[1] = "derived" THEN Strip(d)[t[2]] ELSE t
      /\ Unqualified(e, t) = IF t[1] = "derived" THEN Strip(e)[t[2]] ELSE t
  BY UnqualifiedIs
<1>4. CASE t[1] = "derived"
  <2>1. t[2] \in DOMAIN d
    BY <1>1, <1>4 DEF HasType
  <2>2. Strip(e)[t[2]] = Strip(d)[t[2]]
    BY <1>2, <2>1, StripKept
  <2>3. HasType(g, Strip(d)[t[2]])
    BY <1>1, <2>1, StripTyped
  <2>4. QED
    BY <1>1, <1>3, <1>4, <2>2, <2>3
<1>5. CASE t[1] # "derived"
  BY <1>1, <1>3, <1>5
<1>6. QED
  BY <1>4, <1>5

LEMMA KindKept ==
  ASSUME NEW g, NEW k, TypesTyped(g), TypesTyped(k), TypesGrown(g, k), NEW t, HasType(g, t)
  PROVE  /\ KindOf(k.derived, t) = KindOf(g.derived, t)
         /\ t[1] = "derived" => k.derived[t[2]] = g.derived[t[2]]
         /\ t[1] \in {"intrinsic", "named", "derived"}
BY DEF HasType, KindOf, TypesGrown, Grown

\* The members of a type that is defined stay, and they have types.
LEMMA MembersKept ==
  ASSUME NEW g, NEW k, TypesTyped(g), TypesTyped(k), TypesGrown(g, k),
         NEW h \in DOMAIN g.types, g.types[h].defined
  PROVE  /\ MembersOf(k, h) = MembersOf(g, h) /\ Len(MembersOf(g, h)) \in Nat
         /\ \A i \in 1..Len(MembersOf(g, h)) : HasType(g, MembersOf(g, h)[i].type)
<1>1. PICK r, s, t : r = g.types[h].members /\ s = g.members /\ t = k.members
  OBVIOUS
<1>2. PICK b, n : b = r[1] /\ n = r[2]
  OBVIOUS
<1>3. b \in Nat /\ n \in Nat /\ r = <<b, n>> /\ b + n <= Len(s) /\ IsTable(s) /\ Grown(s, t)
  BY <1>1, <1>2, RangeParts DEF TypesTyped, RangeOk, TypesGrown
<1>4. Slice(t, <<b, n>>) = Slice(s, <<b, n>>)
  BY ONLY <1>3, SliceGrown
<1>5. MembersOf(g, h) = Slice(s, <<b, n>>) /\ MembersOf(k, h) = Slice(t, <<b, n>>)
  BY <1>1, <1>3 DEF MembersOf, TypesGrown
<1>6. Len(Slice(s, <<b, n>>)) = n
  BY ONLY <1>3, SliceLength
<1>7. Len(s) \in Nat /\ DOMAIN s = 1..Len(s)
  BY <1>3, TableFacts
<1>8. ASSUME NEW i \in 1..n PROVE Slice(s, <<b, n>>)[i] = s[b + i] /\ b + i \in DOMAIN s
  <2>1. PICK lo, hi : lo = b + 1 /\ hi = b + n /\ lo \in Int /\ hi \in Int
    BY <1>3
  <2>2. \A j \in lo..hi : s[j] \in ToSet(s)
    BY <1>3, <1>7, <2>1 DEF ToSet
  <2>3. \A j \in 1..(hi - lo + 1) : SubSeq(s, lo, hi)[j] = s[lo + j - 1]
    BY <2>1, <2>2, SubSeqProperties
  <2>4. i \in 1..(hi - lo + 1) /\ lo + i - 1 = b + i /\ b + i \in 1..Len(s)
    BY <1>3, <1>7, <2>1
  <2>5. Slice(s, <<b, n>>) = SubSeq(s, lo, hi)
    BY <2>1 DEF Slice
  <2>6. QED
    BY <1>7, <2>3, <2>4, <2>5
<1>9. \A i \in 1..n : HasType(g, Slice(s, <<b, n>>)[i].type)
  BY <1>1, <1>8 DEF TypesTyped
<1>10. QED
  BY <1>3, <1>4, <1>5, <1>6, <1>9

\* A step that leads to a type leads there in every later graph.
LEMMA StepKept ==
  ASSUME NEW g, NEW k, TypesTyped(g), TypesTyped(k), TypesGrown(g, k), NEW type, HasType(g, type),
         NEW step, step[2] \in Nat, Step(g, type, step) # NoType
  PROVE  Step(k, type, step) = Step(g, type, step) /\ HasType(g, Step(g, type, step))
<1>1. PICK t : t = Unqualified(g.derived, type)
  OBVIOUS
<1>2. HasType(g, t) /\ Unqualified(k.derived, type) = t
  BY <1>1, UnqualifiedKept
<1>3. /\ KindOf(k.derived, t) = KindOf(g.derived, t)
      /\ t[1] = "derived" => k.derived[t[2]] = g.derived[t[2]]
      /\ t[1] \in {"intrinsic", "named", "derived"}
  BY <1>2, KindKept
<1>4. CASE step[1] = "member" /\ t[1] = "named" /\ t[2] \in DOMAIN g.types
  <2>1. /\ step[2] < Len(MembersOf(g, t[2]))
        /\ Step(g, type, step) = MembersOf(g, t[2])[step[2] + 1].type
    BY <1>1, <1>4 DEF Step
  <2>2. g.types[t[2]].defined
    <3>1. CASE ~g.types[t[2]].defined
      <4>1. MembersOf(g, t[2]) = <<>>
        BY <3>1 DEF MembersOf
      <4>2. ~(step[2] < 0) /\ Len(<<>>) = 0
        OBVIOUS
      <4>3. QED
        BY <2>1, <4>1, <4>2
    <3>2. QED
      BY <3>1
  <2>3. PICK h, all : h = t[2] /\ all = MembersOf(g, h)
    OBVIOUS
  <2>4. /\ MembersOf(k, h) = all /\ Len(all) \in Nat
        /\ \A i \in 1..Len(all) : HasType(g, all[i].type)
    BY <1>4, <2>2, <2>3, MembersKept
  <2>5. h \in DOMAIN k.types
    BY <1>4, <2>3 DEF TypesGrown
  <2>6. Step(k, type, step) = all[step[2] + 1].type
    BY <1>2, <1>4, <2>1, <2>3, <2>4, <2>5 DEF Step
  <2>7. step[2] + 1 \in 1..Len(all)
    BY <2>1, <2>3, <2>4
  <2>8. QED
    BY <2>1, <2>3, <2>4, <2>6, <2>7
<1>5. CASE step[1] = "index" /\ KindOf(g.derived, t) = "bounded_array"
  <2>1. t[1] = "derived" /\ t[2] \in DOMAIN g.derived
    BY <1>2, <1>3, <1>5 DEF KindOf, HasType
  <2>2. Step(g, type, step) = g.derived[t[2]].child /\ step[2] < g.derived[t[2]].payload
    BY <1>1, <1>5 DEF Step
  <2>3. Step(k, type, step) = g.derived[t[2]].child
    BY <1>2, <1>3, <1>5, <2>1, <2>2 DEF Step
  <2>4. QED
    BY <2>1, <2>2, <2>3 DEF TypesTyped
<1>6. CASE /\ ~(step[1] = "member" /\ t[1] = "named" /\ t[2] \in DOMAIN g.types)
           /\ ~(step[1] = "index" /\ KindOf(g.derived, t) = "bounded_array")
  BY <1>1, <1>6 DEF Step
<1>7. QED
  BY <1>4, <1>5, <1>6

\* Nothing leads on from nowhere.
LEMMA StepNowhere == ASSUME NEW g, NEW step PROVE Step(g, NoType, step) = NoType
<1>1. NoType[1] = "none"
  BY DEF NoType
<1>2. Unqualified(g.derived, NoType) = NoType
  BY <1>1, UnqualifiedIs
<1>3. KindOf(g.derived, NoType) = "none"
  BY <1>1 DEF KindOf
<1>4. QED
  BY <1>1, <1>2, <1>3 DEF Step

-----------------------------------------------------------------------------
(***************************************************************************)
(* Paths                                                                   *)
(***************************************************************************)

WalkBy(g, root, steps, f, n) == IF n = 0 THEN root ELSE Step(g, f[n - 1], steps[n])

LEMMA WalkUpTo ==
  ASSUME NEW g, NEW root, NEW steps, NEW n \in Nat
  PROVE  \E f : f = [i \in 0..n |-> WalkBy(g, root, steps, f, i)]
<1> DEFINE T == {m \in Nat : ~\E f : f = [i \in 0..m |-> WalkBy(g, root, steps, f, i)]}
<1>1. SUFFICES ASSUME T # {} PROVE FALSE
  OBVIOUS
<1>2. PICK m \in T : \A i \in T : m <= i
  BY <1>1, LeastNat
<1>3. m # 0
  <2>1. [i \in 0..0 |-> root] = [i \in 0..0 |-> WalkBy(g, root, steps, [j \in 0..0 |-> root], i)]
    BY DEF WalkBy
  <2>2. QED
    BY <2>1
<1>4. m - 1 \in Nat /\ m - 1 \notin T
  BY <1>2, <1>3
<1>5. PICK f : f = [i \in 0..(m - 1) |-> WalkBy(g, root, steps, f, i)]
  BY <1>4
<1> DEFINE e == [i \in 0..m |-> IF i = m THEN WalkBy(g, root, steps, f, m) ELSE f[i]]
<1>6. e = [i \in 0..m |-> WalkBy(g, root, steps, e, i)]
  <2>1. ASSUME NEW i \in 0..m PROVE e[i] = WalkBy(g, root, steps, e, i)
    <3>1. i # 0 => e[i - 1] = f[i - 1]
      BY <1>4
    <3>2. WalkBy(g, root, steps, e, i) = WalkBy(g, root, steps, f, i)
      BY <3>1 DEF WalkBy
    <3>3. CASE i = m
      BY <3>2, <3>3
    <3>4. CASE i # m
      <4>1. i \in 0..(m - 1)
        BY <1>4, <3>4
      <4>2. QED
        BY <1>5, <3>2, <3>4, <4>1
    <3>5. QED
      BY <3>3, <3>4
  <2> HIDE DEF e
  <2>2. e = [i \in 0..m |-> e[i]]
    BY DEF e
  <2>3. QED
    BY <2>1, <2>2
<1>7. QED
  BY <1>6

Walk(g, root, steps) == CHOOSE f : f = [n \in 0..Len(steps) |-> WalkBy(g, root, steps, f, n)]

LEMMA WalkIs ==
  ASSUME NEW g, NEW root, NEW steps, Len(steps) \in Nat
  PROVE  /\ ResolveEndpointPath(g, root, steps) = Walk(g, root, steps)[Len(steps)]
         /\ Walk(g, root, steps)[0] = root
         /\ \A n \in 1..Len(steps) :
              Walk(g, root, steps)[n] = Step(g, Walk(g, root, steps)[n - 1], steps[n])
<1>1. ResolveEndpointPath(g, root, steps) = Walk(g, root, steps)[Len(steps)]
  BY DEF ResolveEndpointPath, Walk, WalkBy
<1>2. \E f : f = [n \in 0..Len(steps) |-> WalkBy(g, root, steps, f, n)]
  BY WalkUpTo
<1>3. PICK w : w = Walk(g, root, steps)
  OBVIOUS
<1>4. w = [n \in 0..Len(steps) |-> WalkBy(g, root, steps, w, n)]
  BY <1>2, <1>3 DEF Walk
<1>5. w[0] = root
  BY <1>4 DEF WalkBy
<1>6. ASSUME NEW n \in 1..Len(steps) PROVE w[n] = Step(g, w[n - 1], steps[n])
  <2>1. n \in 0..Len(steps) /\ n # 0
    OBVIOUS
  <2>2. w[n] = WalkBy(g, root, steps, w, n)
    BY <1>4, <2>1
  <2>3. QED
    BY <2>1, <2>2 DEF WalkBy
<1>7. QED
  BY <1>1, <1>3, <1>5, <1>6

Steps(steps) == IsTable(steps) /\ \A n \in DOMAIN steps : steps[n][2] \in Nat

\* A path that leads to a type leads there in every later graph.
LEMMA PathKept ==
  ASSUME NEW g, NEW k, TypesTyped(g), TypesTyped(k), TypesGrown(g, k), NEW root, HasType(g, root),
         NEW steps, Steps(steps), HasType(g, ResolveEndpointPath(g, root, steps))
  PROVE  ResolveEndpointPath(k, root, steps) = ResolveEndpointPath(g, root, steps)
<1>1. Len(steps) \in Nat /\ DOMAIN steps = 1..Len(steps)
  BY TableFacts DEF Steps
<1>2. PICK N, w, v : N = Len(steps) /\ w = Walk(g, root, steps) /\ v = Walk(k, root, steps)
  OBVIOUS
<1>3. /\ ResolveEndpointPath(g, root, steps) = w[N] /\ w[0] = root
      /\ \A n \in 1..N : w[n] = Step(g, w[n - 1], steps[n])
  BY <1>1, <1>2, WalkIs
<1>4. /\ ResolveEndpointPath(k, root, steps) = v[N] /\ v[0] = root
      /\ \A n \in 1..N : v[n] = Step(k, v[n - 1], steps[n])
  BY <1>1, <1>2, WalkIs
<1>5. N \in Nat /\ \A n \in 1..N : steps[n][2] \in Nat
  BY <1>1, <1>2 DEF Steps
<1>6. w[N] # NoType
  BY <1>3 DEF HasType, NoType
<1>7. \A n \in 0..N : w[n] # NoType
  <2> DEFINE T == {n \in Nat : n <= N /\ w[N - n] = NoType}
  <2>1. SUFFICES ASSUME T # {} PROVE FALSE
    <3>1. ASSUME NEW n \in 0..N, w[n] = NoType PROVE FALSE
      <4>1. N - n \in Nat /\ N - n <= N /\ N - (N - n) = n
        BY <1>5
      <4>2. QED
        BY <2>1, <3>1, <4>1
    <3>2. QED
      BY <3>1
  <2>2. PICK n \in T : \A i \in T : n <= i
    BY <2>1, LeastNat
  <2>3. n # 0
    BY <1>5, <1>6, <2>2
  <2>4. n - 1 \in Nat /\ n - 1 <= N /\ n - 1 \notin T
    BY <1>5, <2>2, <2>3
  <2>5. PICK m : m = N - n + 1
    OBVIOUS
  <2>6. m \in 1..N /\ m - 1 = N - n /\ m = N - (n - 1)
    BY <1>5, <2>3, <2>5
  <2>7. w[m - 1] = NoType
    BY <2>2, <2>6
  <2>8. w[m] = NoType
    BY <1>3, <2>6, <2>7, StepNowhere
  <2>9. QED
    BY <2>4, <2>6, <2>8
<1>8. \A n \in 0..N : HasType(g, w[n]) /\ v[n] = w[n]
  <2> DEFINE T == {n \in Nat : n <= N /\ ~(HasType(g, w[n]) /\ v[n] = w[n])}
  <2>1. SUFFICES ASSUME T # {} PROVE FALSE
    BY <1>5
  <2>2. PICK n \in T : \A i \in T : n <= i
    BY <2>1, LeastNat
  <2>3. n # 0
    BY <1>3, <1>4, <2>2
  <2>4. n \in 1..N /\ n - 1 \in Nat /\ n - 1 <= N /\ n - 1 \notin T
    BY <1>5, <2>2, <2>3
  <2>5. HasType(g, w[n - 1]) /\ v[n - 1] = w[n - 1]
    BY <2>4
  <2>6. w[n] = Step(g, w[n - 1], steps[n]) /\ v[n] = Step(k, w[n - 1], steps[n])
    BY <1>3, <1>4, <2>4, <2>5
  <2>7. steps[n][2] \in Nat /\ w[n] # NoType
    BY <1>5, <1>7, <2>4
  <2>8. HasType(g, w[n]) /\ v[n] = w[n]
    BY <2>5, <2>6, <2>7, StepKept
  <2>9. QED
    BY <2>2, <2>8
<1>9. QED
  BY <1>3, <1>4, <1>5, <1>8

-----------------------------------------------------------------------------
(***************************************************************************)
(* Links                                                                   *)
(***************************************************************************)

EndpointOk(g, e) ==
  /\ e.object \in DOMAIN g.objects
  /\ IF e.member[1] = "path" THEN e.member[2] \in DOMAIN g.paths ELSE e.member[2] \in Nat

PathTyped(g, r) ==
  /\ HasType(g, r.root) /\ HasType(g, r.value) /\ Steps(r.steps)
  /\ ResolveEndpointPath(g, r.root, r.steps) = r.value

LinkOk(g, r) ==
  /\ EndpointOk(g, r.source) /\ EndpointOk(g, r.target)
  /\ LinkTyped(g, r.source, r.target)

\* Objects, paths and links agree with the types of the graph.
Typed(g) ==
  /\ TypesTyped(g)
  /\ IsTable(g.objects) /\ IsTable(g.paths) /\ IsTable(g.links)
  /\ \A o \in DOMAIN g.objects : HasType(g, g.objects[o].type)
  /\ \A p \in DOMAIN g.paths : PathTyped(g, g.paths[p])
  /\ \A l \in DOMAIN g.links : LinkOk(g, g.links[l])
  /\ \A l, m \in DOMAIN g.links : g.links[l].target = g.links[m].target => l = m

GraphGrown(g, k) ==
  TypesGrown(g, k) /\ Grown(g.objects, k.objects) /\ Grown(g.paths, k.paths)

LEMMA GrownDomain == ASSUME NEW s, IsTable(s), NEW t, Grown(s, t)
                     PROVE  \A i \in DOMAIN s : i \in DOMAIN t /\ t[i] = s[i]
BY TableFacts DEF Grown

LEMMA EndpointKept ==
  ASSUME NEW g, NEW k, Typed(g), TypesTyped(k), GraphGrown(g, k), NEW e, EndpointOk(g, e),
         EndpointType(g, e) # NoType
  PROVE  /\ EndpointOk(k, e) /\ EndpointType(k, e) = EndpointType(g, e)
         /\ HasType(g, EndpointType(g, e))
<1>1. /\ \A o \in DOMAIN g.objects : o \in DOMAIN k.objects /\ k.objects[o] = g.objects[o]
      /\ \A p \in DOMAIN g.paths : p \in DOMAIN k.paths /\ k.paths[p] = g.paths[p]
  BY GrownDomain DEF Typed, GraphGrown
<1>2. EndpointOk(k, e)
  BY <1>1 DEF EndpointOk
<1>3. e.object \in DOMAIN g.objects /\ HasType(g, g.objects[e.object].type)
  BY DEF EndpointOk, Typed
<1>4. CASE e.member[1] = "path"
  <2>1. e.member[2] \in DOMAIN g.paths
    BY <1>4 DEF EndpointOk
  <2>2. EndpointType(k, e) = EndpointType(g, e)
    BY <1>1, <1>3, <1>4, <2>1 DEF EndpointType
  <2>3. EndpointType(g, e) = g.paths[e.member[2]].value
    BY <1>4 DEF EndpointType
  <2>4. QED
    BY <1>2, <2>1, <2>2, <2>3 DEF Typed, PathTyped
<1>5. CASE e.member[1] # "path"
  <2>1. PICK type, step : type = g.objects[e.object].type /\ step = e.member
    OBVIOUS
  <2>2. EndpointType(g, e) = Step(g, type, step) /\ EndpointType(k, e) = Step(k, type, step)
    BY <1>1, <1>3, <1>5, <2>1 DEF EndpointType
  <2>3. step[2] \in Nat /\ HasType(g, type) /\ TypesTyped(g) /\ TypesGrown(g, k)
    BY <1>3, <1>5, <2>1 DEF EndpointOk, Typed, GraphGrown
  <2>4. QED
    BY <1>2, <2>2, <2>3, StepKept
<1>6. QED
  BY <1>4, <1>5

LEMMA LinkKept ==
  ASSUME NEW g, NEW k, Typed(g), TypesTyped(k), GraphGrown(g, k), NEW r, LinkOk(g, r)
  PROVE  LinkOk(k, r)
<1>1. PICK a, b : a = EndpointType(g, r.source) /\ b = EndpointType(g, r.target)
  OBVIOUS
<1>2. a # NoType /\ b # NoType /\ ReferenceBindingCompatible(g.derived, b, a)
  BY <1>1 DEF LinkOk, LinkTyped
<1>3. EndpointOk(k, r.source) /\ EndpointType(k, r.source) = a /\ HasType(g, a)
  BY <1>1, <1>2, EndpointKept DEF LinkOk
<1>4. EndpointOk(k, r.target) /\ EndpointType(k, r.target) = b /\ HasType(g, b)
  BY <1>1, <1>2, EndpointKept DEF LinkOk
<1>5. TypesTyped(g) /\ TypesGrown(g, k)
  BY DEF Typed, GraphGrown
<1>6. /\ KindOf(k.derived, a) = KindOf(g.derived, a)
      /\ a[1] = "derived" => k.derived[a[2]] = g.derived[a[2]]
      /\ a[1] \in {"intrinsic", "named", "derived"}
  BY <1>3, <1>5, KindKept
<1>7. /\ KindOf(k.derived, b) = KindOf(g.derived, b)
      /\ b[1] = "derived" => k.derived[b[2]] = g.derived[b[2]]
      /\ b[1] \in {"intrinsic", "named", "derived"}
  BY <1>4, <1>5, KindKept
<1>8. \A t : t[1] \in {"intrinsic", "named", "derived"} /\ KindOf(g.derived, t) \in References
             => t[1] = "derived"
  BY DEF KindOf, References
<1>9. ReferenceBindingCompatible(k.derived, b, a)
  BY <1>2, <1>6, <1>7, <1>8 DEF ReferenceBindingCompatible
<1>10. QED
  BY <1>2, <1>3, <1>4, <1>9 DEF LinkOk, LinkTyped

\* What a graph has stays typed when it grows; only what is new needs a look.
LEMMA TypedGrows ==
  ASSUME NEW g, NEW k, Typed(g), TypesTyped(k), GraphGrown(g, k), Grown(g.links, k.links),
         \A o \in DOMAIN k.objects \ DOMAIN g.objects : HasType(k, k.objects[o].type),
         \A p \in DOMAIN k.paths \ DOMAIN g.paths : PathTyped(k, k.paths[p]),
         \A l \in DOMAIN k.links \ DOMAIN g.links : LinkOk(k, k.links[l]),
         \A l, m \in DOMAIN k.links : k.links[l].target = k.links[m].target => l = m
  PROVE  Typed(k)
<1>1. /\ \A o \in DOMAIN g.objects : k.objects[o] = g.objects[o]
      /\ \A p \in DOMAIN g.paths : k.paths[p] = g.paths[p]
      /\ \A l \in DOMAIN g.links : k.links[l] = g.links[l]
  BY GrownDomain DEF Typed, GraphGrown
<1>2. TypesTyped(g) /\ TypesGrown(g, k)
  BY DEF Typed, GraphGrown
<1>3. ASSUME NEW o \in DOMAIN k.objects PROVE HasType(k, k.objects[o].type)
  <2>1. CASE o \in DOMAIN g.objects
    <3>1. HasType(g, k.objects[o].type)
      BY <1>1, <2>1 DEF Typed
    <3>2. QED
      BY <1>2, <3>1, HasTypeKept
  <2>2. QED
    BY <2>1
<1>4. ASSUME NEW p \in DOMAIN k.paths PROVE PathTyped(k, k.paths[p])
  <2>1. CASE p \in DOMAIN g.paths
    <3>1. PICK root, steps, value : /\ root = k.paths[p].root /\ steps = k.paths[p].steps
                                    /\ value = k.paths[p].value
      OBVIOUS
    <3>2. /\ HasType(g, root) /\ HasType(g, value) /\ Steps(steps)
          /\ ResolveEndpointPath(g, root, steps) = value
      BY <1>1, <2>1, <3>1 DEF Typed, PathTyped
    <3>3. ResolveEndpointPath(k, root, steps) = value
      BY <1>2, <3>2, PathKept
    <3>4. HasType(k, root) /\ HasType(k, value)
      BY <1>2, <3>2, HasTypeKept
    <3>5. QED
      BY <3>1, <3>2, <3>3, <3>4 DEF PathTyped
  <2>2. QED
    BY <2>1
<1>5. ASSUME NEW l \in DOMAIN k.links PROVE LinkOk(k, k.links[l])
  <2>1. CASE l \in DOMAIN g.links
    <3>1. PICK r : r = k.links[l]
      OBVIOUS
    <3>2. LinkOk(g, r)
      BY <1>1, <2>1, <3>1 DEF Typed
    <3>3. LinkOk(k, r)
      BY <3>2, LinkKept
    <3>4. QED
      BY <3>1, <3>3
  <2>2. QED
    BY <2>1
<1>6. IsTable(k.objects) /\ IsTable(k.paths) /\ IsTable(k.links)
  BY DEF GraphGrown, Grown
<1>7. QED
  BY <1>3, <1>4, <1>5, <1>6 DEF Typed

-----------------------------------------------------------------------------
(***************************************************************************)
(* The operations of a construction                                        *)
(***************************************************************************)

LEMMA SameTypes ==
  ASSUME NEW g, NEW k, TypesTyped(g),
         k.derived = g.derived, k.types = g.types, k.members = g.members
  PROVE  TypesTyped(k) /\ TypesGrown(g, k) /\ \A t : HasType(k, t) <=> HasType(g, t)
<1>1. \A t : HasType(k, t) <=> HasType(g, t)
  BY DEF HasType
<1>2. TypesTyped(k)
  BY <1>1 DEF TypesTyped, RangeOk
<1>3. TypesGrown(g, k)
  BY SameGrown DEF TypesGrown, TypesTyped, Ordered
<1>4. QED
  BY <1>1, <1>2, <1>3

\* An operation on types keeps all else.
LEMMA TypesOnlyTyped ==
  ASSUME NEW g, NEW k, Typed(g), TypesTyped(k), TypesGrown(g, k),
         k.objects = g.objects, k.paths = g.paths, k.links = g.links
  PROVE  Typed(k)
<1>1. GraphGrown(g, k) /\ Grown(g.links, k.links)
  BY SameGrown DEF Typed, GraphGrown
<1>2. \A l, m \in DOMAIN k.links : k.links[l].target = k.links[m].target => l = m
  BY DEF Typed
<1>3. QED
  BY <1>1, <1>2, TypedGrows

LEMMA AppendGrown == ASSUME NEW s, IsTable(s), NEW e PROVE Grown(s, Append(s, e))
<1>1. PICK t : t = Append(s, e)
  OBVIOUS
<1>2. IsTable(t) /\ Len(t) = Len(s) + 1 /\ \A i \in DOMAIN s : t[i] = s[i]
  BY <1>1, AppendTable
<1>3. Len(s) <= Len(t)
  BY <1>2, TableFacts
<1>4. QED
  BY <1>1, <1>2, <1>3 DEF Grown

LEMMA DeclareTyped ==
  ASSUME BaselineInv, Typed(graph), NEW id, NEW kind, graph' = DeclareRecord(graph, id, kind),
         graph' # graph
  PROVE  Typed(graph')
<1> DEFINE e == Undefined(kind)
<1>1. graph' = [graph EXCEPT !.types = Append(@, e), !.typeIds = Append(@, id)]
  BY DEF DeclareRecord
<1>2. e.defined = FALSE
  BY DEF Undefined
<1> HIDE DEF e
<1>3. /\ graph'.types = Append(graph.types, e)
      /\ graph'.derived = graph.derived /\ graph'.members = graph.members
      /\ graph'.objects = graph.objects /\ graph'.paths = graph.paths /\ graph'.links = graph.links
  BY <1>1 DEF BaselineInv, GraphFields
<1>4. IsTable(graph.types) /\ TypesTyped(graph)
  BY DEF Typed, TypesTyped
<1>5. /\ IsTable(graph'.types) /\ DOMAIN graph'.types = DOMAIN graph.types \cup {Len(graph.types) + 1}
      /\ graph'.types[Len(graph.types) + 1] = e
      /\ \A h \in DOMAIN graph.types : graph'.types[h] = graph.types[h]
  BY <1>3, <1>4, AppendTable
<1>6. TypesGrown(graph, graph')
  BY <1>3, <1>4, <1>5, SameGrown DEF TypesGrown, TypesTyped, Ordered
<1>7. \A t : HasType(graph, t) => HasType(graph', t)
  BY <1>4, <1>6, HasTypeKept
<1>8. ASSUME NEW h \in DOMAIN graph'.types, graph'.types[h].defined PROVE RangeOk(graph', h)
  <2>1. h \in DOMAIN graph.types /\ graph'.types[h] = graph.types[h]
    BY <1>2, <1>5, <1>8
  <2>2. QED
    BY <1>3, <1>4, <1>8, <2>1 DEF TypesTyped, RangeOk
<1>9. TypesTyped(graph')
  BY <1>3, <1>4, <1>5, <1>7, <1>8 DEF TypesTyped
<1>10. QED
  BY <1>3, <1>6, <1>9, TypesOnlyTyped

LEMMA DefineTyped ==
  ASSUME BaselineInv, BaselineInv', Typed(graph), NEW h \in DOMAIN graph.types, NEW kind,
         NEW members, IsTable(members), NEW cons, NEW bases, NEW virtual,
         graph' = DefineRecord(graph, h, kind, members, cons, bases, virtual), graph' # graph
  PROVE  Typed(graph')
<1> DEFINE e == [kind |-> kind, defined |-> TRUE, polymorphic |-> Polymorphic(graph, bases, virtual),
                 members |-> <<Len(graph.members), Len(members)>>,
                 bases |-> <<Len(graph.bases), Len(bases)>>]
<1>1. /\ graph' = [graph EXCEPT !.types[h] = e, !.bases = @ \o bases, !.members = @ \o members,
                                !.memberCons = @ \o cons]
      /\ ~graph.types[h].defined
      /\ \A m \in Range(members) : HasType(graph, m.type)
  BY DEF DefineRecord, CanDefine
<1> HIDE DEF e
<1>2. /\ graph'.types = [graph.types EXCEPT ![h] = e] /\ graph'.members = graph.members \o members
      /\ graph'.derived = graph.derived
      /\ graph'.objects = graph.objects /\ graph'.paths = graph.paths /\ graph'.links = graph.links
  BY <1>1 DEF BaselineInv, GraphFields
<1>3. IsTable(graph.types) /\ IsTable(graph.members) /\ TypesTyped(graph) /\ Ordered(graph.derived)
  BY DEF Typed, TypesTyped
<1>4. /\ IsTable(graph'.types) /\ DOMAIN graph'.types = DOMAIN graph.types
      /\ \A i \in DOMAIN graph.types : i # h => graph'.types[i] = graph.types[i]
  BY <1>2, <1>3, UpdateTable
<1>5. Grown(graph.members, graph'.members)
  BY <1>2, <1>3, ConcatGrown
<1>6. TypesGrown(graph, graph')
  BY <1>1, <1>2, <1>3, <1>4, <1>5, SameGrown DEF TypesGrown, Ordered
<1>7. \A t : HasType(graph, t) => HasType(graph', t)
  BY <1>3, <1>6, HasTypeKept
<1>8. ASSUME NEW m \in DOMAIN graph'.members PROVE HasType(graph', graph'.members[m].type)
  <2>1. PICK s, t : s = graph.members /\ t = graph'.members
    OBVIOUS
  <2>2. /\ IsTable(s) /\ t = s \o members /\ IsTable(t) /\ Len(t) = Len(s) + Len(members)
        /\ \A i \in DOMAIN s : t[i] = s[i]
        /\ \A i \in DOMAIN members : t[Len(s) + i] = members[i]
    <3>1. IsTable(s) /\ t = s \o members
      BY <1>2, <1>3, <2>1
    <3>2. /\ IsTable(s \o members) /\ Len(s \o members) = Len(s) + Len(members)
          /\ \A i \in DOMAIN s : i \in DOMAIN (s \o members) /\ (s \o members)[i] = s[i]
          /\ \A i \in DOMAIN members : (s \o members)[Len(s) + i] = members[i]
      <4>1. IsTable(members)
        OBVIOUS
      <4>2. IsTable(s \o members) /\ Len(s \o members) = Len(s) + Len(members)
        BY ONLY <3>1, <4>1, ConcatTable
      <4>3. ASSUME NEW i \in DOMAIN s PROVE i \in DOMAIN (s \o members) /\ (s \o members)[i] = s[i]
        BY ONLY <3>1, <4>1, ConcatTable, i \in DOMAIN s
      <4>4. ASSUME NEW i \in DOMAIN members PROVE (s \o members)[Len(s) + i] = members[i]
        BY ONLY <3>1, <4>1, ConcatTable, i \in DOMAIN members
      <4>5. QED
        BY <4>2, <4>3, <4>4
    <3>3. QED
      BY ONLY <3>1, <3>2
  <2>3. /\ Len(s) \in Nat /\ DOMAIN s = 1..Len(s) /\ DOMAIN members = 1..Len(members)
        /\ Len(members) \in Nat /\ DOMAIN t = 1..(Len(s) + Len(members))
    BY <2>2, TableFacts
  <2>4. CASE m \in DOMAIN s
    BY <1>3, <1>7, <2>1, <2>2, <2>4 DEF TypesTyped
  <2>5. CASE m \notin DOMAIN s
    <3>1. m - Len(s) \in DOMAIN members /\ m = Len(s) + (m - Len(s))
      BY <2>1, <2>3, <2>5
    <3>2. t[m] = members[m - Len(s)]
      BY <2>2, <3>1
    <3>3. members[m - Len(s)] \in Range(members)
      BY <3>1 DEF Range
    <3>4. QED
      BY <1>1, <1>7, <2>1, <3>2, <3>3
  <2>6. QED
    BY <2>4, <2>5
<1>9. \A i \in DOMAIN graph'.types : graph'.types[i].defined => RangeOk(graph', i)
  BY DEF BaselineInv, RangeOk
<1>10. IsTable(graph'.members)
  BY <1>5 DEF Grown
<1>11. TypesTyped(graph')
  BY <1>2, <1>3, <1>4, <1>7, <1>8, <1>9, <1>10 DEF TypesTyped
<1>12. QED
  BY <1>2, <1>6, <1>11, TypesOnlyTyped

LEMMA DeriveTyped ==
  ASSUME BaselineInv, Typed(graph), NEW child, NEW kind, NEW payload,
         graph' = Derive(graph, child, kind, payload), graph' # graph
  PROVE  Typed(graph')
<1> DEFINE r == [child |-> child, kind |-> kind, payload |-> payload]
<1>1. graph' = [graph EXCEPT !.derived = Intern(@, r)] /\ HasType(graph, child)
  BY DEF Derive, CanDerive
<1>2. r.child = child
  OBVIOUS
<1> HIDE DEF r
<1>3. /\ graph'.derived = Intern(graph.derived, r)
      /\ graph'.types = graph.types /\ graph'.members = graph.members
      /\ graph'.objects = graph.objects /\ graph'.paths = graph.paths /\ graph'.links = graph.links
  BY <1>1 DEF BaselineInv, GraphFields
<1>4. TypesTyped(graph) /\ Ordered(graph.derived) /\ IsTable(graph.derived)
      /\ IsTable(graph.types) /\ IsTable(graph.members)
  BY DEF Typed, TypesTyped, Ordered
<1>5. PICK d, e : d = graph.derived /\ e = graph'.derived
  OBVIOUS
<1>6. CASE e = d
  <2>1. TypesTyped(graph') /\ TypesGrown(graph, graph')
    BY <1>3, <1>4, <1>5, <1>6, SameTypes
  <2>2. QED
    BY <1>3, <2>1, TypesOnlyTyped
<1>7. CASE e = Append(d, r)
  <2>1. /\ IsTable(e) /\ DOMAIN e = DOMAIN d \cup {Len(d) + 1} /\ e[Len(d) + 1] = r
        /\ \A h \in DOMAIN d : e[h] = d[h]
    BY <1>4, <1>5, <1>7, AppendTable
  <2>2. Len(d) \in Nat /\ DOMAIN d = 1..Len(d)
    BY <1>4, <1>5, TableFacts
  <2>3. Grown(d, e)
    BY <1>4, <1>5, <1>7, AppendGrown
  <2>4. TypesGrown(graph, graph')
    BY <1>3, <1>4, <1>5, <2>3, SameGrown DEF TypesGrown
  <2>5. \A t : HasType(graph, t) => HasType(graph', t)
    BY <1>4, <2>4, HasTypeKept
  <2>6. ASSUME NEW h \in DOMAIN e
        PROVE  /\ e[h].child[1] = "derived" => e[h].child[2] \in 1..(h - 1)
               /\ HasType(graph', e[h].child)
    <3>1. CASE h \in DOMAIN d
      BY <1>4, <1>5, <2>1, <2>5, <3>1 DEF TypesTyped, Ordered
    <3>2. CASE h = Len(d) + 1
      <4>1. e[h].child = child
        BY <1>2, <2>1, <3>2
      <4>2. child[1] = "derived" => child[2] \in 1..Len(d)
        BY <1>1, <1>5, <2>2 DEF HasType
      <4>3. h - 1 = Len(d)
        BY <2>2, <3>2
      <4>4. QED
        BY <1>1, <2>5, <4>1, <4>2, <4>3
    <3>3. QED
      BY <2>1, <3>1, <3>2
  <2>7. Ordered(e)
    BY <2>1, <2>6 DEF Ordered
  <2>8. TypesTyped(graph')
    BY <1>3, <1>4, <1>5, <2>5, <2>6, <2>7 DEF TypesTyped, RangeOk
  <2>9. QED
    BY <1>3, <2>4, <2>8, TypesOnlyTyped
<1>8. QED
  BY <1>3, <1>5, <1>6, <1>7 DEF Intern

LEMMA ObjectTyped ==
  ASSUME BaselineInv, Typed(graph), NEW id, NEW type, NEW static, NEW initialized, NEW initial,
         graph' = AddObject(graph, id, type, static, initialized, initial), graph' # graph
  PROVE  Typed(graph')
<1> DEFINE e == [type |-> type, static |-> static, initialized |-> initialized,
                 slot |-> IF initialized THEN Len(graph.objectCons) + 1 ELSE 0]
<1>1. /\ graph' = [graph EXCEPT !.objectCons = IF initialized THEN Append(@, initial) ELSE @,
                               !.objects = Append(@, e), !.objectIds = Append(@, id)]
      /\ HasType(graph, type)
  BY DEF AddObject
<1>2. e.type = type
  OBVIOUS
<1> HIDE DEF e
<1>3. /\ graph'.objects = Append(graph.objects, e)
      /\ graph'.types = graph.types /\ graph'.members = graph.members
      /\ graph'.derived = graph.derived /\ graph'.paths = graph.paths /\ graph'.links = graph.links
  BY <1>1 DEF BaselineInv, GraphFields
<1>4. IsTable(graph.objects) /\ IsTable(graph.paths) /\ IsTable(graph.links) /\ TypesTyped(graph)
  BY DEF Typed
<1>5. TypesTyped(graph') /\ TypesGrown(graph, graph') /\ \A t : HasType(graph', t) <=> HasType(graph, t)
  BY <1>3, <1>4, SameTypes
<1>6. /\ DOMAIN graph'.objects = DOMAIN graph.objects \cup {Len(graph.objects) + 1}
      /\ graph'.objects[Len(graph.objects) + 1] = e
  BY <1>3, <1>4, AppendTable
<1>7. GraphGrown(graph, graph') /\ Grown(graph.links, graph'.links)
  BY <1>3, <1>4, <1>5, AppendGrown, SameGrown DEF GraphGrown
<1>8. \A o \in DOMAIN graph'.objects \ DOMAIN graph.objects : HasType(graph', graph'.objects[o].type)
  BY <1>1, <1>2, <1>5, <1>6
<1>9. \A l, m \in DOMAIN graph'.links : graph'.links[l].target = graph'.links[m].target => l = m
  BY <1>3 DEF Typed
<1>10. QED
  BY <1>3, <1>5, <1>7, <1>8, <1>9, TypedGrows

LEMMA PathIsTyped ==
  ASSUME BaselineInv, Typed(graph), NEW root, NEW steps, Steps(steps),
         graph' = InternEndpointPath(graph, root, steps), graph' # graph
  PROVE  Typed(graph')
<1> DEFINE r == [root |-> root, steps |-> steps, value |-> ResolveEndpointPath(graph, root, steps)]
<1>1. /\ graph' = [graph EXCEPT !.paths = Append(@, r)]
      /\ HasType(graph, root) /\ HasType(graph, ResolveEndpointPath(graph, root, steps))
  BY DEF InternEndpointPath
<1>2. r.root = root /\ r.steps = steps /\ r.value = ResolveEndpointPath(graph, root, steps)
  OBVIOUS
<1> HIDE DEF r
<1>3. /\ graph'.paths = Append(graph.paths, r)
      /\ graph'.types = graph.types /\ graph'.members = graph.members
      /\ graph'.derived = graph.derived /\ graph'.objects = graph.objects /\ graph'.links = graph.links
  BY <1>1 DEF BaselineInv, GraphFields
<1>4. IsTable(graph.objects) /\ IsTable(graph.paths) /\ IsTable(graph.links) /\ TypesTyped(graph)
  BY DEF Typed
<1>5. TypesTyped(graph') /\ TypesGrown(graph, graph') /\ \A t : HasType(graph', t) <=> HasType(graph, t)
  BY <1>3, <1>4, SameTypes
<1>6. /\ DOMAIN graph'.paths = DOMAIN graph.paths \cup {Len(graph.paths) + 1}
      /\ graph'.paths[Len(graph.paths) + 1] = r
  BY <1>3, <1>4, AppendTable
<1>7. GraphGrown(graph, graph') /\ Grown(graph.links, graph'.links)
  BY <1>3, <1>4, <1>5, AppendGrown, SameGrown DEF GraphGrown
<1>8. ResolveEndpointPath(graph', root, steps) = ResolveEndpointPath(graph, root, steps)
  BY <1>1, <1>4, <1>5, PathKept
<1>9. PathTyped(graph', r)
  BY <1>1, <1>2, <1>5, <1>8 DEF PathTyped
<1>10. \A p \in DOMAIN graph'.paths \ DOMAIN graph.paths : PathTyped(graph', graph'.paths[p])
  BY <1>6, <1>9
<1>11. \A l, m \in DOMAIN graph'.links : graph'.links[l].target = graph'.links[m].target => l = m
  BY <1>3 DEF Typed
<1>12. QED
  BY <1>3, <1>5, <1>7, <1>10, <1>11, TypedGrows

LEMMA LinkIsTyped ==
  ASSUME BaselineInv, Typed(graph), NEW source, EndpointOk(graph, source),
         NEW target, EndpointOk(graph, target),
         graph' = AddLink(graph, source, target), graph' # graph
  PROVE  Typed(graph')
<1> DEFINE r == [source |-> source, target |-> target]
<1>1. /\ graph' = [graph EXCEPT !.links = Append(@, r)]
      /\ LinkTyped(graph, source, target) /\ FindLinkTarget(graph, target) = 0
  BY DEF AddLink
<1>2. r.source = source /\ r.target = target
  OBVIOUS
<1> HIDE DEF r
<1>3. /\ graph'.links = Append(graph.links, r)
      /\ graph'.types = graph.types /\ graph'.members = graph.members
      /\ graph'.derived = graph.derived /\ graph'.objects = graph.objects /\ graph'.paths = graph.paths
  BY <1>1 DEF BaselineInv, GraphFields
<1>4. IsTable(graph.objects) /\ IsTable(graph.paths) /\ IsTable(graph.links) /\ TypesTyped(graph)
  BY DEF Typed
<1>5. TypesTyped(graph') /\ TypesGrown(graph, graph')
  BY <1>3, <1>4, SameTypes
<1>6. PICK s, t : s = graph.links /\ t = graph'.links
  OBVIOUS
<1>7. /\ DOMAIN t = DOMAIN s \cup {Len(s) + 1} /\ t[Len(s) + 1] = r
      /\ \A l \in DOMAIN s : t[l] = s[l]
  BY <1>3, <1>4, <1>6, AppendTable
<1>8. GraphGrown(graph, graph') /\ Grown(graph.links, graph'.links)
  BY <1>3, <1>4, <1>5, AppendGrown, SameGrown DEF GraphGrown
<1>9. LinkOk(graph', r)
  <2>1. LinkOk(graph, r)
    BY <1>1, <1>2 DEF LinkOk
  <2>2. QED
    BY <1>5, <1>8, <2>1, LinkKept
<1>10. \A l \in DOMAIN graph'.links \ DOMAIN graph.links : LinkOk(graph', graph'.links[l])
  BY <1>6, <1>7, <1>9
<1>11. \A l \in DOMAIN s : s[l].target # target
  <2>1. PICK targets : targets = [l \in DOMAIN graph.links |-> graph.links[l].target]
    OBVIOUS
  <2>2. SlotOf(targets, target) = 0
    BY <1>1, <2>1 DEF FindLinkTarget
  <2>3. DOMAIN targets = DOMAIN s /\ \A l \in DOMAIN s : targets[l] = s[l].target /\ l # 0
    BY <1>4, <1>6, <2>1, TableFacts
  <2>4. QED
    BY <2>2, <2>3 DEF SlotOf
<1>12. \A l, m \in DOMAIN s : s[l].target = s[m].target => l = m
  BY <1>6 DEF Typed
<1>13. \A l, m \in DOMAIN t : t[l].target = t[m].target => l = m
  BY <1>2, <1>7, <1>11, <1>12
<1>14. QED
  BY <1>3, <1>5, <1>6, <1>8, <1>10, <1>13, TypedGrows

LEMMA TypedStep ==
  ASSUME BaselineInv, BaselineInv', Typed(graph), [GraphNext]_graphVars PROVE Typed(graph')
<1>1. CASE FillRecord
  <2>1. ASSUME NEW id \in TypeIds, NEW kind \in Kinds, Fill(DeclareRecord(graph, id, kind))
        PROVE  Typed(graph')
    BY <2>1, DeclareTyped DEF Fill
  <2>2. ASSUME NEW h \in DOMAIN graph.types, NEW kind \in Kinds, NEW def \in Definitions,
               NEW virtual \in BOOLEAN, NEW bases \in {<<>>} \cup {<<b>> : b \in DOMAIN graph.types},
               Fill(DefineRecord(graph, h, kind, def.members, def.cons, bases, virtual))
        PROVE  Typed(graph')
    <3>1. IsTable(def.members)
      BY GraphMenus
    <3>2. QED
      BY <2>2, <3>1, DefineTyped DEF Fill
  <2>3. ASSUME NEW r \in Derivations, Fill(Derive(graph, r.child, r.kind, r.payload))
        PROVE  Typed(graph')
    BY <2>3, DeriveTyped DEF Fill
  <2>4. QED
    BY <1>1, <2>1, <2>2, <2>3 DEF FillRecord
<1>2. CASE FillObject
  <2>1. ASSUME NEW id \in ObjectIds, NEW type \in ObjectTypes, NEW init \in Initials,
               Fill(AddObject(graph, id, type, init.static, init.initialized, init.initial))
        PROVE  Typed(graph')
    BY <2>1, ObjectTyped DEF Fill
  <2>2. ASSUME NEW p \in Paths, Fill(InternEndpointPath(graph, p.root, p.steps)) PROVE Typed(graph')
    <3>1. Steps(p.steps)
      BY GraphMenus DEF Steps
    <3>2. QED
      BY <2>2, <3>1, PathIsTyped DEF Fill
  <2>3. ASSUME NEW source \in EndpointsOf(graph), NEW target \in EndpointsOf(graph),
               Fill(AddLink(graph, source, target))
        PROVE  Typed(graph')
    <3>1. \A e \in EndpointsOf(graph) : EndpointOk(graph, e)
      <4>1. ASSUME NEW e \in EndpointsOf(graph) PROVE EndpointOk(graph, e)
        <5>1. /\ e.object \in DOMAIN graph.objects
              /\ e.member \in MemberSteps \/ \E p \in DOMAIN graph.paths : e.member = <<"path", p>>
          BY DEF EndpointsOf
        <5>2. CASE e.member \in MemberSteps
          <6>1. e.member[1] = "member" /\ e.member[2] \in Nat
            BY <5>2, GraphBounds DEF MemberSteps
          <6>2. QED
            BY <5>1, <6>1 DEF EndpointOk
        <5>3. QED
          BY <5>1, <5>2 DEF EndpointOk
      <4>2. QED
        BY <4>1
    <3>2. QED
      BY <2>3, <3>1, LinkIsTyped DEF Fill
  <2>4. QED
    BY <1>2, <2>1, <2>2, <2>3 DEF FillObject
<1>3. CASE UNCHANGED graph
  BY <1>3
<1>4. CASE BindBaseline \/ UNCHANGED graphVars
  BY <1>3, <1>4 DEF BindBaseline, graphVars
<1>5. CASE Edit
  <2>1. UNCHANGED graph
    BY <1>5 DEF Edit, EditRecord, EditObject, DeltaDeclareRecord, ClearDefinition, RetireType,
                DeltaDefineRecord, DeltaDerive, DeltaAddObject, RetireObject, DeltaAddLink, RetireLink
  <2>2. QED
    BY <1>3, <2>1
<1>6. QED
  BY <1>1, <1>2, <1>4, <1>5 DEF GraphNext

\* For every menu of types, definitions, objects and paths and any number of
\* operations, a link of the dense graph keeps the types it was checked with
\* although types are declared, derived and defined after it, no two links have
\* one target, and an interned path leads where it led when it was interned
\* (graph::add_link, graph::intern_endpoint_path, graph::define_record).
THEOREM LinksKeepTheirTypes == GraphSpec => []LinksStayTyped
<1>1. GraphInit => Typed(graph)
  <2>1. SUFFICES ASSUME GraphInit PROVE Typed(graph)
    OBVIOUS
  <2>2. /\ graph.derived = <<>> /\ graph.types = <<>> /\ graph.members = <<>>
        /\ graph.objects = <<>> /\ graph.paths = <<>> /\ graph.links = <<>>
    BY <2>1 DEF GraphInit, EmptyGraph
  <2>3. IsTable(<<>>) /\ DOMAIN <<>> = {}
    BY EmptyTable
  <2>4. QED
    BY <2>2, <2>3 DEF Typed, TypesTyped, Ordered
<1>2. BaselineInv /\ BaselineInv' /\ Typed(graph) /\ [GraphNext]_graphVars => Typed(graph)'
  BY TypedStep
<1>3. Typed(graph) => LinksStayTyped
  <2>1. SUFFICES ASSUME Typed(graph) PROVE LinksStayTyped
    OBVIOUS
  <2>2. \A l \in DOMAIN graph.links : LinkTyped(graph, graph.links[l].source, graph.links[l].target)
    BY <2>1 DEF Typed, LinkOk
  <2>3. IsInjective([l \in DOMAIN graph.links |-> graph.links[l].target])
    BY <2>1 DEF Typed, IsInjective
  <2>4. QED
    BY <2>1, <2>2, <2>3 DEF LinksStayTyped, Typed, PathTyped
<1>4. QED
  BY <1>1, <1>2, <1>3, GraphInvariant, PTL DEF GraphSpec
=============================================================================
