----------------------------- MODULE RuntimeIc -----------------------------
(***************************************************************************)
(* Initial conditions of the Runtime: SNAP_IC writes every scalar of the   *)
(* resident Runtime to a file under its semantic path, RESET_IC resolves   *)
(* those paths against the Project that is loaded THEN, possibly another   *)
(* version of it, and writes the values back; GET_VALUE reads one scalar.  *)
(*                                                                         *)
(* A schema stands for the compiled graph: its record types with bases and *)
(* members, and its objects.  A location (the path of an object, then one  *)
(* step per base or member entered) stands for a Runtime offset: distinct  *)
(* scalars have distinct offsets, which is the promise of the layout.  A   *)
(* value is an intrinsic type and a stamp, the place and time it was       *)
(* written.                                                                *)
(***************************************************************************)
EXTENDS Naturals, FiniteSets, Sequences, SequencesExt

CONSTANTS
    Schemas,        \* the compiled Projects that may be loaded
    Near(_),        \* the schemas a rebuild of a schema may give
    LongDoubleSize, \* bytes of a long double: 8 on Windows, 16 on POSIX
    MaxWrites,      \* bound: how often other processes rewrite the Runtime
    MaxSnaps,       \* bound: SNAP_IC commands
    MaxRebuilds     \* bound: REBUILD commands

ResetOptions == {"constants", "variables", "defaults"}

TypeCount(s) == Cardinality(DOMAIN s.types)
Members(s) == UNION {ToSet(s.types[t].members) : t \in DOMAIN s.types}

InBase(type) == <<"base", type>>
InMember(name) == <<"member", name>>

-----------------------------------------------------------------------------
(* Resolution of a semantic path.                                          *)

\* What a search or a resolution step ends with; a step passes a failure on.
Outcome(status) == [status |-> status]
Is(r, status) == r.status = status

\* The answers of the bases, in order. The search ends at the first that is invalid
\* or ambiguous, or that finds the name when one before has.
Combine(answers) ==
    LET found == {i \in DOMAIN answers : Is(answers[i], "found")}
        broken == {i \in DOMAIN answers : answers[i].status \in {"invalid", "ambiguous"}}
        ends == broken \cup {i \in found : \E j \in found : j < i}
    IN  IF ends # {} THEN Outcome(IF Min(ends) \in broken THEN answers[Min(ends)].status
                                                          ELSE "ambiguous")
        ELSE IF found # {} THEN answers[CHOOSE i \in found : TRUE]
        ELSE Outcome("none")

Below(base, found) ==
    IF Is(found, "found") THEN [found EXCEPT !.loc = <<InBase(base)>> \o @] ELSE found

\* One record: the own member wins; a virtual base makes the search invalid. deeper
\* has the answers of the search one level down.
SearchRecord(entry, name, deeper) ==
    LET own == {m \in ToSet(entry.members) : m.name = name}
        member == CHOOSE m \in own : TRUE
        Answer(base) == IF base.virtual THEN Outcome("invalid")
                        ELSE Below(base.type, deeper[base.type])
    IN  IF own # {}
          THEN [status |-> "found", loc |-> <<InMember(name)>>, type |-> member.type,
                plain |-> member.plain]
          ELSE Combine([i \in DOMAIN entry.bases |-> Answer(entry.bases[i])])

\* A search that is deeper than there are types is invalid.
FindMember(schema, type, name) ==
    LET search[n \in 0 .. TypeCount(schema) + 1] ==
            [t \in DOMAIN schema.types |->
                IF n = 0 THEN Outcome("invalid")
                ELSE SearchRecord(schema.types[t], name, search[n - 1])]
    IN  search[TypeCount(schema) + 1][type]

\* The object of a path: the state every member step starts from. The const of
\* the declared type is taken into account by the step that strips it.
ResolveObject(schema, object) ==
    LET same == {o \in ToSet(schema.objects) : o.path = object}
        found == CHOOSE o \in same : TRUE
    IN  IF same = {}
          THEN Outcome("not_found")
          ELSE [status |-> "success", loc |-> <<object>>, type |-> found.type,
                const |-> FALSE, plain |-> found.plain]

\* Mutant: the const of the types entered before is forgotten.
Enter_ForgetsConst(state, m) ==
    CASE Is(m, "none") -> Outcome("not_found")
      [] Is(m, "ambiguous") -> Outcome("invalid_input")
      [] Is(m, "invalid") -> Outcome("invalid_runtime")
      [] OTHER -> [status |-> "success", loc |-> state.loc \o m.loc, type |-> m.type,
                   const |-> FALSE, plain |-> m.plain]

\* What the search found, entered from a state.
Enter(state, m) ==
    CASE Is(m, "none") -> Outcome("not_found")
      [] Is(m, "ambiguous") -> Outcome("invalid_input")
      [] Is(m, "invalid") -> Outcome("invalid_runtime")
      [] OTHER -> [status |-> "success", loc |-> state.loc \o m.loc, type |-> m.type,
                   const |-> state.const \/ state.type.const, plain |-> m.plain]

\* One member name further.
MemberStep(schema, state, name) ==
    CASE ~Is(state, "success") -> state
      [] Is(state, "success") /\ state.type.kind # "named" -> Outcome("unsupported_type")
      [] OTHER -> Enter(state, FindMember(schema, state.type.of, name))

\* The end of a path must be a scalar.
FinishScalar(state) ==
    CASE ~Is(state, "success") -> state
      [] Is(state, "success") /\ state.type.kind # "intrinsic" -> Outcome("unsupported_type")
      [] OTHER -> [status |-> "success", loc |-> state.loc, type |-> state.type.of,
                   const |-> state.const \/ state.type.const, plain |-> state.plain]

\* Mutant: a reference is taken for the scalar it refers to without following it.
Normalize_InPlace(state) ==
    IF Is(state, "success") /\ state.type.kind = "reference"
      THEN [state EXCEPT !.type = state.type.to]
      ELSE state

\* GET_VALUE goes through a reference to what it refers to.
Normalize(state) ==
    IF Is(state, "success") /\ state.type.kind = "reference"
      THEN [state EXCEPT !.loc = state.type.at, !.type = state.type.to]
      ELSE state

\* The states from a first one on along member names, through references or not.
Follow(schema, start, names, through) ==
    LET state[n \in 0 .. Len(names)] ==
            IF n = 0 THEN start
            ELSE MemberStep(schema, IF through THEN Normalize(state[n - 1]) ELSE state[n - 1],
                            names[n])
    IN  state

\* resolve_runtime_ic_scalar: the scalar a path names, or why it names none.
Resolve(schema, object, members) ==
    FinishScalar(Follow(schema, ResolveObject(schema, object), members, FALSE)[Len(members)])

\* GET_VALUE answers with 64 bits; a long double is the only scalar with more.
FitsInAnswer(type) == type = "long_double" => LongDoubleSize <= 8

FinishQuery(state) ==
    IF Is(state, "success") /\ state.type.kind = "intrinsic" /\ ~FitsInAnswer(state.type.of)
      THEN Outcome("unsupported_type")
      ELSE FinishScalar(state)

\* get_runtime_value: the same search with the references followed.
Query(schema, object, members) ==
    FinishQuery(Normalize(
        Follow(schema, ResolveObject(schema, object), members, TRUE)[Len(members)]))

-----------------------------------------------------------------------------
(* SNAP_IC: the walk over the objects.                                     *)

\* Mutant: a path below a base is kept when it resolves, wherever to.
Addresses_Anything(target, loc, type) == Is(target, "success")

\* Below a base a path may name another member, or nothing.
Addresses(target, loc, type) ==
    Is(target, "success") /\ target.loc = loc /\ target.type = type

\* Visits of a part, seen from what it is a part of.
Shift(visits, members, loc, inherited) ==
    [i \in DOMAIN visits |->
        [visits[i] EXCEPT !.members = members \o @, !.loc = loc \o @, !.depth = @ + 1,
                          !.inherited = @ \/ inherited]]

\* What native_walk_type and native_walk_record visit, in order; below has the
\* visits of the records one level down.
WalkType(type, below) ==
    <<[members |-> <<>>, loc |-> <<>>, type |-> type, inherited |-> FALSE, depth |-> 0]>>
      \o IF type.kind = "named" THEN Shift(below[type.of], <<>>, <<>>, FALSE) ELSE <<>>

WalkRecord(type, entry, below) ==
    LET Base(b) == IF b.virtual THEN <<>> ELSE Shift(below[b.type], <<>>, <<InBase(b.type)>>, TRUE)
        Member(m) == Shift(WalkType(m.type, below), <<m.name>>, <<InMember(m.name)>>, FALSE)
    IN  <<[members |-> <<>>, loc |-> <<>>, type |-> type, inherited |-> FALSE, depth |-> 0]>>
          \o FlattenSeq([i \in DOMAIN entry.bases |-> Base(entry.bases[i])])
          \o FlattenSeq([i \in DOMAIN entry.members |-> Member(entry.members[i])])

NamedType(t) == [kind |-> "named", of |-> t, const |-> FALSE]

\* No record contains itself, so the walk is done when every type was entered.
WalkTree(schema, type) ==
    LET records[n \in 0 .. TypeCount(schema)] ==
            [t \in DOMAIN schema.types |->
                IF n = 0 THEN <<>>
                ELSE WalkRecord(NamedType(t), schema.types[t], records[n - 1])]
    IN  WalkType(type, records[TypeCount(schema)])

\* The derived types of the Project: one for a const, a pointer or a reference.
DerivedTypes(schema) ==
    LET declared == {d.type : d \in Members(schema) \cup ToSet(schema.objects)}
        referred == {t.to : t \in {t \in declared : t.kind = "reference"}}
    IN  {t \in declared \cup referred : t.const \/ t.kind \in {"structural", "reference"}}

\* The limit counts a member of record type twice: one step to the member's type and
\* one to its record.
TooDeep(schema, visit) == visit.depth > TypeCount(schema) + Cardinality(DerivedTypes(schema)) + 1

\* A scalar met by the walk; one that its path does not address is skipped.
EmitScalar(schema, object, visit) ==
    LET loc == <<object>> \o visit.loc IN
    IF \/ visit.type.kind # "intrinsic" \/ visit.type.of = "nullptr"
       \/ visit.inherited
            /\ ~Addresses(Resolve(schema, object, visit.members), loc, visit.type.of)
      THEN <<>>
      ELSE <<[object |-> object, members |-> visit.members, loc |-> loc, type |-> visit.type.of]>>

\* The walk gives up below its limit.
WalkRefused(schema) ==
    \E o \in ToSet(schema.objects) : \E v \in ToSet(WalkTree(schema, o.type)) : TooDeep(schema, v)

\* Every addressable scalar of the Project, in the order of the walk.
SnapshotPaths(schema) ==
    FlattenSeq([i \in DOMAIN schema.objects |->
        LET o == schema.objects[i]
            visits == WalkTree(schema, o.type)
        IN  FlattenSeq([j \in DOMAIN visits |-> EmitScalar(schema, o.path, visits[j])])])

\* The scalars with the values the Runtime holds.
Capture(paths, memory) ==
    [i \in DOMAIN paths |-> [object |-> paths[i].object, members |-> paths[i].members,
                             value |-> memory[paths[i].loc]]]
Snapshot(schema, memory) == Capture(SnapshotPaths(schema), memory)

\* The image: a table of the distinct names in the order of their first use, and
\* the paths as indexes into it.
NamesInOrder(names) ==
    FlattenSeq([i \in DOMAIN names |->
                  IF \E j \in 1 .. i - 1 : names[j] = names[i] THEN <<>> ELSE <<names[i]>>])

EncodeWith(strings, records) ==
    LET Local(names) == [i \in DOMAIN names |-> CHOOSE k \in DOMAIN strings : strings[k] = names[i]]
    IN  [strings |-> strings,
         records |-> [i \in DOMAIN records |-> [object |-> Local(records[i].object),
                                                members |-> Local(records[i].members),
                                                value |-> records[i].value]]]
Encode(records) ==
    EncodeWith(NamesInOrder(FlattenSeq([i \in DOMAIN records |->
                                           records[i].object \o records[i].members])), records)

-----------------------------------------------------------------------------
(* RESET_IC: every record is resolved before the first one is written.     *)

\* The string table of the compiled Project.
Strings(schema) ==
    (UNION {ToSet(o.path) : o \in ToSet(schema.objects)})
      \cup {m.name : m \in Members(schema)}

\* An option keeps a category of scalars as it is in the Runtime.
Excluded(target, options) ==
    \/ "constants" \in options /\ target.const
    \/ "variables" \in options /\ ~target.const
    \/ "defaults" \in options /\ target.plain

\* Mutant: the types are not compared.
Verdict_Untyped(target, value, options) ==
    CASE ~Is(target, "success") -> target.status
      [] Is(target, "success") /\ Excluded(target, options) -> "excluded"
      [] OTHER -> "write"

\* What becomes of one resolved record: kept out, written, or why it ends the plan.
Verdict(target, value, options) ==
    CASE ~Is(target, "success") -> target.status
      [] Is(target, "success") /\ Excluded(target, options) -> "excluded"
      [] Is(target, "success") /\ ~Excluded(target, options) /\ target.type # value.type -> "type_mismatch"
      [] OTHER -> "write"

\* The plan of the records with these targets ends with the first that fails.
PlanWrites(targets, records, options) ==
    LET Judged(i) == Verdict(targets[i], records[i].value, options)
        failed == {i \in DOMAIN records : Judged(i) \notin {"excluded", "write"}}
        count == IF failed = {} THEN Len(records) ELSE Min(failed) - 1
    IN  [status |-> IF failed = {} THEN "success" ELSE Judged(Min(failed)),
         writes |-> FlattenSeq([i \in 1 .. count |->
                        IF Judged(i) = "excluded" THEN <<>>
                        ELSE <<[loc |-> targets[i].loc, value |-> records[i].value]>>])]

\* reset_runtime_ic_records: every record resolved from its object on.
PlanRecords(schema, records, options) ==
    PlanWrites([i \in DOMAIN records |-> Resolve(schema, records[i].object, records[i].members)],
               records, options)

CommonPrefix(left, right) ==
    CHOOSE k \in 0..Len(left) :
        /\ k <= Len(right) /\ SubSeq(left, 1, k) = SubSeq(right, 1, k)
        /\ k < Len(left) /\ k < Len(right) => left[k + 1] # right[k + 1]

NamesOf(text, ids) == [i \in DOMAIN ids |-> text[ids[i]]]

\* The states along a path: entry 1 is the object, entry n + 1 the n-th member.
Extend(schema, states, names) ==
    LET further == Follow(schema, Last(states), names, FALSE)
    IN  states \o [i \in 1 .. Len(names) |-> further[i]]

\* Mutant: the prefix is kept without comparing the objects.
SharedMembers_AnyObject(cache, r) ==
    IF cache.states # <<>> THEN 1 + CommonPrefix(cache.members, r.members) ELSE 0

\* How many states of the record before are states of this record too: none if the
\* objects differ, else that of the object and those of the members they share.
SharedMembers(cache, r) ==
    IF cache.object = r.object THEN 1 + CommonPrefix(cache.members, r.members) ELSE 0

\* The states of a record: the shared ones are kept, the rest is resolved.
PathStates(schema, cache, r, text) ==
    LET shared == SharedMembers(cache, r) IN
    IF shared = 0
      THEN Extend(schema, <<ResolveObject(schema, NamesOf(text, r.object))>>, NamesOf(text, r.members))
      ELSE Extend(schema, SubSeq(cache.states, 1, shared),
                  NamesOf(text, SubSeq(r.members, shared, Len(r.members))))

\* The path of a record and its states, kept for the next one.
Cached(r, states) == [object |-> r.object, members |-> r.members, states |-> states]
NoCache == [object |-> <<>>, members |-> <<>>, states |-> <<>>]

\* reset_runtime_ic_binary.
PlanBinary(schema, image, options) ==
    LET states[n \in 0 .. Len(image.records)] ==
            IF n = 0 THEN <<>>
            ELSE PathStates(schema, IF n = 1 THEN NoCache ELSE Cached(image.records[n - 1], states[n - 1]),
                            image.records[n], image.strings)
    IN  IF ~(ToSet(image.strings) \subseteq Strings(schema))
          THEN [status |-> "not_found", writes |-> <<>>]
          ELSE PlanWrites([i \in DOMAIN image.records |-> FinishScalar(Last(states[i]))],
                          image.records, options)

\* Mutant: the loop over the writes ends one early.
Apply_ButLast(memory, plan) ==
    LET Writes(l) == {i \in DOMAIN plan.writes : plan.writes[i].loc = l /\ i < Len(plan.writes)}
    IN  [l \in DOMAIN memory |-> IF Writes(l) = {} THEN memory[l]
                                                  ELSE plan.writes[Max(Writes(l))].value]

\* The writes of a complete plan, in order: the last one to a location stays.
Apply(memory, plan) ==
    LET Writes(l) == {i \in DOMAIN plan.writes : plan.writes[i].loc = l}
    IN  [l \in DOMAIN memory |-> IF Writes(l) = {} THEN memory[l]
                                                  ELSE plan.writes[Max(Writes(l))].value]

-----------------------------------------------------------------------------
(* The Server's commands, the file, and the processes that share the       *)
(* Runtime with the Server.                                                *)

VARIABLES
    schema,     \* the resident Project
    memory,     \* the resident Runtime: location -> value
    file,       \* the IC file: absent, empty, torn or a whole image
    pc,         \* where server::snap_ic stands
    captured,   \* the image it has encoded and not yet written out
    status,     \* what the last command answered
    time, snaps, rebuilds

vars == <<schema, memory, file, pc, captured, status, time, snaps, rebuilds>>
counters == <<time, snaps, rebuilds>>

\* The declarations of the Project with their locations: the objects, then part by
\* part the bases and members of what is a record, with the const that reaches them
\* from outside. (Virtual bases are left out: no command reaches them.)
ObjectPlaces(s) ==
    {[loc |-> <<o.path>>, type |-> o.type, const |-> FALSE, plain |-> o.plain] : o \in ToSet(s.objects)}

PartsOf(s, p) ==
    LET entry == s.types[p.type.of]
        const == p.const \/ p.type.const
    IN  IF p.type.kind # "named" THEN {}
        ELSE {[loc |-> Append(p.loc, InBase(b.type)), type |-> [p.type EXCEPT !.of = b.type],
               const |-> const, plain |-> p.plain] : b \in {b \in ToSet(entry.bases) : ~b.virtual}}
          \cup {[loc |-> Append(p.loc, InMember(m.name)), type |-> m.type,
                 const |-> const, plain |-> m.plain] : m \in ToSet(entry.members)}

Places(s) ==
    LET level[n \in 0 .. TypeCount(s)] ==
            IF n = 0 THEN ObjectPlaces(s) ELSE UNION {PartsOf(s, p) : p \in level[n - 1]}
    IN  UNION {level[n] : n \in 0 .. TypeCount(s)}

\* The scalars, addressable or not.
ProjectCells(s) ==
    {[loc |-> p.loc, type |-> p.type.of, const |-> p.const \/ p.type.const, plain |-> p.plain] :
        p \in {p \in Places(s) : p.type.kind = "intrinsic"}}

\* What a construction accepts: names are distinct (the parser), bases are distinct
\* and defined before (the graph), no record contains itself (the layout), and a
\* reference is bound to a place of the type it refers to (the materializer).
TypeAccepted(s, type) ==
    \/ type \in [kind : {"intrinsic", "structural"}, of : STRING, const : BOOLEAN]
    \/ type \in [kind : {"named"}, of : DOMAIN s.types, const : BOOLEAN]
    \/ /\ type \in [kind : {"reference"}, of : {"reference"}, const : BOOLEAN,
                     at : {type.at}, to : {type.to}]
       /\ type.to.const \in BOOLEAN
       /\ \E p \in Places(s) : /\ p.loc = type.at
                              /\ p.type.kind = type.to.kind /\ p.type.of = type.to.of
                              /\ p.type.kind # "reference"

RecordAccepted(s, entry) ==
    /\ entry.bases \in Seq([type : DOMAIN s.types, virtual : BOOLEAN])
    /\ entry.members \in Seq([name : STRING, type : {m.type : m \in ToSet(entry.members)},
                              plain : BOOLEAN])
    /\ \A m \in ToSet(entry.members) : TypeAccepted(s, m.type)
    /\ \A i, j \in DOMAIN entry.bases : entry.bases[i].type = entry.bases[j].type => i = j
    /\ \A i, j \in DOMAIN entry.members : entry.members[i].name = entry.members[j].name => i = j

NoneContainsItself(s, height) ==
    \A t \in DOMAIN s.types :
        /\ \A b \in ToSet(s.types[t].bases) : height[b.type] < height[t]
        /\ \A m \in ToSet(s.types[t].members) :
              m.type.kind = "named" => height[m.type.of] < height[t]

SchemaAccepted(s) ==
    /\ IsFiniteSet(DOMAIN s.types) /\ DOMAIN s.types \subseteq STRING
    /\ \A t \in DOMAIN s.types : RecordAccepted(s, s.types[t])
    /\ \E height \in [DOMAIN s.types -> 0 .. TypeCount(s) - 1] : NoneContainsItself(s, height)
    /\ s.objects \in Seq([path : Seq(STRING), type : {o.type : o \in ToSet(s.objects)},
                           plain : BOOLEAN])
    /\ \A o \in ToSet(s.objects) : o.path # <<>> /\ TypeAccepted(s, o.type)
    /\ \A i, j \in DOMAIN s.objects : s.objects[i].path = s.objects[j].path => i = j

ASSUME RuntimeIcBounds == {MaxWrites, MaxSnaps, MaxRebuilds} \subseteq Nat

ASSUME LongDoubleSizes == LongDoubleSize \in {8, 16}

ASSUME SchemasAccepted ==
    \A s \in Schemas : SchemaAccepted(s) /\ Near(s) \subseteq Schemas

\* The values a process leaves at a time; time 0 is the materialized Runtime.
Filled(s, t) ==
    [l \in {c.loc : c \in ProjectCells(s)} |->
        [type |-> (CHOOSE c \in ProjectCells(s) : c.loc = l).type, stamp |-> <<l, t>>]]

NoImage == [strings |-> <<>>, records |-> <<>>]

Init ==
    /\ schema \in Schemas
    /\ memory = Filled(schema, 0)
    /\ file = [state |-> "absent", image |-> NoImage]
    /\ pc = "idle" /\ captured = NoImage /\ status = "none"
    /\ time = 0 /\ snaps = 0 /\ rebuilds = 0

\* The processes that map the shared memory rewrite the Runtime at any moment.
ProcessWrites ==
    /\ time < MaxWrites
    /\ time' = time + 1 /\ memory' = Filled(schema, time')
    /\ UNCHANGED <<schema, file, pc, captured, status, snaps, rebuilds>>

\* UNLOAD and a successful REBUILD after it (a REBUILD is refused while a Project is
\* resident): another Project and its own Runtime. (Between the two the commands
\* below return at once for want of a Project: ServerRequests has those returns.)
Rebuild(s) ==
    /\ pc = "idle" /\ rebuilds < MaxRebuilds /\ rebuilds' = rebuilds + 1
    /\ schema' = s /\ memory' = Filled(s, 0) /\ status' = "success"
    /\ UNCHANGED <<file, pc, captured, time, snaps>>

\* SNAP_IC captures; a Project the walk refuses, or one without an addressable
\* scalar, cannot be encoded.
SnapCapture ==
    /\ pc = "idle" /\ snaps < MaxSnaps /\ snaps' = snaps + 1
    /\ LET records == Snapshot(schema, memory)
       IN  IF WalkRefused(schema) \/ records = <<>>
             THEN status' = "runtime_ic_failed" /\ UNCHANGED <<pc, captured>>
             ELSE status' = "none" /\ pc' = "create" /\ captured' = Encode(records)
    /\ UNCHANGED <<schema, memory, file, time, rebuilds>>

\* The file is truncated where it is, then sized and mapped.
SnapCreate ==
    /\ pc = "create" /\ pc' = "copy"
    /\ file' = [state |-> "torn", image |-> NoImage]
    /\ UNCHANGED <<schema, memory, captured, status, counters>>

\* The open fails and leaves the old file, or a later call fails after it.
SnapCreateFails ==
    /\ pc = "create" /\ pc' = "idle" /\ status' = "io_error" /\ captured' = NoImage
    /\ file' \in {file} \cup {[state |-> s, image |-> NoImage] : s \in {"empty", "torn"}}
    /\ UNCHANGED <<schema, memory, counters>>

SnapCopy ==
    /\ pc = "copy" /\ pc' = "flush"
    /\ file' = [state |-> "whole", image |-> captured]
    /\ UNCHANGED <<schema, memory, captured, status, counters>>

\* A file that could not be flushed is removed.
SnapFlush ==
    /\ pc = "flush" /\ pc' = "idle" /\ captured' = NoImage
    /\ \/ status' = "success" /\ UNCHANGED file
       \/ status' = "io_error" /\ file' = [state |-> "absent", image |-> NoImage]
    /\ UNCHANGED <<schema, memory, counters>>

\* The Server dies inside SNAP_IC and is started again with the same Project: its LOAD
\* writes a new Runtime, the file is what the step before left. (Where the name of the
\* shared memory outlives the Server that LOAD fails: FullConstruction.)
Crash ==
    /\ pc \in {"create", "copy", "flush"} /\ pc' = "idle" /\ status' = "none"
    /\ memory' = Filled(schema, 0) /\ captured' = NoImage
    /\ UNCHANGED <<schema, file, counters>>

\* What a mapped file is bound as: an empty file cannot be mapped, and the header,
\* the section bounds and the payload CRC reject an image that is not whole.
Bind(f) ==
    CASE f.state = "absent" -> "not_found"
      [] f.state = "empty" -> "io_error"
      [] f.state = "torn" -> "invalid_image"
      [] OTHER -> "success"

\* Mutant: each record is written as soon as it is resolved.
ResetIc_Eager(options) ==
    /\ pc = "idle"
    /\ LET bound == Bind(file)
           plan == PlanBinary(schema, file.image, options)
       IN  IF bound = "success" THEN status' = plan.status /\ memory' = Apply(memory, plan)
                                ELSE status' = bound /\ UNCHANGED memory
    /\ UNCHANGED <<schema, file, pc, captured, counters>>

\* RESET_IC with a valid option set: map, bind, plan, and apply a complete plan.
ResetIc(options) ==
    /\ pc = "idle"
    /\ LET bound == Bind(file)
           plan == PlanBinary(schema, file.image, options)
           done == bound = "success" /\ Is(plan, "success")
       IN  /\ status' = IF bound = "success" THEN plan.status ELSE bound
           /\ memory' = IF done THEN Apply(memory, plan) ELSE memory
    /\ UNCHANGED <<schema, file, pc, captured, counters>>

Next ==
    \/ ProcessWrites
    \/ \E s \in Near(schema) : Rebuild(s)
    \/ SnapCapture \/ SnapCreate \/ SnapCreateFails \/ SnapCopy \/ SnapFlush \/ Crash
    \/ \E options \in SUBSET ResetOptions : ResetIc(options)

Spec == Init /\ [][Next]_vars

-----------------------------------------------------------------------------
(* Properties.                                                             *)

\* The records of an image with their names.
Decode(image) ==
    [i \in DOMAIN image.records |->
        [object |-> NamesOf(image.strings, image.records[i].object),
         members |-> NamesOf(image.strings, image.records[i].members),
         value |-> image.records[i].value]]

\* All member paths: every name enters a record, and no record contains itself.
MemberPaths(s) ==
    LET names == {m.name : m \in Members(s)}
    IN  UNION {[1..n -> names] : n \in 0..TypeCount(s)}

\* Every scalar of the Runtime holds a value of its own type, whatever versions of
\* the Project were snapped and reset before: RESET_IC never writes the bytes of
\* one type into a scalar of another (the type check of finish_binary_scalar).
TypedRuntime == \A c \in ProjectCells(schema) : memory[c.loc].type = c.type

\* SNAP_IC records exactly the paths that resolve to a scalar, each one once and at
\* the location it resolves to: a hidden, ambiguous or virtual member has no
\* record, and no addressable scalar is forgotten (native_emit_scalar).
SnapshotComplete ==
    memory = Filled(schema, 0) /\ ~WalkRefused(schema) =>
        LET paths == SnapshotPaths(schema)
            Target(o, m) == Resolve(schema, o.path, m)
        IN  /\ IsInjective([i \in DOMAIN paths |-> <<paths[i].object, paths[i].members>>])
            /\ {[object |-> p.object, members |-> p.members, loc |-> p.loc] : p \in ToSet(paths)}
                 = {[object |-> q[1].path, members |-> q[2], loc |-> Target(q[1], q[2]).loc] :
                       q \in {r \in ToSet(schema.objects) \X MemberPaths(schema) :
                                 /\ Is(Target(r[1], r[2]), "success")
                                 /\ Target(r[1], r[2]).type # "nullptr"}}

\* GET_VALUE answers with a scalar of the Runtime under its own type, also behind a
\* reference, and by a path the IC commands know it means the same scalar as they
\* do, or refuses the scalar for its width and for nothing else (get_runtime_value
\* and resolve_runtime_ic_scalar search separately).
QueryAgrees ==
    memory = Filled(schema, 0) =>
        \A o \in ToSet(schema.objects), m \in MemberPaths(schema) :
            LET target == Resolve(schema, o.path, m)
                query == Query(schema, o.path, m)
            IN  /\ Is(query, "success") =>
                       /\ \E c \in ProjectCells(schema) : c.loc = query.loc /\ c.type = query.type
                       /\ FitsInAnswer(query.type)
                /\ Is(target, "success") =>
                       IF FitsInAnswer(target.type)
                         THEN /\ Is(query, "success")
                              /\ query.loc = target.loc /\ query.type = target.type
                         ELSE Is(query, "unsupported_type")

\* The binary reset, which keeps the states of the path it shares with the record
\* before, plans what resolving every record from its object on plans; it also
\* fails exactly when that fails.
BinaryMatchesRecords ==
    pc = "idle" /\ file.state = "whole" =>
        \A options \in SUBSET ResetOptions :
            LET binary == PlanBinary(schema, file.image, options)
                records == PlanRecords(schema, Decode(file.image), options)
            IN  /\ Is(binary, "success") <=> Is(records, "success")
                /\ Is(binary, "success") => binary.writes = records.writes

\* A Project whose addressable scalars are those of the image, names and types, can
\* be reset, and a snapshot taken right after gives the image back.
RoundTrip ==
    pc = "idle" /\ file.state = "whole" =>
        LET records == Decode(file.image)
            paths == SnapshotPaths(schema)
            plan == PlanBinary(schema, file.image, {})
        IN  (/\ DOMAIN paths = DOMAIN records
             /\ \A i \in DOMAIN paths : /\ paths[i].object = records[i].object
                                       /\ paths[i].members = records[i].members
                                       /\ paths[i].type = records[i].value.type)
            => /\ Is(plan, "success")
               /\ Encode(Snapshot(schema, Apply(memory, plan))) = file.image

\* RESET_IC writes no scalar of a category its options exclude: constants are the
\* scalars with a const anywhere on their way, defaults those declared without an
\* initializer (reset_target_excluded and the flags it is given).
OptionsRespected ==
    pc = "idle" /\ file.state = "whole" =>
        \A options \in SUBSET ResetOptions :
            \A w \in ToSet(PlanBinary(schema, file.image, options).writes) :
                LET cell == CHOOSE c \in ProjectCells(schema) : c.loc = w.loc
                IN  /\ "constants" \in options => ~cell.const
                    /\ "variables" \in options => cell.const
                    /\ "defaults" \in options => ~cell.plain

\* Only a restart ends a command without an answer.
Restarts == pc # "idle" /\ pc' = "idle" /\ status' = "none"

\* A RESET_IC that changes the Runtime has applied the whole image: every record is
\* written or excluded ("Validation failure leaves Runtime unchanged"). What changes
\* the Runtime and is no rewrite by a process, no REBUILD and no restart is a RESET_IC.
ResetAllOrNothing ==
    [][memory' # memory /\ UNCHANGED <<time, rebuilds>> /\ ~Restarts =>
         /\ status' = "success" /\ file.state = "whole"
         /\ \E options \in SUBSET ResetOptions :
               \A r \in ToSet(Decode(file.image)) :
                   LET t == Resolve(schema, r.object, r.members)
                   IN  /\ Is(t, "success")
                       /\ memory'[t.loc] = IF Excluded(t, options) THEN memory[t.loc]
                                                                  ELSE r.value]_vars
=============================================================================
