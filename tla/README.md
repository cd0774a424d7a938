# ServerEngine V4: a TLA+ verification project

This directory models the concurrency, the state protocols and the data of the
Server (`src/server_engine`): what its threads do to shared objects, in which
order their steps may come, what a Project's tables and files hold, and what must
hold in every order. TLC checks small instances of
every module; TLAPS proves most of the invariants for every value of the constants
(41 theorems in 8 modules; `PROJECT.json` lists 39, the other two, `LifeInvariance` and
`Invariance`, are the inductive invariants that listed ones follow from).

## 1. Inventory of the system

| Component | State it keeps | Operations | What makes it correct |
|---|---|---|---|
| Server control thread (`server.cpp`) | Project slot, `project_state`, `running`, mode, lease | LOAD, PUBLISH, BUILD, REBUILD, UNLOAD, RUN, FREEZE, GET_STATE, GET_VALUE, SNAP_IC, RESET_IC, SHUTDOWN; LOGIN, CLIENT, connection close | the reported state and the slot agree; every request gets one response; shutdown ends |
| Policy (`server_policy.cpp`) | none | `allows(mode, kind)` | DEMO never runs a mutation |
| Request queue (`request_queue.cpp`) | FIFO of control messages, `accepting` | push, wait_pop_until, stop_accepting_and_discard | FIFO, nothing enters after stop, a stop wakes the waiter |
| Registry (`communication.cpp`) | raw pointers to logged-in connections | register, unregister, publish_server_state, route_client, stop | no pointer outlives its object |
| Connection (`communication_connection.cpp`) | closing flag, session, outstanding ids, write barrier, lifetime count | commit_login, reserve/release, enqueue_*, try_next, mark_written, begin_close | close is one-way; an id is busy exactly while used; the barrier means "written" |
| Outbound channel (`outbound_channel.cpp`) | FIFO with message and byte counters, sequence numbers | enqueue, try_next, mark_written, close | accounting is exact, sequences contiguous, overflow closes |
| TCP endpoint (`tcp_endpoint.cpp`) | peers, poll descriptors, connection gate | accept, receive/dispatch, prepare, send, expire, close, stop | one event reaches one peer; the gate is exact |
| Console (`server_console.cpp`) | input reader | publish, present | same queue, no lifetime token |
| License, lease, identity, authentication | documents and tokens | load, validate, refresh | full mode only with a valid lease |
| Construction pipeline (`project_full_construction.cpp`, `project_load.cpp`, `project_build.cpp`) | candidate Project, artifacts on disk | construct, persist, load | an artifact on disk is complete or absent; a failed step leaves no half Project |
| Execution lanes (`execution_lanes_*.cpp`) | worker threads, generation, failure flag | start, run, stop | each run executes each lane once; stop joins all |
| Frontend (`project/frontend`, `preprocessor`, `parser`) | token arenas, one per lane; masked records over committed ones | acquire, split into pools, tokenize, replace | a file has exactly its own tokens, whatever the split |
| File context (`file_context.cpp`, `file_identity.cpp`) | paths, physical records, include edges both ways, journal checkpoint | acquire, apply, stage edges, finalize, scan the journal | a changed file is seen; both directions of the topology agree |
| Interning tables (`string_table.cpp`, `identity.cpp`, `assign_table.cpp`, `source_map.cpp`) | append-only tables with open-addressed indexes over a baseline | intern, resolve, add, find, finalize | one id per key, found whatever the hashes |
| Graph, graph delta (`graph.cpp`, `graph_delta.cpp`) | types, members, objects, paths, links; a delta of patches and local slots | declare, define, derive, add, link, retire, restore | links stay typed; the delta reads like the edited graph; handles stay |
| Persistence (`compiled_project.cpp`, `source_save.cpp`, `database.cpp`) | files | save, open, validate | what is accepted is what was written |
| Runtime (`project/runtime`) | layout, bytes, IC snapshots | materialize, query, snapshot, reset | objects do not overlap; a reset is all or nothing |

Threads: the control thread (`server::run`), one event-loop thread per TCP
endpoint, one reader thread per console, and the execution lanes during a
construction. The first three meet in the request queue, in the connection
objects and in the lifetime tokens that travel inside control messages; clients
add their own timing through the sockets. The hard behaviours are therefore the
close of a peer against a login, a broadcast or a shutdown; the overflow of an
output channel; the reuse of request ids; the SHUTDOWN write barrier; and the
expiry of the lease between two steps. `PROJECT.json` lists them as hazards,
each with the line where it bites.

## 2. Plan

Order: first the protocols in which threads, clients and failures meet, then the
life of the process and of the artifacts, then the data structures of a Project.

| Step | Modules | State |
|---|---|---|
| 1 | `ServerRequests`, `Communication` (composes the request semantics with the queue, the registry, the connections and the event loop), `CommunicationProofs` | done |
| 2 | `TcpEventLoop`: one pass of the loop in detail, under the abstraction `Communication` uses of it; `TcpEventLoopProofs` | done |
| 3 | `ServerLifecycle` (composes `ServerRequests` with start, lease, teardown), `ServerLifecycleProofs` | done |
| 4 | `LaneCalls` (abstract), `ExecutionLanes` (implements it), `ExecutionLanesProofs` | done |
| 5 | `FullConstruction`, `ConstructionProofs`: the artifacts on disk, LOAD, BUILD's baseline, shared memory | done |
| 6 | `RuntimeIc`, `RuntimeIcProofs`: path resolution, SNAP_IC, RESET_IC, GET_VALUE | done |
| 7 | `OpenIndex`, `Interning`, `SourceMap`: tables over a baseline, probing at the load limit, retry after a failed insertion; `Interning` is proved in `ConstructionProofs` | done |
| 8 | `FileTopology`, `IncrementalBuild`, `FilesProofs`: the include tables; what a BUILD sees of files that change, and what it plans | done |
| 9 | `Graph`, `GraphMap` (abstract), `GraphDelta` (implements it), `GraphDeltaProofs` | done |
| 10 | `LexicalState`: pools, arenas and the replacement of tokens; proved in `FilesProofs` | done |
| 10b | the conditional stack of the preprocessor, directive execution | planned |
| 11 | `CompiledImage` (composes `Graph`, `Interning` and `SourceMap`): sections, bind, queries, verify_contents | done |
| 11b | the section tables of `source.bin`, `database.bin` and `project.manifest` | planned |
| 12 | `RuntimeLayout`, `Materializer` (over `Graph`): placement of records, resolution of references | done |
| 12b | `SharedMemory` object states; the text form of an IC image | planned |
| 13 | `Configuration`: server.json and project configuration (duplicate keys, limits, path policy), license and lease documents | planned |
| 14 | `OutboundChannel`: byte and message accounting and the sequence numbers `Communication` abstracts; shown to refine the channel of `Communication` | planned |

The parts of a Project's data do not share state while one of them is worked on;
their instances share one MC module in which the initial state chooses the part
(`focus`), so that the state spaces add up instead of multiplying; so do the LOAD of a
Runtime and the commands on a resident one.

Theorems planned next: `SourceMapExact`, for which `FilesProofs` has the facts about
tables scattered in file order and `ConstructionProofs` those about the index;
`VerifiedIsGraph`, which is what the lookups of `verify_contents` check, entry by entry.

## 3. Modules

### ServerRequests
Constant-level operators: the policy, the lifecycle predicates of
`server_state.hpp` and one operator per handler of `server.cpp`. A handler maps the
Project slot to the *set* of its outcomes; what it reads from disk or from shared
memory is the choice between them. `Build` has no successful outcome because
`build_project()` always ends in `report_build_incomplete()`.

### Communication
Three threads over shared objects. `pc` is the program counter of the control
thread (`wait`, `recheck`, `route`, `present`, `barrier`, `publish` in
`server::run`; `shutdown`, `discard`, `close`, `join` in `server::shutdown`);
`current`, `reply`, `old`, `targets`, `discarded` are its locals. `peer`,
`sending`, `due`, `ioStopping`, `ioExited`, `gate` belong to the event loop.
`closing`, `loggedIn`, `channel`, `outstanding`, `awaited`, `written` are the
connection objects, `registry` the pointers of `communication`. `Alive(c)` derives
the reference count of the lifetime tokens: a connection object exists while its
peer or a control message holds it. `view` is the client's knowledge after reading.

Atomicity: one critical section, or one handler that touches state of its own
thread only, is one step. A broadcast visits the registry one connection per step,
and the two halves of `stop_accepting_and_discard` are two steps, because other
threads run in between. The poll timeout, the bytes of a message and the wording
of responses are abstracted; a message that cannot be encoded is a choice of
`TakeOutput`.

| Property | Says |
|---|---|
| `RegistryAlive` | while serving, every registered pointer has a live holder |
| `CloseIsLast` | the close message is the last one that names its connection |
| `LoginBoundary` | what a logged-in client has read, plus what is on its way, is an unbroken chain of states that ends in the Server's state |
| `OutstandingExact` | a request id is outstanding exactly while one request or response carries it |
| `CloseIsFinal` | a closing connection never reopens, queues or sends anything new |
| `GateExact` | one gate slot per open peer, never above the limit |
| `StoppedIsClean` | after shutdown nothing holds a connection |
| `EndsOnce`, `RequestsAnswered` | liveness: shutdown ends; requests are answered |
| `RegistryAliveUntilCleared`, `BarrierMeansWritten` | violated, see the findings |

### TcpEventLoop
One thread, step by step: `top` (poll vector rebuilt from `peers`), `poll`,
`drain`, `accept`, the loop over `peers` by `index` up to `count`. `polled` is the
poll vector with the events poll returned; `sock` is the environment's side of each
socket. The control thread may enqueue, close a connection (both write the wake-up
datagram `wake`) and stop the endpoint between any two steps. Peers of the other
endpoints take and return slots of the shared gate (`elsewhere`). Frames are counted
as "data to read", the contents belong to `Communication`.

| Property | Says |
|---|---|
| `PeerTableExact` | peer table, open sockets, gate slots and posted close messages agree after every erase |
| `FailedIsClosed` | a failed or closing peer leaves the table: no wake-up is lost |
| `OutputSent` | a reading client gets its output although another client never reads |
| `ClosedForCause` | violated, see the findings |

### ServerLifecycle
`pc` runs through the steps of `server::start` (license, identity, lease,
authentication, communication, Project), the control loop (`check`, `wait`,
`recheck`) and the teardown, in the order of the code. The documents on disk and the
clock are chosen freely; the clock may advance between any two steps. What the
loaders verify cryptographically is a choice between success and failure. Requests
are those of `ServerRequests`.

| Property | Says |
|---|---|
| `FailsClosed` | a process that failed to start or has stopped holds no endpoint, credential or Project |
| `ServesUnderLicense` | endpoints are up only over a loaded license, identity and lease, within the licensed limit and term |

That DEMO never reaches RUN or FREEZE (`DemoNeverRuns`) is proved for every instance, see
section 6.

### LaneCalls and ExecutionLanes
`LaneCalls` is what a caller of `execution_lanes` relies on: one call executes every
active lane once before it returns success, and nothing executes between calls.
`ExecutionLanes` has the owner (`start`, the posts, lane 0, the waits, the unwinding
after a failed post, `stop`, `join`) and the workers (`waiting`, `woken`, `running`,
`exited`) over their start and done semaphores. `KeepsLaneContract` is the refinement
under the mapping of `pc` to the phase (`Phase`), of `ran` to the executed lanes
(`Executed`) and of the local result to the status the caller is given (`Status`).
`Quiescent` says that no worker runs and no token is left between calls; `CallsEnd`
that calls and the destructor end. Thread creation and start posts may fail.

### FullConstruction
The four artifacts on disk with their generation and how complete they are
(`absent`, `blank`, `torn`, `whole`), the persistence branches that run on the lanes,
the shared memory name, the resident Project and the baseline the last BUILD
accepted. The handlers are split at every point where a kill or a failure leaves a
different disk: each deletion of the pre-clean and post-clean, creation, header,
rest, validation and flush of each artifact, open, shared memory, materialization.
`HeaderFirst` records which encoders write the header `bind()` looks at before the
payload.

| Property | Says |
|---|---|
| `NoMixedGenerations` | artifacts of two constructions never lie side by side |
| `FailureLeavesNothing` | a failed PUBLISH or REBUILD leaves no artifact, unless the cleanup itself failed or the paths of the artifacts could not be made (both io_error) |
| `ResidentMatchesDisk` | the file a resident Project has mapped is never rewritten or removed |
| `BaselineComplete` | violated, see the findings |

That between operations the shared memory name is owned exactly while a Project is
resident (`ShmOwned`) is proved for every instance, see section 6.

### RuntimeIc
A *schema* stands for the compiled graph (record types with bases and members,
objects, const, initializers), a *location* for a Runtime offset (distinct scalars
have distinct offsets: the layout's promise), a value for an intrinsic type and a
stamp of where and when it was written, so that a value at a wrong place is seen.
`FindMember`, `Resolve`, the walk and the two planners are operators, the recursive
ones functions on the depth that is left or on the names of a path; the state
machine adds the file with its incomplete forms, SNAP_IC in its four steps, a
UNLOAD and REBUILD to a near schema between snapshot and reset, and the processes that write
the shared Runtime. A process that was killed starts with a Runtime materialized anew
(`Crash`). GET_VALUE answers with 64 bits and refuses a wider scalar, which the IC
commands read and write: a `long double` where the abi gives it 16 bytes
(`LongDoubleSize`). Schemas are what a construction accepts (`SchemaAccepted`): no
record contains itself, names are unique where they are declared, types are defined
and a reference is to a place of its own type. The limits on depth are modelled. That of
the search never fires for such a schema. That of the walk does: it allows
`type_count + derived_type_count + 1` calls, and a member of record type takes two, one
of `native_walk_type` and one of `native_walk_record` (`runtime_ic_snapshot.cpp:975-1186`).
A Project of two record types, one a member of the other, without derived types, is
refused: SNAP_IC answers that it failed. No document of the repository says otherwise,
so `SnapshotComplete` speaks of the Projects that the walk does not refuse
(`WalkRefused`). Offset and counter overflow and failed allocations are left out; the text form of an image is not used by the Server's
commands and is not modelled. The member search exists three times in the code
(`runtime_ic.cpp`, `runtime_ic_reset.cpp`, `runtime_query.cpp`) with the same text;
the model has it once.

| Property | Says |
|---|---|
| `TypedRuntime` | a scalar always holds a value of its own type, across versions of the Project |
| `SnapshotComplete` | a snapshot that is not refused has exactly the paths that resolve to a scalar, once each, at their location |
| `QueryAgrees` | GET_VALUE reads a scalar of the Runtime under its type, the one the IC path means, or refuses it exactly when it has more than 64 bits |
| `BinaryMatchesRecords` | the reset with the cached prefix plans what resolving each record alone plans |
| `RoundTrip` | reset into a Project with the same scalars succeeds and gives the image back |
| `OptionsRespected` | no scalar of an excluded category is written |
| `ResetAllOrNothing` | a reset that changed anything applied the whole image |

### RuntimeLayout and Materializer
`RuntimeLayout` is `prepare_runtime_layout` as functions of a graph and an abi: sizes,
alignments and offsets of records (the vfptr, the polymorphic bases, the other bases,
the members, all under the pack), the worklist of referred types that grows while it is
resolved, and the placement of the unconnected values and the objects. `Materializer`
runs the passes of a LOAD over it: the unconnected values, the marks of the links, the
links, the objects. A reference slot is a word of memory with the four meanings the code
gives it, and `Hop` is one turn of the loop of `resolve_reference_member`.

| Property | Says |
|---|---|
| `LayoutSound` | no two scalars, references or vfptrs share a byte, however records are nested and inherited; each is inside the Runtime and aligned as the pack allows; every referred type has its unconnected value |
| `RuntimeLinked` | a resident Runtime has in each reference the address of what it stands for through any chain of links and bindings, of the right type; only circles and values that cannot be written are refused |

The slots of the layout and the record plans of the materializer remember what the
immutable tables say and are left out; `resolve_unplanned_member_binding_chain`, a faster
walk over member bindings, and the general walk are one here. Failure codes are one
refusal. A scalar is one word at its first byte, and constructions are zero,
integers, member and object bindings. The instance scales `WordMask`, `MaxLinkSlot` and
`RecordLimit` down with the Projects, so that each limit is reached. The check that the
host can hold the target's Runtime, overflow of 64-bit offsets and failed allocations
are left out; virtual bases are refused by the parser.

### OpenIndex, Interning, SourceMap
`OpenIndex` is the open-addressed index the tables share: capacity a power of two,
linear probing with wrap-around, growth before the load limit, no removal. The hash
is a constant operator, so an instance decides which keys collide. `Interning` has
the string table and the identity table over a read-only baseline and the assign
table; an insertion may fail between the growth of the index and the append.
`InterningExact`: every text and every key is found under exactly one id, the one it
was given, on both sides of the baseline. `SourceMap` has the roots of a parse, their
contributions and observed dependencies, the seen-sets that are cleared at each root,
and the reverse tables of `finalize`, refused when something reported is no longer in
the graph. `SourceMapExact` compares ranges, indexes and queries with the history of
what was reported.

### Graph, GraphDelta, GraphMap
`Graph` has the operations of `graph.cpp` as functions from graph to graph with the
checks of the code as predicates: records, derived types, objects, endpoint paths,
links. `GraphDelta` fills a graph, binds it as the baseline of a BUILD and edits it:
an entity is in a baseline slot, in a patch of it, or in a local slot; members and
constructions are numbered through both sides. `GraphMap` is what an edit means:
updates of three maps (types, objects, links) whose keys keep their handle. A map
gives for each key the set of its value, empty when the key is absent.

| Property | Says |
|---|---|
| `LinksStayTyped` | links and interned paths keep the types they were checked with while types are declared and defined after them; a target has one link |
| `DeltaReadable` | every definition of the delta can be read completely, and the live counters count the live slots |
| `DeltaImplementsMap` | every edit is a step of `GraphMap` (an action property through `INSTANCE ... WITH`) |

### CompiledImage
The sections of `compiled.bin` as sequences of records, encoded from a finished
construction; `bind` (header, directory, sizes), the lookups of the view, and
`verify_contents` with its checksums, ranges, indexes and cross references. A written
image may lose its first page or the pages of a section, and another writer may
replace records. Bytes, alignment and the checksum function are abstracted: a
checksum equals exactly the records it was made of.

| Property | Says |
|---|---|
| `EncodedVerifies` | what a construction writes binds, verifies and reads back as the same graph, strings and identities |
| `LostPagesRefused` | a lost header is refused by bind; lost section pages are not, and are refused by verify_contents alone |
| `VerifiedIsGraph` | whatever was rewritten, what passes verify_contents is a graph the operations of `Graph` could have built |

### FileTopology
The edges of the file context: staged one by one, then turned into compact forward
and reverse tables; over a committed baseline only the sources that were replaced
have new ranges, and a target's dependents are the committed ones that stay followed
by the added ones. `TopologyExact`: both directions give exactly the edges that were
declared last, each once, whether an edge was kept, removed, added or declared again.

### LexicalState
The files of a Project, the split of those with tokens into pools of about equal
weight, one arena per lane, a lexer that may reject a file, and BUILDs that mask the
records of changed files and tokenize these and the new ones. `LexicalExact`: the
record of a file leads to exactly its own words, no lane is given a pool without work,
and the file that is reported as rejected is the first one.

### IncrementalBuild
A file system that goes on changing (rewrites in place, replacements, deletions, an
exchanged directory), its change journal where there is one, REBUILD as acquisitions
followed by a commit, and BUILD as the code has it: verify the configuration,
recompose it, scan for candidates, classify them, find the affected roots, replace
the lexical state. This version of the code ends there and reports BUILD as
incomplete. `PlanExact`: when nothing changed during the BUILD, the changed files are
exactly those that differ from the committed content, the invalidated roots exactly
those that depend on one (by inclusion or by an entity), and the roots to parse again
exactly the invalidated and new ones that are still declared, by the configuration the
BUILD composed. Changes during the
REBUILD and before the BUILD are in; they are what the journal checkpoint is about.
`IntactBaselineAccepted` is violated, see the findings.

## 4. Runs

| Run | Instance | Distinct states | Shows |
|---|---|---|---|
| `comm_safety` | 2 connections, 2 ids, 2 frames each, channel of 2, broadcasts, CLIENT routing; symmetric | 1.3 M | the safety properties of `Communication` |
| `comm_service` | 1 connection, 2 ids, 3 frames, console, DEMO, failing poll; with fairness | 0.5 M | `OutstandingExact`, `EndsOnce`, `RequestsAnswered` |
| `comm_registry_shutdown` | 1 connection | | finding 1 |
| `comm_barrier` | 1 connection, 2 ids | | finding 2 |
| `event_loop` | 2 sockets, limit 2, one foreign peer, one client that never reads, failing poll; with fairness | 0.2 M | the properties of `TcpEventLoop` |
| `event_loop_cause` | 2 sockets | | finding 3 |
| `lifecycle_safety` | clock 0..3, limits 0..2, all startup modes | 52 k | the invariants of `ServerLifecycle` |
| `lanes` | 4 lanes, 3 calls; with fairness | 2 k | the pool, its refinement and its termination |
| `project_data` | artifacts: 3 generations, 2 kills, up to 4 lanes, POSIX shared memory; graph: 2 types, 1 object, 2 references, 7 steps, 2 edits of what 5 steps made; 5 texts and 2 identities with colliding hashes; 2 files, 3 contributions, 5 dependencies with colliding hashes; 1 Project with every kind of section; 3 files, 2 staged edges; 4 files of 5 kinds, 3 lanes; 5 inputs, 2 file system events, 2 operations | 1.5 M | the artifact protocol and every table, index and image of a Project |
| `build_configuration` | 5 inputs, 1 file system event | | finding 4 |
| `construction_baseline` | 1 generation, 1 kill | | finding 5 |
| `runtime` | LOAD: 120 combinations of record forms for 5 abis, 5 forms of references with up to 2 links among 8 endpoints, 7 base addresses; commands: 200 schemas, 1 rebuild, 1 snapshot, 1 rewrite of the Runtime, all 8 option sets, a long double of 16 bytes | 51 k | the layout and the references of a Runtime; the properties of `RuntimeIc` |

Why the bounds are enough for the questions asked:
- *Two connections* let one peer fail, overflow or log in while the other is served,
  broadcast to or answered, and are the least that routing and the peer table need.
  A connection object is used once; every property relates one connection to the
  shared objects, or two to each other.
- *Two ids and three frames* let an id be free, in use, duplicated and reused.
- *A channel of two* is full after one response and one broadcast, so overflow is an
  ordinary case.
- *Three generations and two kills*: an old, a current and a next generation with a
  kill in each of two neighbouring operations.
- *Four lanes and three calls*: a failed call between two good ones, with a worker
  before, at and after the failing post. Four is also the number of artifacts.
- *Clock 0..3*: before, at and after each of two boundaries.
- *Seven steps and two edits of a graph*: the first link takes five (declare, derive,
  define, add, link); a second link, an interned path or a type that is declared and
  defined follow it. A BUILD edits the graphs of up to five steps (`BaselineFills`):
  remove and add again. *Five dependencies*, one of which the graph lost, in one hash
  class: ranges of several keys and roots, probes that wrap around, and with the fifth
  use an index that grows and is hashed again; contributions and dependencies share a
  bound (`MapRecords`), since `finalize` works on the two in separate tables. *Five texts in one hash class* fill an index of eight slots
  past its load limit, so that it grows and probes wrap around. *Three files* are a
  source, a target and one that is neither, with edges kept, removed and added.
  *Four files over three lanes* leave pools of none, one and two files. *Two file
  system events* are one during the REBUILD and one after it, or a change and a
  replacement of the same file.
- *One image*: the faults are one lost page or one rewritten record, each at every
  place; the Project has every kind of section filled, most of them twice.
- *Schemas*: three types give a member that is own, inherited, inherited twice
  (ambiguous), hidden, behind a virtual base, in a const member, and in a member that
  is entered twice, which is every case of the search and of the shared prefix.
- *Record forms*: a vfptr of its own or inherited, one and two bases, an empty base, a
  union, an array, a member that contains its own type, a reference to its own type, to
  the type that contains it and to one without a size, and a record past the limit.
  *Two links* are the least that a chain of links, a circle of links and a link through
  a member binding need; a second link to a slot is refused by the graph. *Base
  addresses* put the end of the Runtime before, at and after each word kept for links.
Counters that exist only to bound the model (`*Budget`, `Max*`) stand in guards of
the environment's actions, never in those of the Server.

Deadlock is checked in every passing run; a Server that has ended and a part of the
data that has reached its bound stutter by an explicit action. Each property of a passing run has a mutant of a modelled definition (in the
modules, marked "Mutant:") that violates it.

## 5. Fairness

- `Communication.FairSpec`: weak fairness of the control thread and of the event
  loop as a whole. Both are OS threads; the control thread's waits have the lease as
  a deadline, `poll` returns after a second at the latest, and each pass of the loop
  visits every peer. Clients owe nothing: they may stay silent or never read.
- `TcpEventLoop.FairSpec`: weak fairness of the loop and of the join, and strong
  fairness of sending for the clients in `Readers`: a socket whose client reads
  becomes writable again and again.
- `ExecutionLanes.FairSpec`: weak fairness of the owner and of each worker; the
  functions given to the lanes return.

## 6. Proofs

`CommunicationProofs` proves for any sets of connections and ids, any limits and
budgets:
- `TypeCorrect`: the type invariant, one lemma per action.
- `CloseOrdered`: `CloseIsLast`. It is not inductive: that nothing names a connection
  after its close message needs to know that a connection with a queued or current
  close message has no peer left that could dispatch another frame. `CloseInv` adds
  that, and that the peer a pass is working on (`due`) is open.
- `RegistryNeverDangles`: `RegistryAlive`. `RegistryInv` adds why a pointer stays good
  after its peer is gone: the close message is then in the queue or in the hands of the
  control thread; and the same for a queued or current LOGIN, which will register a
  pointer: behind it in the queue is the close message that removes it again.

Its second part is about the connection objects:
- `ClosingIsFinal` (`CloseIsFinal`, an action property), step by step;
- `GateCountsPeers` (`GateExact`): cardinality of the open peers, whose finiteness is
  part of the invariant because the set of connections may be infinite;
- `ShutdownReleasesAll` (`StoppedIsClean`), from `StopInv`: which holders of a
  connection may still exist at which step of the teardown;
- `IdsAreReleasedOnce` (`OutstandingExact`), from `ExactInv`, which counts for a live
  connection and an id the queued messages, the message in hand and the responses in
  the channel that carry it. `OutstandingExact` alone is not inductive: it does not say
  that the response in preparation carries the id of the message in hand and will
  release it (`ReplyInv`), nor that a connection that was never accepted is named
  nowhere and holds nothing (`FreshInv`).

Its last part proves `SessionsMissNoChange` (`LoginBoundary`). The property only
speaks of the moments between two requests; `ChainInv` says what holds inside one: the
chain of a session ends in the state before the request until publish_server_state has
visited the session, and a connection whose LOGIN is being answered has been told
nothing. `SessionInv`, `HandInv` and `PayloadInv` say who is visited and what a response
with a state payload reports. A chain is stated with first-order quantifiers over the
positions of the messages (`Chain`), so that no induction over the stream is needed.

`ConstructionProofs` proves of `FullConstruction`, for any number of generations, kills
and lanes, on both platforms:
- `TypeCorrect`;
- `GenerationsNeverMix` and `FailuresClean`, from `DiskInv`: from the end of a
  successful pre-clean on, what is on disk is of the current generation, and while a
  cleanup runs, what it has visited and not been refused is absent;
- `ResidentFileUntouched` and `ShmExact`, from `ResidentInv`: no step of a full
  construction runs beside a resident Project, and what was bound is whole.

It also proves `InterningIsExact` (`InterningExact`) for any texts, any keys and
any hash function with positive values, so for any collisions. An index is good for a
table when each entry of the table lies in its probe chain with no empty place before it
and one place is empty; a lookup then ends, and with the right answer. An insertion keeps
this (it takes the first empty place of a chain), and so does a rebuilt index, which is
insertions one after the other. The tables add that no key is in both the baseline and
the local part and that a failed append leaves an index that has grown and no entry more.

`ServerLifecycleProofs` proves for any clock range, any limits and any set of startup
modes, one lemma per step of start(), run() and shutdown():
- `TypeCorrect`;
- `FailedServerHoldsNothing` (`FailsClosed`), from `TeardownInv`: which part may be up
  at which step, so that every exit of start() has undone what came before it;
- `ServingIsLicensed` (`ServesUnderLicense`), from `LicenseInv`, that the lease only
  narrows the license from its loading to its clearing, and `ServeInv`, that endpoints
  are up only between those two and the gate was set from the lease or to 1;
- `SlotInStep` and `DemoStaysIdle`, from lemmas about what each handler does to the
  Project slot (`ExecuteSlot`, `ExecuteMessageSlot`). DEMO needs `TeardownInv` as well:
  the mode is decided while there is no Project.

`TcpEventLoopProofs` proves `EventLoopTyped` and `PeerTableIsExact` (`PeerTableExact`)
for any sockets and limits from `TableInv`. The two depend on each other: the gate stays
a natural number because the table accounts for every slot that is returned.

`ExecutionLanesProofs` proves for a pool of any size, from `LaneInv` (where the token of
each worker is at each step of a call, of the unwinding and of the destructor):
- `LanesTyped`, `LanesQuiescent` (`Quiescent`);
- `LanesRefineCalls` (`KeepsLaneContract`): initial states map to initial states of
  `LaneCalls`, and every step of the owner and of a worker to a step or a stutter of it.
  `LaneCalls` has the status the caller is given as a variable, so the theorem is about
  success being reported exactly when every lane ran, not only about the phases.

`GraphDeltaProofs` proves for any menu of identities, types, definitions, objects and
links, any baseline the constructions can write and any number of edits:
- `GraphInvariant`: `BaselineInv` (the tables of the dense graph belong together and the
  members of a definition lie in their table), kept by every operation of `Graph`, and
  `DeltaInv`, one part per group of tables;
- `EveryDefinitionIsReadable` (`DeltaReadable`). It needs of `DeltaInv` that the members
  of a live definition made by the delta lie behind those of the baseline and within
  those of the delta (`Reachable`): this is what the logical position a definition
  records has to be for `graph_delta::member` to find it;
- `EditsActLikeMaps` (`DeltaImplementsMap`): the simulation of `GraphMap`, one lemma per
  edit. A lemma for one written slot (`WrittenTypeSeen`, `ObjectLikeMap`, `LinkLikeMap`)
  and one for an appended slot say that every other entry is seen unchanged, for which
  the tables of members and constructions may only grow (`Grown`), no two identities
  may share a slot (`OneTypePerSlot` and its like), and a live local object's
  construction must lie in its table; `HandlesStay` says that no handle moves.
- `LinksKeepTheirTypes` (`LinksStayTyped`), from `Typed`: both paths of a link and every
  path in the path table resolve, and resolve to what they were accepted for. A path
  crosses a type only if the type is defined, and no edit undefines or moves one that a
  link crosses, so an edit leaves every hop what it was; the proof is an induction on
  the hops, and on the derivations a qualified type is stripped of.
`BaselineInv` and `DeltaInv` were checked with TLC as invariants of the instance of
`project_data` before they were proved.

`FilesProofs` proves, for any Project:
- `TokensAreExact` (`LexicalExact`), for any number of lanes and replacements, from
  `LexInv`: the pools cut the work into consecutive runs of which none is empty, a lane
  has published exactly what lies behind its cursor, and an arena has the words of the
  lane's records, each where its record says. The first rejected file is the one that is
  reported because the lanes that come later stop only for their own files.
- `TopologyIsExact` (`TopologyExact`), for any number of edges and rebuilds, from
  `TopologyOk`: the committed tables are the two directions of one relation, and an edge
  counts when it is staged, or committed and its source kept. That the compact tables
  have each edge at its place is a counting argument: the range of a file begins where
  the ranges of the files before it end.
- `PlanIsExact` (`PlanExact`), for any changes of the file system at any moment, with and
  without a journal, and any number of classifier lanes, from `PlanInv`:
  - `JournalOk`, what the journal promises: while it is usable from the checkpoint on, a
    file held since is intact, or one of the records since names it, or one of them is
    a move of its directory, which sends the scan to the fallback. This holds from the checkpoint of a
    REBUILD on, which is taken before its first file, whatever changes during it;
  - the candidates of a scan contain every file that differs as long as nothing changes
    under the BUILD (`quiet`); the shares of the lanes cut them into consecutive parts, so
    the changed files are in order and none is missing or there twice;
  - the closures over inclusions and over entities are least fixed points: a closure that
    is computed in as many rounds as there are files stops growing before the last one
    (`ClosureIsLeast`), which is what the definition of a stale root, by all closed sets,
    needs.

`RuntimeIcProofs` proves, for any schemas a construction accepts, any path from one to the
next and any snapshots, kills, writes and resets:
- `SnapshotsStayWhole`, the inductive invariant `IcInvariant`: the memory has exactly the
  scalars of the present schema, each with its type (`MemoryOk`), and an image that is
  captured or whole on disk is the encoding of records (`Encoded`). `RuntimeStaysTyped`
  (`TypedRuntime`) is its first half; alone it is not inductive, because a reset writes what
  the image says and the image may come from another schema.
- `OptionsAreRespected`, `ResetsAreWhole`: along a path every state is *exact*, that is at
  a place of the schema, with the type and the const and plain flags of that place, by
  induction on the names. That the search answers "found" only with a place below the type
  is an induction on the depth that is left.
- `PrefixesAreKeptRightly`: the states that the binary reset keeps for a record are those
  of its whole path, by induction on the records; the path in two pieces, the shared prefix
  and the rest, has the states of the first and then those that go on from there.
- `SnapshotsComeBack`: two paths to the same location are the same path, since a location
  tells which steps enter a base and which a member; so the writes of a plan do not overlap
  and reading them back gives the records. The string table of an image has every name, and
  the ids read back as the names.
- `QueriesAgree`: GET_VALUE follows references and the IC commands do not, so the two go the
  same steps as long as the IC path succeeds; a reference ends at a place of its type. Where
  the IC path succeeds GET_VALUE fails only for the width of the scalar.
- `SnapshotsAreComplete`: the walk visits a record, and with it each member that a search
  finds in it (`RecordClosed`), so every path that resolves is visited; a visit through a
  base is recorded only if its path resolves to it, one through members only always does
  (`OwnVisits`); and no scalar is visited twice (`TreeOnce`), since the parts of a record
  begin with different steps. These are inductions on the types along the heights
  that `SchemaAccepted` gives them.

What a recursive function or a fold of a sequence gives is proved in these modules by
looking at the least argument for which it would be wrong (`LeastNat`, from the
well-foundedness of the natural numbers): the induction schemata of the library cannot be
instantiated, a least element of an explicit set can be.

The proofs assume only the named `ASSUME`s of the modules (the bounds are natural
numbers, the sets are sets of the right kind, the members of a definition are a sequence
as long as its constructions, a Runtime's Project is one a construction accepts). TLC evaluates the
assumptions and checks on the instances above the invariants that have a run
(`SlotMeansState`, `DemoNeverRuns` and `ShmOwned` are proved only).

Only model-checked, and why:
- the liveness properties (`EndsOnce`, `RequestsAnswered`, `FailedIsClosed`,
  `OutputSent`, `CallsEnd`): the prover has no rule for fairness;
- `LayoutSound` and `RuntimeLinked`: the offset of a byte is a sum over the records a type
  is nested in, each size itself recursive over the types, and alignment is arithmetic
  with `%` and products, which the solver does not do for symbolic values;
- `EncodedVerifies` and `LostPagesRefused`: that an encoder and a verifier of some twenty
  sections agree is a computation on each section, which a proof would only repeat;
- `SourceMapExact` and `VerifiedIsGraph`: not proved yet, see section 2.

## 7. Findings

Each is a run that TLC ends with a counterexample; `PROJECT.json` quotes the lines.

1. **Registry at shutdown** (`comm_registry_shutdown`). `server::shutdown` destroys the
   queued close messages before `communication::stop` walks the registry; a peer that
   closed just before leaves a dangling pointer that `begin_close` is called on.
2. **SHUTDOWN barrier** (`comm_barrier`). `mark_written` completes the barrier for any
   written response with the awaited id; the id of a LOGIN response that is still being
   written can be reused for SHUTDOWN, and the Server stops without having sent the
   SHUTDOWN response.
3. **Poll entry of an erased peer** (`event_loop_cause`). After `peers.erase` the loop
   applies the erased peer's events to its neighbour, which can be closed for them.
4. **Configuration edit before BUILD** (`build_configuration`). The recomposition puts
   the new content of an edited Project file into the file context; the classifier then
   finds the file changed against `source.bin`, applies it to the same context, is told
   that nothing changed, and reports the intact artifacts as invalid.
5. **Torn baseline** (`construction_baseline`). A kill while `source.bin` or
   `database.bin` is encoded leaves a file BUILD accepts as its baseline.

Without a run of their own:
- The depth limit of the SNAP_IC walk refuses some legal Projects (section 3, RuntimeIc);
  nothing in the repository states the contrary.
- `docs/PROJECT.md:986-992` says that BUILD recomposes the configuration when any of its
  inputs differs. Where files have change tokens (Windows), the recomposition fails as soon as another
  configuration file is unchanged: its token proves that, nothing is read of it, and
  `project_configuration_manifest.cpp:563-573` takes every answer but "present" for a
  failed acquisition. `IncrementalBuild.Compose` has this (`configuration_invalid`), and
  BUILD then ends with an error, without a plan. The instances of `project_data` reach it.

## 8. Not modelled

- Power loss, except for `compiled.bin`, where any page may be lost (`CompiledImage`):
  the order in which the operating system writes pages back.
- Cryptography, HTTPS, JWT and Entra exchanges: a choice of success or failure.
- The wire and text formats (JSON, frames, diagnostics, the text IC image), wording
  and layout of messages.
- What the lexer, the preprocessor and the parser make of a text: a grammar without
  state that outlives a file. Texts are words, or what they include, provide and use.
- The byte layout of `source.bin`, `database.bin` and `project.manifest`; the configuration and license readers: planned,
  see section 2.
- Memory exhaustion inside a handler, except where the code has a path for it that
  changes what the other parts see (a message that cannot be queued or encoded).
- The Windows variants of the lanes, of shared memory and of the console differ in the
  calls they make, not in structure; `FullConstruction` takes the one difference that
  matters (whether a shared memory name outlives its process) as a constant.
