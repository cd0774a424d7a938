-------------------------- MODULE IncrementalBuild --------------------------
(***************************************************************************)
(* BUILD (project_build.cpp) from the state a REBUILD committed: what      *)
(* changed on disk since, and which roots must be invalidated and parsed   *)
(* again.  The file system goes on changing under both operations.  On     *)
(* Windows it keeps the change journal (file_identity.cpp,                 *)
(* source_save.cpp): a record per change, carrying the file reference and  *)
(* not the path, from which BUILD takes the candidates it reads; anywhere  *)
(* else, and whenever the journal cannot be relied upon, every file is a   *)
(* candidate.  The classifier reads the candidates and compares content    *)
(* hashes; the affected roots follow from the committed topology.          *)
(*                                                                         *)
(* A content is an index into the texts of its file.  A text says what the *)
(* file includes (a Project file: what it declares), which entities it     *)
(* provides and uses.  All files share one directory.  A lane of the       *)
(* classifier reads its files with nothing else reading, so one step reads *)
(* them all; the step that parses the roots again is not in the code: a    *)
(* BUILD that gets there reports that it is incomplete.                    *)
(***************************************************************************)
EXTENDS Naturals, FiniteSets, Sequences, SequencesExt, Functions

CONSTANTS InputKinds,          \* the kind of every path: a sequence
          TextOf,              \* TextOf[f][c]: the text content c of f holds
          Writes,              \* <<f, c>>: rewriting f in place with c
          Replacements,        \* <<f, c>>: another file renamed or made as f
          Deletions,           \* files that get deleted
          DirectoryChanges,    \* <<f, c>>: a directory exchanged, f in it is c
          MaxFsEvents,         \* changes of the file system
          MaxOperations,       \* REBUILD and BUILD operations
          ClassifierLanes,     \* execution_lane_capacity
          NoFile, NoCheckpoint, NoToken, NoSave

ASSUME IncrementalBuildConstants ==
    /\ MaxFsEvents \in Nat /\ MaxOperations \in Nat /\ ClassifierLanes \in Nat \ {0}
    /\ InputKinds \in Seq({"project", "header", "source"})
    /\ InputKinds # <<>> /\ InputKinds[1] = "project"
    /\ \A change \in Writes \cup Replacements \cup DirectoryChanges : change[1] \in DOMAIN InputKinds
    /\ Deletions \subseteq DOMAIN InputKinds

VARIABLES tree,     \* path -> NoFile or [content, ref, usn]
          volume,   \* the change journal and the directory's reference
          saved,    \* what project.manifest, source.bin and compiled.bin hold
          work      \* the operation in progress or the last one

buildVars == <<tree, volume, saved, work>>

Inputs == DOMAIN InputKinds
RootProject == 1
ProjectInputs == {f \in Inputs : InputKinds[f] = "project"}
LexicalInputs == Inputs \ ProjectInputs

Idle(result) == [op |-> "idle", phase |-> "none", result |-> result, quiet |-> TRUE]

IncrementalBuildInit ==
    /\ tree = [f \in Inputs |-> [content |-> 1, ref |-> f, usn |-> 0]]
    /\ volume = [id |-> 1, first |-> 0, records |-> <<>>, dir |-> 0,
                 refs |-> Len(InputKinds), events |-> 0, operations |-> 0]
    /\ saved = NoSave
    /\ work = Idle("none")

-----------------------------------------------------------------------------
(* The file system.  A reference is never given to a second file.          *)

NextUsn(v) == v.first + Len(v.records)

Record(ref, reason) == [ref |-> ref, reason |-> reason]

\* A step of the file system: the records it logs and the references it takes.
Change(records, refs) ==
    /\ volume.events < MaxFsEvents
    /\ volume' = [volume EXCEPT !.records = @ \o records, !.refs = @ + refs,
                                !.events = @ + 1]
    /\ work' = [work EXCEPT !.quiet = FALSE]
    /\ UNCHANGED saved

Write(f, c) ==
    /\ tree[f] # NoFile
    /\ Change(<<Record(tree[f].ref, "data")>>, 0)
    /\ tree' = [tree EXCEPT ![f].content = c, ![f].usn = NextUsn(volume) + 1]

Gone(f) == IF tree[f] = NoFile THEN <<>> ELSE <<Record(tree[f].ref, "topology")>>

\* The path names another file from now on.
Replace(f, c) ==
    LET ref == volume.refs + 1
        records == Gone(f) \o <<Record(ref, "topology")>>
    IN  /\ Change(records, 1)
        /\ tree' = [tree EXCEPT ![f] = [content |-> c, ref |-> ref,
                                        usn |-> NextUsn(volume) + Len(records)]]

Delete(f) ==
    /\ tree[f] # NoFile
    /\ Change(Gone(f), 0)
    /\ tree' = [tree EXCEPT ![f] = NoFile]

\* The directory is renamed away and another one takes its place; nothing is
\* logged about the files in them.
ExchangeDirectory(f, c) ==
    LET dir == volume.refs + Len(InputKinds) + 1 IN
    /\ volume.events < MaxFsEvents
    /\ volume' = [volume EXCEPT
                     !.records = @ \o <<Record(volume.dir, "topology"), Record(dir, "topology")>>,
                     !.refs = dir, !.dir = dir, !.events = @ + 1]
    /\ work' = [work EXCEPT !.quiet = FALSE]
    /\ UNCHANGED saved
    /\ tree' = [g \in Inputs |->
                  IF g # f /\ tree[g] = NoFile THEN NoFile
                  ELSE [content |-> IF g = f THEN c ELSE tree[g].content,
                        ref |-> volume.refs + g, usn |-> 0]]

\* The journal drops its oldest records, or is deleted and made again.
LoseJournal(again) ==
    /\ volume.events < MaxFsEvents
    /\ volume' = [volume EXCEPT !.first = NextUsn(volume), !.records = <<>>,
                                !.id = IF again THEN @ + 1 ELSE @, !.events = @ + 1]
    /\ work' = [work EXCEPT !.quiet = FALSE]
    /\ UNCHANGED <<tree, saved>>

-----------------------------------------------------------------------------
(* Reading a file.  The handle excludes writing and renaming until the     *)
(* change token is taken, so hash and token belong to one state of it.     *)

ChangeToken(f) == [ref |-> tree[f].ref, usn |-> tree[f].usn]

ChangeCheckpoint(tracked) ==
    IF tracked THEN [id |-> volume.id, next |-> NextUsn(volume)] ELSE NoCheckpoint

AcquireContent(f, tracked) ==
    [content |-> tree[f].content, token |-> IF tracked THEN ChangeToken(f) ELSE NoToken]

ProvedUnchanged(f, token) == token # NoToken /\ tree[f] # NoFile /\ ChangeToken(f) = token

Text(f, content) == TextOf[f][content]

-----------------------------------------------------------------------------
(* REBUILD, as far as BUILD depends on it.                                 *)

\* The artifacts are removed and the checkpoint captured before any file is
\* acquired: a later change is then in the journal the next BUILD reads.
RebuildBegin(tracked) ==
    /\ work.op = "idle"
    /\ volume.operations < MaxOperations
    /\ saved' = NoSave
    /\ work' = [op |-> "rebuild", phase |-> "acquire", result |-> "none", quiet |-> TRUE,
                tracked |-> tracked, checkpoint |-> ChangeCheckpoint(tracked),
                pending |-> {RootProject}, held |-> [f \in {} |-> 0]]
    /\ volume' = [volume EXCEPT !.operations = @ + 1]
    /\ UNCHANGED tree

\* The configuration is composed before the sources are read.
RebuildAcquire(f) ==
    /\ work.op = "rebuild"
    /\ f \in work.pending
    /\ f \in LexicalInputs => work.pending \cap ProjectInputs = {}
    /\ work' = IF tree[f] = NoFile THEN Idle("configuration_invalid")
               ELSE LET held == [g \in DOMAIN work.held \cup {f} |->
                                   IF g = f THEN AcquireContent(f, work.tracked) ELSE work.held[g]]
                    IN  [work EXCEPT !.held = held,
                            !.pending = (@ \cup Text(f, tree[f].content).includes) \ DOMAIN held]
    /\ UNCHANGED <<tree, volume, saved>>

Members(s) == DOMAIN s.files

\* The files reached from f along the includes of the state s holds.
Topology(s, f) == Text(f, s.files[f].content).includes

Reached(s, f) ==
    LET reach[n \in 0 .. Cardinality(Members(s))] ==
            IF n = 0 THEN {f}
            ELSE LET before == reach[n - 1] IN before \cup UNION {Topology(s, g) : g \in before}
    IN  reach[Cardinality(Members(s))]

\* The roots: the lexical files a Project file declares.
CommittedRoots(s) ==
    LexicalInputs \cap UNION {Topology(s, p) : p \in Members(s) \cap ProjectInputs}

Contributions(s, root) ==
    UNION {Text(f, s.files[f].content).provides : f \in Reached(s, root)}

SemanticDependencies(s, root) ==
    UNION {Text(f, s.files[f].content).uses : f \in Reached(s, root)}

TrackingCapture_Late(w) ==
    IF w.checkpoint = NoCheckpoint \/ \E f \in DOMAIN w.held : w.held[f].token = NoToken
    THEN [checkpoint |-> NoCheckpoint, references |-> [f \in {} |-> 0], directories |-> {}]
    ELSE [checkpoint |-> [id |-> volume.id, next |-> NextUsn(volume)], directories |-> {volume.dir},
          references |-> [f \in DOMAIN w.held |-> w.held[f].token.ref]]

\* Without a token for each file, or a checkpoint, nothing is tracked.
TrackingCapture(w) ==
    IF w.checkpoint = NoCheckpoint \/ \E f \in DOMAIN w.held : w.held[f].token = NoToken
    THEN [checkpoint |-> NoCheckpoint, references |-> [f \in {} |-> 0], directories |-> {}]
    ELSE [checkpoint |-> w.checkpoint, directories |-> {volume.dir},
          references |-> [f \in DOMAIN w.held |-> w.held[f].token.ref]]

\* The directories are identified when source.bin is written, after the files.
RebuildCommit ==
    /\ work.op = "rebuild"
    /\ work.pending = {}
    /\ LET s == [files |-> work.held, tracking |-> TrackingCapture(work)]
           provided == UNION {Contributions(s, r) : r \in CommittedRoots(s)}
           used == UNION {SemanticDependencies(s, r) : r \in CommittedRoots(s)}
       IN  IF used \subseteq provided
           THEN saved' = s /\ work' = Idle("committed")
           ELSE saved' = NoSave /\ work' = Idle("configuration_invalid")
    /\ UNCHANGED <<tree, volume>>

-----------------------------------------------------------------------------
(* BUILD: the configuration.                                               *)

ManifestFiles(s) == Members(s) \cap ProjectInputs

\* A change token or a content hash proves a configuration file unchanged.
ManifestUnchanged(s) ==
    \A f \in ManifestFiles(s) :
        \/ ProvedUnchanged(f, s.files[f].token)
        \/ tree[f] # NoFile /\ tree[f].content = s.files[f].content

\* The file context over the committed files: the hash it holds for each file
\* and the files whose content it has read.
ContextOf(s) == [hash |-> [f \in Members(s) |-> s.files[f].content], read |-> {}]

Known(context, f) == f \in DOMAIN context.hash

\* What acquiring f yields; a file the context holds with a token that still
\* proves it unchanged is not read.
AcquireKind(s, context, f) ==
    IF f \in Members(s) \ context.read /\ ProvedUnchanged(f, s.files[f].token)
    THEN "unchanged"
    ELSE IF tree[f] = NoFile THEN "missing" ELSE "present"

\* What an acquired file does to the context, and whether it changed.  Content
\* that was read is never replaced.
ApplyAcquire(context, f, kind, content) ==
    LET changed == IF kind = "missing" THEN Known(context, f)
                   ELSE ~Known(context, f) \/ context.hash[f] # content
        result(status, changes, next) ==
            [status |-> status, changed |-> changes, context |-> next]
    IN  CASE kind = "unchanged" -> result("success", FALSE, context)
          [] f \in context.read /\ (kind = "missing" \/ changed) -> result("unsupported", FALSE, context)
          [] f \in context.read -> result("success", FALSE, context)
          [] kind = "missing" -> result("success", changed, [context EXCEPT !.hash = Restrict(@, DOMAIN @ \ {f})])
          [] OTHER -> result("success", changed,
                             [hash |-> (f :> content) @@ context.hash, read |-> context.read \cup {f}])

Building(s) ==
    [op |-> "build", phase |-> "scan", result |-> "none", quiet |-> TRUE,
     context |-> ContextOf(s), loaded |-> FALSE, identity |-> FALSE, newTexts |-> FALSE,
     oldRoots |-> {}, roots |-> {}, candidates |-> <<>>, backend |-> "none",
     changed |-> <<>>, invalidated |-> {}, replay |-> {}, lexical |-> {}]

BuildBegin ==
    /\ work.op = "idle"
    /\ volume.operations < MaxOperations
    /\ saved # NoSave
    /\ work' = [Building(saved) EXCEPT !.phase = IF ManifestUnchanged(saved) THEN "scan" ELSE "compose"]
    /\ volume' = [volume EXCEPT !.operations = @ + 1]
    /\ UNCHANGED <<tree, saved>>

Fail(result) == work' = [work EXCEPT !.op = "idle", !.phase = "failed", !.result = result]

\* The Project files the configuration on disk consists of.
ConfigurationFiles ==
    LET visited[n \in 0 .. Cardinality(ProjectInputs)] ==
            IF n = 0 THEN {RootProject}
            ELSE LET before == visited[n - 1] IN
                 before \cup UNION {Text(f, tree[f].content).includes \cap ProjectInputs :
                                       f \in {g \in before : tree[g] # NoFile}}
    IN  visited[Cardinality(ProjectInputs)]

DeclaredRoots(files) ==
    LexicalInputs \cap UNION {Text(f, tree[f].content).includes : f \in files}

\* The files take effect in the context as the composer visits them.
VisitedContext(context, files) ==
    FoldSet(LAMBDA f, visited : ApplyAcquire(visited, f, "present", tree[f].content).context,
            context, files)

IdentityChanged(s, files) ==
    [f \in files |-> tree[f].content] # [f \in ManifestFiles(s) |-> s.files[f].content]

PreprocessorChanged(s) ==
    Text(RootProject, tree[RootProject].content).preprocessor #
    Text(RootProject, s.files[RootProject].content).preprocessor

\* The composer reads every configuration file; a missing one fails, and so
\* does one that its change token proves unchanged: nothing is read of it.
Compose ==
    LET files == ConfigurationFiles
        identity == IdentityChanged(saved, files)
    IN  /\ work.op = "build" /\ work.phase = "compose"
        /\ IF \E f \in files : AcquireKind(saved, work.context, f) # "present"
           THEN Fail("configuration_invalid")
           ELSE work' = [work EXCEPT
                  !.phase = "scan", !.loaded = TRUE, !.identity = identity,
                  !.context = VisitedContext(work.context, files),
                  !.roots = DeclaredRoots(files),
                  !.oldRoots = IF identity THEN CommittedRoots(saved) ELSE {},
                  !.newTexts = identity /\ PreprocessorChanged(saved)]
        /\ UNCHANGED <<tree, volume, saved>>

-----------------------------------------------------------------------------
(* BUILD: what changed on disk.                                            *)

\* The journal is the one of the checkpoint and still has its records.
JournalUsable(t) ==
    /\ t.checkpoint # NoCheckpoint
    /\ t.checkpoint.id = volume.id
    /\ volume.first <= t.checkpoint.next
    /\ t.checkpoint.next <= NextUsn(volume)

RecordsSince(t) ==
    {volume.records[i] : i \in (t.checkpoint.next - volume.first + 1) .. Len(volume.records)}

FileOfReference(t, ref) == {f \in DOMAIN t.references : t.references[f] = ref}

Watched(t, ref) == ref \in t.directories

TopologyChanged(t) ==
    \E r \in RecordsSince(t) :
        r.reason = "topology" /\ (Watched(t, r.ref) \/ FileOfReference(t, r.ref) # {})

DirtyFiles(t) == UNION {FileOfReference(t, r.ref) : r \in RecordsSince(t)}

FallbackCandidates(s) == Members(s)

InFileOrder(S) == FlattenSeq([f \in Inputs |-> IF f \in S THEN <<f>> ELSE <<>>])

ScanCandidates ==
    LET t == saved.tracking
        fast == JournalUsable(t) /\ ~TopologyChanged(t)
    IN  /\ work.op = "build" /\ work.phase = "scan"
        /\ work' = [work EXCEPT !.phase = "classify", !.quiet = TRUE,
                      !.backend = IF fast THEN "journal" ELSE "fallback",
                      !.candidates = InFileOrder(IF fast THEN DirtyFiles(t) ELSE FallbackCandidates(saved))]
        /\ UNCHANGED <<tree, volume, saved>>

\* The candidates of a lane: the remainder goes to the first lanes.
LaneShare(n, lanes, lane) ==
    LET base == n \div lanes
        extra == n % lanes
        begin(k) == (k - 1) * base + (IF k - 1 < extra THEN k - 1 ELSE extra)
    IN  (begin(lane) + 1) .. begin(lane + 1)

Differs(s, f) == tree[f] = NoFile \/ tree[f].content # s.files[f].content

\* A lane reads its files; equal bytes are discarded at once.
RunLane(candidates, share) ==
    FlattenSeq([i \in DOMAIN candidates |->
                  IF i \in share /\ Differs(saved, candidates[i]) THEN <<i>> ELSE <<>>])

ChangedFiles(candidates) ==
    LET n == Len(candidates)
        lanes == IF n < ClassifierLanes THEN n ELSE ClassifierLanes
        indices == FlattenSeq([lane \in 1 .. lanes |->
                                 RunLane(candidates, LaneShare(n, lanes, lane))])
    IN  [i \in DOMAIN indices |-> candidates[indices[i]]]

\* The results are applied in the lanes' order; a file the classifier found
\* changed and the context did not is an invalid artifact.
ApplyChanges(context, files) ==
    FoldLeft(LAMBDA state, f :
                IF state.status # "success" THEN state
                ELSE LET kind == IF tree[f] = NoFile THEN "missing" ELSE "present"
                         applied == ApplyAcquire(state.context, f, kind,
                                                 IF kind = "missing" THEN 0 ELSE tree[f].content)
                     IN  IF applied.status = "success" /\ ~applied.changed
                         THEN [status |-> "artifact_invalid", context |-> state.context]
                         ELSE [status |-> applied.status, context |-> applied.context],
             [status |-> "success", context |-> context], files)

Classify ==
    LET files == ChangedFiles(work.candidates)
        applied == ApplyChanges(work.context, files)
    IN  /\ work.op = "build" /\ work.phase = "classify"
        /\ IF applied.status # "success" THEN Fail(applied.status)
           ELSE work' = [work EXCEPT !.phase = "plan", !.changed = files, !.context = applied.context]
        /\ UNCHANGED <<tree, volume, saved>>

-----------------------------------------------------------------------------
(* BUILD: what to invalidate and what to parse again.                      *)

\* The changed files and all that depend on them, over the committed edges.
Affected(s, changed) ==
    LET wave[n \in 0 .. Cardinality(Members(s))] ==
            IF n = 0 THEN changed
            ELSE LET before == wave[n - 1] IN
                 before \cup {d \in Members(s) : Topology(s, d) \cap before # {}}
    IN  wave[Cardinality(Members(s))]

SemanticRoots(s, affected) ==
    {f \in affected \cap LexicalInputs :
        \E p \in Members(s) \cap ProjectInputs : f \in Topology(s, p)}

InvalidatedRoots(w, affected) ==
    affected \cup (w.oldRoots \ w.roots) \cup (IF w.newTexts THEN w.oldRoots ELSE {})

ReplayRoots(w, affected) ==
    IF ~w.identity THEN affected
    ELSE (affected \cap w.roots) \cup (w.roots \ w.oldRoots) \cup (IF w.newTexts THEN w.roots ELSE {})

\* The roots that use an entity some root of the set contributed.
SemanticDependents(s, root) ==
    {r \in CommittedRoots(s) : SemanticDependencies(s, r) \cap Contributions(s, root) # {}}

DependencyClosure(s, initial) ==
    LET wave[n \in 0 .. Cardinality(Members(s))] ==
            IF n = 0 THEN initial
            ELSE LET before == wave[n - 1] IN
                 before \cup UNION {SemanticDependents(s, r) : r \in before}
    IN  wave[Cardinality(Members(s))]

LexicalReplacement(w) ==
    Range(w.changed) \cup (IF w.identity THEN w.roots \ Members(saved) ELSE {})

Plan ==
    LET affected == SemanticRoots(saved, Affected(saved, Range(work.changed)))
        closure == DependencyClosure(saved, InvalidatedRoots(work, affected))
        again == IF work.identity THEN closure \cap work.roots ELSE closure
    IN  /\ work.op = "build" /\ work.phase = "plan"
        /\ work' = [work EXCEPT !.phase = "replace", !.invalidated = closure,
                                !.replay = ReplayRoots(work, affected) \cup again,
                                !.lexical = LexicalReplacement(work)]
        /\ UNCHANGED <<tree, volume, saved>>

\* Every changed header and source loses its committed tokens; a file new to
\* the Project is read, and must be there.
NewInputMissing(f) == f \notin Members(saved) /\ tree[f] = NoFile

\* The preprocessor's configuration is read again when the composer did not.
ReplaceLexicalState ==
    /\ work.op = "build" /\ work.phase = "replace"
    /\ IF /\ work.replay # {}
          /\ \/ ~work.loaded /\ tree[RootProject] = NoFile
             \/ \E f \in work.lexical \cap LexicalInputs : NewInputMissing(f)
       THEN Fail("configuration_invalid")
       ELSE work' = [work EXCEPT !.op = "idle", !.phase = "done", !.result = "unsupported"]
    /\ UNCHANGED <<tree, volume, saved>>

-----------------------------------------------------------------------------
FileSystem ==
    \/ \E w \in Writes : Write(w[1], w[2])
    \/ \E r \in Replacements : Replace(r[1], r[2])
    \/ \E f \in Deletions : Delete(f)
    \/ \E d \in DirectoryChanges : ExchangeDirectory(d[1], d[2])
    \/ \E again \in BOOLEAN : LoseJournal(again)

IncrementalBuildNext ==
    \/ FileSystem
    \/ \E tracked \in BOOLEAN : RebuildBegin(tracked)
    \/ \E f \in Inputs : RebuildAcquire(f)
    \/ RebuildCommit
    \/ BuildBegin
    \/ Compose
    \/ ScanCandidates
    \/ Classify
    \/ Plan
    \/ ReplaceLexicalState

IncrementalBuildSpec == IncrementalBuildInit /\ [][IncrementalBuildNext]_buildVars

-----------------------------------------------------------------------------
(* The roots a BUILD must treat, from the texts and from no closure of the *)
(* code: a root whose own text or preprocessor changed or that is gone     *)
(* makes every user of what it contributed stale.                          *)

Edited(s) == {f \in Members(s) : tree[f] = NoFile \/ tree[f].content # s.files[f].content}

Outdated(s, w) ==
    {r \in CommittedRoots(s) :
        \/ Reached(s, r) \cap Edited(s) # {}
        \/ w.identity /\ (r \notin w.roots \/ w.newTexts)}

StaleRoots(s, w) ==
    {r \in CommittedRoots(s) :
        \A X \in SUBSET CommittedRoots(s) :
            /\ Outdated(s, w) \subseteq X
            /\ \A a \in X, b \in CommittedRoots(s) :
                  Contributions(s, a) \cap SemanticDependencies(s, b) # {} => b \in X
            => r \in X}

\* No edit is lost and none is invented: whatever was written, replaced,
\* deleted or moved since the REBUILD began, a BUILD that saw no further
\* change after its scan found exactly the files whose bytes differ, whichever
\* way it scanned; it invalidates exactly the roots a change reaches through
\* includes or through the entities they use, and parses again those of them
\* that are still declared and the new ones.  What is declared is what the BUILD
\* itself composed: a Project file edited between the probe of the configuration
\* and the scan counts as an edited file, its new roots are not asked for.
PlanExact ==
    (work.phase = "done" /\ work.quiet) =>
        LET stale == StaleRoots(saved, work)
            declared == IF work.identity THEN work.roots ELSE CommittedRoots(saved)
        IN  /\ Range(work.changed) = Edited(saved)
            /\ \A i, j \in DOMAIN work.changed : i < j => work.changed[i] < work.changed[j]
            /\ work.invalidated = stale
            /\ work.replay = (stale \cap declared) \cup (declared \ CommittedRoots(saved))

\* The committed artifacts are intact throughout, so BUILD never reports one
\* of them as invalid: "A changed or missing configuration input during BUILD
\* is not itself a corrupt manifest.  It triggers recomposition."
IntactBaselineAccepted == work.result # "artifact_invalid"
=============================================================================
