---------------------------- MODULE LexicalState ----------------------------
(***************************************************************************)
(* The tokens of the Project's headers and sources                         *)
(* (frontend/source_discovery.cpp, frontend/lexical_generation.cpp).  A    *)
(* REBUILD reads every file and tokenizes them on the execution lanes,     *)
(* each lane a pool of consecutive files of about equal weight, into an    *)
(* arena of its own.  A BUILD starts from the committed tokens, masks      *)
(* those of the changed files and tokenizes these and the new files.       *)
(*                                                                         *)
(* Files are numbers.  A file is its kind, its words and whether the lexer *)
(* rejects it; words stand for tokens and directives alike, and a word is  *)
(* as long as a byte.  Where the replacement index finds a record is the   *)
(* search it implements.                                                   *)
(***************************************************************************)
EXTENDS Naturals, FiniteSets, Sequences, SequencesExt, Functions

CONSTANTS LexicalProjects,   \* sequences of files a REBUILD may start from
          LexicalEdits,      \* files an edit may leave or a BUILD may add
          MaxLexicalEdits,
          LexicalLanes,      \* execution_lane_capacity
          Missing            \* a file that is gone

ASSUME LexicalStateBounds == MaxLexicalEdits \in Nat /\ LexicalLanes \in Nat \ {0}

IsSourceFile(file) ==
    file = Missing \/ (file.error \in BOOLEAN /\ file.words \in Seq(Range(file.words)))

ASSUME LexicalMenus ==
    /\ \A files \in LexicalProjects :
          files \in Seq(Range(files)) /\ \A f \in DOMAIN files : IsSourceFile(files[f])
    /\ \A file \in LexicalEdits : IsSourceFile(file)

VARIABLE lex

NoRecord == [arena |-> 0, offset |-> 0, count |-> 0]

LexicalStateInit ==
    lex = [phase |-> "idle", files |-> <<>>, changed |-> {}, baseline |-> <<>>,
           records |-> <<>>, arenas |-> <<>>, work |-> <<>>, pools |-> <<>>,
           cursor |-> <<>>, status |-> <<>>, result |-> "none", failed |-> 0]

LexicalKind(file) == file = Missing \/ file.kind \in {"header", "source"}

Weight(file) == IF file.words = <<>> THEN 1 ELSE Len(file.words)

-----------------------------------------------------------------------------
(* Pools: consecutive positions of the work list for each lane.  A lane    *)
(* closes its pool when it holds its share of the weight that is left, or  *)
(* when the lanes after it need the files that are left.                   *)

WorkWeight(files, f) ==
    IF files[f] = Missing \/ ~LexicalKind(files[f]) THEN 0 ELSE Weight(files[f])

TotalWeight(weights) == FoldLeft(LAMBDA sum, w : sum + w, 0, weights)

WorkCount(weights) == Cardinality({i \in DOMAIN weights : weights[i] # 0})

CeilingDiv(a, b) == (a + b - 1) \div b

ClosePool_Greedy(state, position, lanes, total) ==
    /\ state.lane + 1 < lanes
    /\ state.weight >= CeilingDiv(total - state.assigned, lanes - state.lane)

ClosePool(state, position, lanes, total) ==
    /\ state.lane + 1 < lanes
    /\ \/ state.weight >= CeilingDiv(total - state.assigned, lanes - state.lane)
       \/ state.left <= lanes - state.lane - 1

BuildPools(weights, lanes) ==
    LET total == TotalWeight(weights)
        step(state, i) ==
            IF weights[i] = 0 THEN state
            ELSE LET taken == [state EXCEPT !.weight = @ + weights[i], !.left = @ - 1] IN
                 IF ClosePool(taken, i, lanes, total)
                 THEN [taken EXCEPT !.lane = @ + 1, !.begin = i + 1, !.weight = 0,
                                    !.assigned = @ + taken.weight,
                                    !.pools = Append(@, <<taken.begin, i>>)]
                 ELSE taken
        pooled[n \in 0 .. Len(weights)] ==
            IF n = 0 THEN [lane |-> 0, begin |-> 1, left |-> WorkCount(weights),
                           assigned |-> 0, weight |-> 0, pools |-> <<>>]
            ELSE step(pooled[n - 1], n)
        final == pooled[Len(weights)]
    IN  IF final.lane + 1 # lanes THEN <<>>
        ELSE Append(final.pools, <<final.begin, Len(weights)>>)

\* The lanes start on the work list; with nothing to do there are none.
StartLanes(state, list) ==
    LET weights == [i \in DOMAIN list |-> WorkWeight(state.files, list[i])]
        count == WorkCount(weights)
        lanes == IF count < LexicalLanes THEN count ELSE LexicalLanes
        pools == BuildPools(weights, lanes)
    IN  IF count = 0 THEN [state EXCEPT !.phase = "done", !.result = "success"]
        ELSE IF pools = <<>> THEN [state EXCEPT !.phase = "failed", !.result = "pools"]
        ELSE [state EXCEPT !.phase = "lexing", !.work = list, !.pools = pools,
                           !.cursor = [l \in 1 .. lanes |-> pools[l][1]],
                           !.status = [l \in 1 .. lanes |-> 0]]

-----------------------------------------------------------------------------
(* REBUILD.                                                                *)

\* Every file is read first; one that is missing ends the preparation.
PrepareSources(files) ==
    /\ lex.phase = "idle"
    /\ lex' = LET state == [lex EXCEPT !.files = files,
                                       !.records = [f \in DOMAIN files |-> NoRecord],
                                       !.arenas = [l \in 1 .. LexicalLanes |-> <<>>]]
              IN  IF Missing \in Range(files)
                  THEN [state EXCEPT !.phase = "failed", !.result = "missing"]
                  ELSE StartLanes(state, [f \in DOMAIN files |-> f])

Available(state, f) ==
    state.records[f] # NoRecord \/ (f <= Len(state.baseline) /\ f \notin state.changed
                                    /\ state.baseline[f] # NoRecord)

\* The words go to the end of the lane's arena; a file is published once.
Publish(state, lane, f) ==
    [state EXCEPT !.records[f] = [arena |-> lane, offset |-> Len(state.arenas[lane]),
                                  count |-> Len(state.files[f].words)],
                  !.arenas[lane] = @ \o state.files[f].words]

\* A lane goes through its pool and stops at the first file that fails.
RunLexicalLane(lane) ==
    LET i == lex.cursor[lane]
        f == lex.work[i]
        next == [lex EXCEPT !.cursor[lane] = @ + 1]
    IN  /\ lex.phase = "lexing"
        /\ lane \in DOMAIN lex.pools
        /\ lex.status[lane] = 0
        /\ i <= lex.pools[lane][2]
        /\ lex' = IF WorkWeight(lex.files, f) = 0 \/ Available(lex, f) THEN next
                  ELSE IF lex.files[f].error THEN [lex EXCEPT !.status[lane] = f]
                  ELSE Publish(next, lane, f)

\* The first lane that failed says what is reported.
JoinLanes ==
    LET failed == {l \in DOMAIN lex.pools : lex.status[l] # 0} IN
    /\ lex.phase = "lexing"
    /\ \A l \in DOMAIN lex.pools : lex.status[l] # 0 \/ lex.cursor[l] > lex.pools[l][2]
    /\ lex' = IF failed = {}
              THEN [lex EXCEPT !.phase = "done", !.result = "success", !.pools = <<>>]
              ELSE [lex EXCEPT !.phase = "failed", !.result = "lexical", !.pools = <<>>,
                               !.failed = lex.status[CHOOSE l \in failed : \A k \in failed : l <= k]]

-----------------------------------------------------------------------------
(* BUILD.                                                                  *)

WordsAt(arenas, record) ==
    SubSeq(arenas[record.arena], record.offset + 1, record.offset + record.count)

\* The tokens the parser is given for a file.
Words(state, f) ==
    IF state.records[f] # NoRecord THEN WordsAt(state.arenas, state.records[f])
    ELSE IF f <= Len(state.baseline) /\ f \notin state.changed /\ state.baseline[f] # NoRecord
         THEN state.baseline[f].words
    ELSE <<>>

\* database.bin holds the words of every file; a BUILD binds a new generation.
BindLexicalBaseline ==
    /\ lex.phase = "done"
    /\ lex.baseline = <<>>
    /\ lex' = [lex EXCEPT !.phase = "bound",
                 !.baseline = [f \in DOMAIN lex.files |->
                                 IF Available(lex, f) THEN [words |-> Words(lex, f)] ELSE NoRecord],
                 !.records = [f \in DOMAIN lex.files |-> NoRecord],
                 !.arenas = [l \in 1 .. LexicalLanes |-> <<>>]]

\* What BUILD found changed: the file has other bytes or is gone.
ChangeFile(f, file) ==
    /\ lex.phase = "bound"
    /\ Cardinality(lex.changed) < MaxLexicalEdits
    /\ f \in DOMAIN lex.files \ lex.changed
    /\ LexicalKind(lex.files[f]) /\ lex.files[f] # file
    /\ lex' = [lex EXCEPT !.files[f] = file, !.changed = @ \cup {f}]

\* A root the configuration did not declare before.
AppendFile(file) ==
    /\ lex.phase = "bound"
    /\ Cardinality(lex.changed) < MaxLexicalEdits
    /\ lex' = [lex EXCEPT !.files = Append(@, file), !.records = Append(@, NoRecord),
                          !.changed = @ \cup {Len(lex.files) + 1}]

\* The replacement list of a BUILD is in the order of the files.
InOrder(changed, last) ==
    LET listed[n \in 0 .. last] ==
            IF n = 0 THEN <<>>
            ELSE IF n \in changed THEN Append(listed[n - 1], n) ELSE listed[n - 1]
    IN  listed[last]

\* The committed words of the changed files are masked, a missing file stays
\* masked, the new files are read, and the lanes tokenize what is there.
ReplaceSources ==
    /\ lex.phase = "bound"
    /\ lex.changed # {}
    /\ lex' = IF \E f \in lex.changed : f > Len(lex.baseline) /\ lex.files[f] = Missing
              THEN [lex EXCEPT !.phase = "failed", !.result = "missing"]
              ELSE StartLanes(lex, InOrder(lex.changed, Len(lex.files)))

LexicalStateNext ==
    \/ \E files \in LexicalProjects : PrepareSources(files)
    \/ \E lane \in 1 .. LexicalLanes : RunLexicalLane(lane)
    \/ JoinLanes
    \/ BindLexicalBaseline
    \/ \E f \in DOMAIN lex.files, file \in LexicalEdits : ChangeFile(f, file)
    \/ \E file \in LexicalEdits : AppendFile(file)
    \/ ReplaceSources

LexicalStateSpec == LexicalStateInit /\ [][LexicalStateNext]_lex

-----------------------------------------------------------------------------
Rejected(state) ==
    {f \in DOMAIN state.files : LexicalKind(state.files[f]) /\ state.files[f] # Missing
                                /\ state.files[f].error}

\* However the lanes interleave and wherever the pools are cut, every lane has
\* work, and in the end each header and source has exactly the words of its
\* present bytes, a file that is gone has none, and the words an unchanged file
\* had are still read through the committed image.  When files are rejected the
\* one that is reported is the first of them, as if one lane had read them all.
LexicalExact ==
    /\ lex.result # "pools"
    /\ lex.phase = "lexing" =>
          \A l \in DOMAIN lex.pools : \E i \in lex.pools[l][1] .. lex.pools[l][2] :
              WorkWeight(lex.files, lex.work[i]) # 0
    /\ lex.phase = "done" =>
          /\ Rejected(lex) = {}
          /\ \A f \in DOMAIN lex.files :
                IF WorkWeight(lex.files, f) = 0 THEN Words(lex, f) = <<>> /\ ~Available(lex, f)
                ELSE Words(lex, f) = lex.files[f].words /\ Available(lex, f)
    /\ lex.result = "lexical" =>
          lex.failed \in Rejected(lex) /\ \A f \in Rejected(lex) : lex.failed <= f
=============================================================================
