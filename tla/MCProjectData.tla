--------------------------- MODULE MCProjectData ---------------------------
(***************************************************************************)
(* Model-checking instance of a Project's data: its artifacts on disk, its *)
(* graph, its interning tables, its source map, the compiled image, the    *)
(* include topology, the lexical state and the plan of a BUILD.            *)
(*                                                                         *)
(* The parts are worked on one after the other by the control thread and   *)
(* share no state while they are, so a behaviour works on one of them,     *)
(* `focus', and leaves the others as they start.                           *)
(***************************************************************************)
EXTENDS FullConstruction, GraphDelta, CompiledImage, FileTopology, LexicalState,
        MCIncrementalBuild

VARIABLE focus

-----------------------------------------------------------------------------
(***************************************************************************)
(* Hashes: few values, so that probes collide and wrap around.             *)
(***************************************************************************)
MCHash(space, key) ==
    CASE space = "identity" -> 6 + key.name
      [] space = "link" -> 5 + key.object
      [] OTHER -> 7

-----------------------------------------------------------------------------
(***************************************************************************)
(* Graph and graph delta: two types, one object, an int& and an array of   *)
(* the first type.  A definition with two references has two links.        *)
(***************************************************************************)
MemberOf(name, type) == [name |-> name, type |-> type]

MCDerivations ==
    {[child |-> IntType, kind |-> "lvalue_reference", payload |-> 0],
     [child |-> Named(1), kind |-> "bounded_array", payload |-> 1]}

MCDefinitions ==
    {[members |-> <<MemberOf(1, IntType), MemberOf(2, Derived(1))>>,
      cons |-> <<<<"integer", 1>>, <<"member", 1>>>>],
     [members |-> <<MemberOf(1, Derived(1)), MemberOf(2, Derived(1))>>,
      cons |-> <<Zero, <<"member", 1>>>>],
     [members |-> <<MemberOf(1, Derived(1))>>, cons |-> <<<<"object", 1>>>>],
     [members |-> <<MemberOf(2, Named(1))>>, cons |-> <<Zero>>]}

MCObjectTypes == {Named(1), IntType, Derived(2)}

MCInitials ==
    {[static |-> TRUE, initialized |-> TRUE, initial |-> <<"integer", 1>>],
     [static |-> FALSE, initialized |-> FALSE, initial |-> Zero]}

MCPaths ==
    {[root |-> Named(1), steps |-> <<<<"member", 0>>>>],
     [root |-> Derived(2), steps |-> <<<<"index", 0>>, <<"member", 1>>>>]}

\* Bound: the construction goes on to MaxFills operations, so that types and links
\* follow a link; a baseline that a BUILD works on has at most these.
BaselineFills == 5

-----------------------------------------------------------------------------
(***************************************************************************)
(* Source map: two files, two forms of one type, an object that the graph  *)
(* lost, four dependencies and a fifth that the graph lost.  The fifth use *)
(* of a dependency makes the index of four grow.                           *)
(***************************************************************************)
MCMapData == {<<"type_declaration", 1>>, <<"type_definition", 1>>, <<"object", 2>>}
MCLiveData == MCMapData \ {<<"object", 2>>}

\* Bound: contributions and dependencies together, a contribution counts twice.
MapRecords == 6

-----------------------------------------------------------------------------
(***************************************************************************)
(* Compiled image: struct a {int; int&}, class b : a {int&; a}, three      *)
(* objects, two links, one of them to a member of a member.                *)
(***************************************************************************)
Entity(slot, kind) == <<slot, kind>>
Root == Entity(1, "root")
Endpoint(object, member) == [object |-> object, member |-> member]

TypesOnly ==
    LET declared == DeclareRecord(DeclareRecord(EmptyGraph, Entity(2, "type"), "struct"),
                                  Entity(3, "type"), "class")
        derived == Derive(declared, IntType, "lvalue_reference", 0)
        first == DefineRecord(derived, 1, "struct",
                     <<MemberOf(1, IntType), MemberOf(2, Derived(1))>>,
                     <<<<"integer", 1>>, <<"member", 1>>>>, <<>>, TRUE)
    IN DefineRecord(first, 2, "class", <<MemberOf(1, Derived(1)), MemberOf(2, Named(1))>>,
                    <<Zero, Zero>>, <<1>>, FALSE)

WithObjects ==
    AddObject(AddObject(AddObject(TypesOnly,
        Entity(4, "object"), Named(1), FALSE, FALSE, Zero),
        Entity(5, "object"), Named(2), FALSE, FALSE, Zero),
        Entity(6, "object"), IntType, TRUE, TRUE, <<"integer", 5>>)

WithLinks ==
    LET path == InternEndpointPath(WithObjects, Named(2), <<<<"member", 1>>, <<"member", 1>>>>)
    IN AddLink(AddLink(path, Endpoint(1, <<"member", 0>>), Endpoint(2, <<"path", 1>>)),
               Endpoint(1, <<"member", 1>>), Endpoint(2, <<"member", 0>>))

NamedIdentity(slot, kind, name) ==
    [self |-> Entity(slot, kind), parent |-> Root, name |-> name]

Contribution(file, kind, slot) == [file |-> file, data |-> <<kind, slot>>]

MCProject ==
    [strings |-> <<<<"a">>, <<"b", "b">>, <<"c">>>>,
     identities |-> <<[self |-> Root, parent |-> NoIdentity, name |-> 0],
                      NamedIdentity(2, "type", 1), NamedIdentity(3, "type", 2),
                      NamedIdentity(4, "object", 1), NamedIdentity(5, "object", 3),
                      NamedIdentity(6, "object", 2)>>,
     graph |-> WithLinks,
     assigns |-> AddAssign(AddAssign(<<>>, 1, 2), 1, 1),
     files |-> <<[kind |-> "header", path |-> <<"h">>], [kind |-> "source", path |-> <<"s", "s">>]>>,
     sources |->
        [contributions |->
            <<Contribution(1, "type_definition", 2), Contribution(1, "type_definition", 3),
              Contribution(1, "object", 6), Contribution(2, "object", 4),
              Contribution(2, "object", 5), Contribution(2, "link", 1), Contribution(2, "link", 2)>>,
         roots |-> <<<<0, 3>>, <<3, 4>>>>, files |-> <<<<0, 3>>, <<3, 4>>>>,
         fileIndices |-> <<1, 2, 3, 4, 5, 6, 7>>]]

MCProjects == {MCProject}
MCForeignRecords == [s \in SectionIds |-> {}]

-----------------------------------------------------------------------------
(***************************************************************************)
(* Lexical state: four files of five kinds, and edits that lengthen a      *)
(* file, break it or remove it.                                            *)
(***************************************************************************)
LexicalFile(kind, words, error) == [kind |-> kind, words |-> words, error |-> error]

MCLexicalProjects ==
    [1 .. 4 -> {LexicalFile("project", <<>>, FALSE), LexicalFile("source", <<>>, FALSE),
                LexicalFile("header", <<"a">>, FALSE), LexicalFile("source", <<"b", "c", "d">>, FALSE),
                LexicalFile("source", <<"e">>, TRUE)}]
    \cup {<<LexicalFile("source", <<>>, FALSE), Missing>>}

MCLexicalEdits == {Missing, LexicalFile("source", <<"f", "g">>, FALSE), LexicalFile("source", <<"h">>, TRUE)}

-----------------------------------------------------------------------------
MCInit ==
    /\ focus \in {"artifacts", "graph", "interning", "source_map", "image",
                  "topology", "lexical", "build"}
    /\ Init /\ GraphInit /\ InterningInit /\ SourceMapInit /\ ImageInit
    /\ FileTopologyInit /\ LexicalStateInit /\ IncrementalBuildInit

ArtifactsStep == focus = "artifacts" /\ Next
GraphStep ==
    /\ focus = "graph"
    /\ GraphNext
    /\ bound' => bound \/ edits <= BaselineFills
InterningStep == focus = "interning" /\ InterningNext
SourceMapStep ==
    /\ focus = "source_map"
    /\ SourceMapNext
    /\ 2 * Len(smap'.contributions) + Len(smap'.dependencies) <= MapRecords
ImageStep == focus = "image" /\ ImageNext
TopologyStep == focus = "topology" /\ FileTopologyNext
LexicalStep == focus = "lexical" /\ LexicalStateNext
BuildStep == focus = "build" /\ IncrementalBuildNext

MCVars == <<focus, vars, graphVars, internVars, smap, imageVars, topology, lex, buildVars>>

\* The artifacts are never stuck; the other parts end when a bound is reached.
Ends == focus # "artifacts" /\ UNCHANGED MCVars

MCNext ==
    /\ UNCHANGED focus
    /\ \/ ArtifactsStep /\ UNCHANGED <<graphVars, internVars, smap, imageVars, topology, lex, buildVars>>
       \/ GraphStep /\ UNCHANGED <<vars, internVars, smap, imageVars, topology, lex, buildVars>>
       \/ InterningStep /\ UNCHANGED <<vars, graphVars, smap, imageVars, topology, lex, buildVars>>
       \/ SourceMapStep /\ UNCHANGED <<vars, graphVars, internVars, imageVars, topology, lex, buildVars>>
       \/ ImageStep /\ UNCHANGED <<vars, graphVars, internVars, smap, topology, lex, buildVars>>
       \/ TopologyStep /\ UNCHANGED <<vars, graphVars, internVars, smap, imageVars, lex, buildVars>>
       \/ LexicalStep /\ UNCHANGED <<vars, graphVars, internVars, smap, imageVars, topology, buildVars>>
       \/ BuildStep /\ UNCHANGED <<vars, graphVars, internVars, smap, imageVars, topology, lex>>
       \/ Ends

MCSpec == MCInit /\ [][MCNext]_MCVars
=============================================================================
