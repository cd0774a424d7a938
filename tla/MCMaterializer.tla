--------------------------- MODULE MCMaterializer ---------------------------
(***************************************************************************)
(* What may be loaded in an instance of Materializer: Projects of a union, *)
(* a struct A, a class B and a class C, defined in every combination of    *)
(* the forms below, with two static objects and objects x and y or z.      *)
(***************************************************************************)
EXTENDS Materializer

Char == <<"intrinsic", "char">>
UnionU == Named(1)
RecordA == Named(2)
RecordB == Named(3)
RecordC == Named(4)

\* Derived types, by their handles.
IntRef == Derived(1)
ARef == Derived(2)
APair == Derived(3)
IntPointer == Derived(4)
ConstA == Derived(5)
LongText == Derived(6)          \* longer than a record may be
Open == Derived(7)          \* A[]
OpenRef == Derived(8)
BRef == Derived(9)

Declared ==
    FoldLeft(LAMBDA g, t : DeclareRecord(g, t[1], t[2]), EmptyGraph,
             <<<<"U", "union">>, <<"A", "struct">>, <<"B", "class">>, <<"C", "class">>>>)

Derivable ==
    FoldLeft(LAMBDA g, d : Derive(g, d[1], d[2], d[3]), Declared,
             <<<<IntType, "lvalue_reference", 0>>, <<RecordA, "lvalue_reference", 0>>,
               <<RecordA, "bounded_array", 2>>, <<IntType, "pointer", 0>>,
               <<RecordA, "const", 0>>, <<Char, "bounded_array", 200>>,
               <<RecordA, "unbounded_array", 0>>, <<Open, "lvalue_reference", 0>>,
               <<RecordB, "lvalue_reference", 0>>>>)

\* Static objects 1 and 2, and the union.
Common ==
    LET int == AddObject(Derivable, "s", IntType, TRUE, TRUE, <<"integer", 3>>)
        both == AddObject(int, "t", IntRef, TRUE, FALSE, Zero)
    IN DefineRecord(both, 1, "union", <<[name |-> 1, type |-> Char], [name |-> 2, type |-> IntType]>>,
                    <<Zero, Zero>>, <<>>, FALSE)

\* A form of a record: its bases, whether it is virtual, its members and their
\* constructions.
Form(bases, virtual, types, cons) ==
    [bases |-> bases, virtual |-> virtual, cons |-> cons,
     members |-> [i \in DOMAIN types |-> [name |-> i, type |-> types[i]]]]

Define(g, h, kind, form) ==
    DefineRecord(g, h, kind, form.members, form.cons, form.bases, form.virtual)

\* A chain, a circle and a static binding; references to A itself, to B, which may
\* hold A, and to an array without a size; a number too large.
ChainA == Form(<<>>, FALSE, <<Char, IntType, IntRef, IntRef>>,
               <<<<"integer", 7>>, Zero, <<"member", 4>>, <<"member", 2>>>>)
OpenA == Form(<<>>, FALSE, <<IntRef, IntRef, IntType>>, <<Zero, <<"member", 1>>, <<"integer", 9>>>>)
CircleA == Form(<<>>, FALSE, <<IntRef, IntRef>>, <<<<"member", 2>>, <<"member", 1>>>>)
StaticA == Form(<<>>, FALSE, <<IntRef, IntPointer, IntRef>>, <<<<"object", 1>>, Zero, <<"object", 2>>>>)
SelfA == Form(<<>>, FALSE, <<ARef, Char>>, <<Zero, Zero>>)
LayoutForms ==
    {ChainA, Form(<<>>, FALSE, <<BRef, Char>>, <<Zero, Zero>>), Form(<<>>, FALSE, <<>>, <<>>), Form(<<>>, TRUE, <<Char>>, <<Zero>>),
     Form(<<>>, FALSE, <<RecordB>>, <<Zero>>), Form(<<>>, FALSE, <<OpenRef>>, <<Zero>>),
     Form(<<>>, FALSE, <<Char>>, <<<<"integer", 200>>>>), Form(<<>>, FALSE, <<Char, LongText>>, <<Zero, Zero>>)}
ReferenceForms == {ChainA, OpenA, CircleA, StaticA, SelfA}

FormsB ==
    {Form(<<>>, TRUE, <<Char>>, <<Zero>>), Form(<<2>>, FALSE, <<Char, IntRef>>, <<Zero, Zero>>),
     Form(<<2>>, TRUE, <<IntRef>>, <<Zero>>), Form(<<>>, FALSE, <<Char, RecordA>>, <<Zero, Zero>>),
     Form(<<>>, FALSE, <<UnionU, APair>>, <<Zero, Zero>>)}
FormsC ==
    {Form(<<2, 3>>, FALSE, <<Char>>, <<Zero>>), Form(<<3>>, FALSE, <<RecordA, Char>>, <<Zero, Zero>>),
     Form(<<>>, FALSE, <<RecordB, ARef>>, <<Zero, Zero>>)}

-----------------------------------------------------------------------------
Abi(target, pack) == [target |-> target, pack |-> pack]
Load(g, abi, base) == [graph |-> g, abi |-> abi, base |-> base]

\* Every combination of forms, laid out for several targets.
LayoutLoads(abis) ==
    LET defined(a, b, c) == Define(Define(Define(Common, 2, "struct", a), 3, "class", b), 4, "class", c)
        z(g) == AddObject(g, "z", RecordC, FALSE, FALSE, Zero)
    IN {Load(z(defined(a, b, c)), abi, 256) :
            a \in LayoutForms, b \in FormsB, c \in FormsC,
            abi \in abis}

\* Objects x of type const A and y of type B = {char; A; A[2]}, and links between
\* them.
FormY == Form(<<>>, FALSE, <<Char, RecordA, APair>>, <<Zero, Zero, Zero>>)
PathsY ==
    <<<<<<"member", 1>>, <<"member", 0>>>>, <<<<"member", 1>>, <<"member", 2>>>>,
      <<<<"member", 2>>, <<"index", 1>>, <<"member", 1>>>>,
      <<<<"member", 2>>, <<"index", 1>>, <<"member", 2>>>>, <<<<"member", 2>>, <<"index", 0>>>>>>

WithXY(a) ==
    LET defined == Define(Define(Common, 2, "struct", a), 3, "class", FormY)
        x == AddObject(defined, "x", ConstA, FALSE, FALSE, Zero)
        y == AddObject(x, "y", RecordB, FALSE, FALSE, Zero)
    IN FoldLeft(LAMBDA g, p : InternEndpointPath(g, RecordB, p), y, PathsY)

X(local) == [object |-> 3, member |-> <<"member", local>>]
Y(g, k) == [object |-> 4, member |-> <<"path", FindEndpointPath(g, RecordB, PathsY[k])>>]
EndsOf(g) ==
    {X(0), X(1), X(2)}
    \cup {Y(g, k) : k \in {i \in DOMAIN PathsY : FindEndpointPath(g, RecordB, PathsY[i]) # 0}}

\* A graph and those with one more link, if the graph accepts it.
Linked(graphs) ==
    graphs \cup UNION {{AddLink(g, p[1], p[2]) : p \in EndsOf(g) \X EndsOf(g)} : g \in graphs}

ReferenceLoads(abi) ==
    {Load(g, abi, 256) : g \in Linked(Linked({WithXY(a) : a \in ReferenceForms}))}

\* The end of the Runtime before, at and after the words kept for links.
EdgeLoads(abi) ==
    {Load(g, abi, base) :
        g \in Linked({WithXY(OpenA)}), base \in {0, 948, 952, 956, 960, 964, 1020}}

MCLoads ==
    LayoutLoads({Abi("windows_x86", 2), Abi("windows_x86", 8), Abi("windows_x64", 4),
                 Abi("windows_x64", 16), Abi("posix_x64", 8)})
    \cup ReferenceLoads(Abi("windows_x86", 8)) \cup EdgeLoads(Abi("windows_x86", 8))
=============================================================================
