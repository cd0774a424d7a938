---------------------------- MODULE MCRuntimeIc ----------------------------
\* Small Projects: three record types, an object of the third, a constant in a
\* namespace and two references. Two versions are near when one declaration differs.
EXTENDS RuntimeIc

Intrinsic(t) == [kind |-> "intrinsic", of |-> t, const |-> FALSE]
Const(type) == [type EXCEPT !.const = TRUE]
Pointer == [kind |-> "structural", of |-> "pointer", const |-> FALSE]
ReferenceTo(loc, type) == [kind |-> "reference", of |-> "reference", const |-> FALSE,
                            at |-> loc, to |-> type]

Plain(name, type) == [name |-> name, type |-> type, plain |-> TRUE]
Initialized(name, type) == [name |-> name, type |-> type, plain |-> FALSE]
Base(t) == [type |-> t, virtual |-> FALSE]
Virtual(t) == [type |-> t, virtual |-> TRUE]
Record(bases, members) == [bases |-> bases, members |-> members]

AVersions == {Record(<<>>, <<m>>) :
    m \in {Plain("x", Intrinsic("int")), Initialized("x", Intrinsic("int")),
           Plain("x", Const(Intrinsic("int"))), Plain("x", Intrinsic("long_double"))}}

BVersions == {
    Record(<<>>, <<Plain("y", Intrinsic("int"))>>),
    Record(<<Base("A")>>, <<>>),
    Record(<<Base("A")>>, <<Plain("x", Intrinsic("real"))>>),
    Record(<<Virtual("A")>>, <<Plain("y", Intrinsic("int"))>>),
    Record(<<>>, <<Plain("a", Const(NamedType("A"))), Plain("y", Intrinsic("nullptr"))>>)}

CVersions == {
    Record(<<Base("B")>>, <<>>),
    Record(<<Base("A"), Base("B")>>, <<>>),
    Record(<<Base("A")>>, <<Plain("b", NamedType("B"))>>),
    Record(<<>>, <<Plain("b", NamedType("B")), Plain("c", Const(NamedType("B")))>>),
    Record(<<>>, <<Plain("p", Pointer)>>)}

Object(path, type) == [path |-> path, type |-> type, plain |-> TRUE]
ObjectLists == {
    <<Object(<<"o">>, NamedType("C"))>>,
    <<Object(<<"o">>, NamedType("C")), Object(<<"n", "q">>, Const(Intrinsic("int"))),
      Object(<<"r">>, ReferenceTo(<<<<"n", "q">>>>, Const(Intrinsic("int")))),
      Object(<<"s">>, ReferenceTo(<<<<"o">>>>, NamedType("C")))>>}

Version(a, b, c, objects) ==
    [types |-> [t \in {"A", "B", "C"} |-> CASE t = "A" -> a [] t = "B" -> b [] t = "C" -> c],
     objects |-> objects]
MCSchemas == {Version(a, b, c, objects) : a \in AVersions, b \in BVersions,
                                          c \in CVersions, objects \in ObjectLists}

MCNear(s) ==
    {[s EXCEPT !.types["A"] = a] : a \in AVersions}
      \cup {[s EXCEPT !.types["B"] = b] : b \in BVersions}
      \cup {[s EXCEPT !.types["C"] = c] : c \in CVersions}
      \cup {[s EXCEPT !.objects = o] : o \in ObjectLists}
=============================================================================
