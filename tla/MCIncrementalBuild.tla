------------------------- MODULE MCIncrementalBuild -------------------------
(***************************************************************************)
(* Model-checking instance of IncrementalBuild: a root and a nested        *)
(* Project file, two sources and a header.  Content 3 of the root changes  *)
(* the preprocessor, content 2 of the nested Project drops the second      *)
(* source, content 3 of the first source no longer provides what the       *)
(* second one uses.                                                        *)
(***************************************************************************)
EXTENDS IncrementalBuild

Holds(includes, provides, uses, preprocessor) ==
    [includes |-> includes, provides |-> provides, uses |-> uses, preprocessor |-> preprocessor]

MCInputKinds == <<"project", "project", "source", "source", "header">>

MCTextOf ==
    <<<<Holds({2, 3}, {}, {}, 1), Holds({2, 3, 4}, {}, {}, 1), Holds({2, 3}, {}, {}, 2)>>,
      <<Holds({4}, {}, {}, 0), Holds({}, {}, {}, 0)>>,
      <<Holds({5}, {"A"}, {"H"}, 0), Holds({}, {"A"}, {}, 0), Holds({5}, {}, {"H"}, 0)>>,
      <<Holds({}, {"B"}, {"A"}, 0), Holds({5}, {"B"}, {"A"}, 0)>>,
      <<Holds({}, {"H"}, {}, 0), Holds({}, {"H"}, {}, 0)>>>>

MCWrites == {<<1, 3>>, <<2, 2>>, <<2, 1>>, <<5, 2>>, <<3, 2>>, <<3, 3>>}
MCReplacements == {<<5, 2>>, <<3, 1>>}
MCDirectoryChanges == {<<4, 2>>}
=============================================================================
