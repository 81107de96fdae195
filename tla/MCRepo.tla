------------------------------- MODULE MCRepo -------------------------------
(* DiffLoad for TLC. Two committed files, A and C, and one that is not, B. *)
EXTENDS DiffLoad, TLC

CONSTANTS fileA, fileB, fileC

TextOf(top, end) == [is |-> "text", top |-> top, end |-> end]

MCNorm == ("x" :> "x") @@ (" x" :> "x") @@ ("y" :> "y") @@ ("" :> "") @@ ("gap" :> "gap")
            @@ ("Binary files " :> "Binary files")

Old      == TextOf(<<"x", "y">>, <<"y">>)
New      == TextOf(<<"y", "", " x">>, <<"x", "y">>)
Marker   == TextOf(<<"x">>, <<"Binary files ">>)
Binary   == [is |-> "binary", top |-> <<"x">>, end |-> <<>>]

MCCommitted == (fileA :> Old) @@ (fileB :> Absent) @@ (fileC :> New)
Clean       == [worktree |-> MCCommitted, index |-> MCCommitted]
Staged      == LET tree == [MCCommitted EXCEPT ![fileA] = New] IN [worktree |-> tree, index |-> tree]
MCStarts    == {Clean, Staged}
MCContents  == {Old, New, Marker, Binary}
MCOrder     == <<fileA, fileB, fileC>>

MCCodes == {<<>>, <<"x">>, <<"y", "x">>, <<"y", "", "x">>, <<"gap", "x">>}

Layer(rules, include, exclude) == [rules |-> rules, include |-> include, exclude |-> exclude]
NoLayer == Layer(<<>>, {}, {})
Entry(path, rule) == [path |-> path, rule |-> rule]

MCSystemRules == <<Entry({fileB}, "system b"), Entry({fileA, fileB, fileC}, "default")>>
Setup(layers_, ignored) == [layers |-> layers_, ignored |-> ignored]
MCSetups ==
  { Setup(<<NoLayer, NoLayer, NoLayer>>, {}),
    Setup(<<NoLayer, Layer(<<Entry({fileA}, "project")>>, {{fileB}, {fileC}}, {}),
            Layer(<<Entry({fileA, fileB}, "global")>>, {}, {{fileB}})>>, {}),
    Setup(<<Layer(<<Entry({fileA}, ""), Entry({fileA}, "custom")>>, {}, {{fileA}}),
            Layer(<<Entry({fileA, fileB}, "project")>>, {}, {{fileB}}), NoLayer>>, {fileC}) }
=============================================================================
