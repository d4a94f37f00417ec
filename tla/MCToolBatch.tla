----------------------------- MODULE MCToolBatch -----------------------------
(* Three calls over two files: a reader and a writer of the first, a       *)
(* writer of the second, a reader of the whole tree, an undeclared tool.   *)
(* Names of the model's file system ignore case.                           *)
EXTENDS ToolBatch

Segments == {"a", "A", "b"}
MCFold == [s \in Segments |-> IF s = "A" THEN "a" ELSE s]

MCFiles == {<<>>} \cup [1..1 -> Segments] \cup [1..2 -> Segments]

MCAccessChoices ==
    { {FileAccess("read", <<"a">>, FALSE)},
      {FileAccess("write", <<"A">>, FALSE)},
      {FileAccess("write", <<"b">>, FALSE)},
      {FileAccess("search", <<>>, TRUE)},
      {AllAccess} }
=============================================================================
