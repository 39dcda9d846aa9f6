--------------------------- MODULE MCPackSession ---------------------------
EXTENDS PackSession

Made(kind, children, size, target) ==
  [kind |-> kind, children |-> children, size |-> size, target |-> target]

(* A directory with a file of two units, a link back to it, and a socket,  *)
(* and beside it a file that a second link points to.                      *)
SmallTree ==
  [n \in {"dir", "file", "up", "sock", "flat", "empty", "to"} |->
     CASE n = "dir" -> Made("dir", <<"file", "sock", "up">>, 0, "")
       [] n = "flat" -> Made("dir", <<"empty", "file", "to">>, 0, "")
       [] n = "file" -> Made("file", <<>>, 2, "")
       [] n = "empty" -> Made("file", <<>>, 0, "")
       [] n = "up" -> Made("link", <<>>, 0, "dir")
       [] n = "to" -> Made("link", <<>>, 0, "file")
       [] n = "sock" -> Made("socket", <<>>, 0, "")]

SmallHeight == [n \in DOMAIN SmallTree |-> IF SmallTree[n].kind = "dir" THEN 1 ELSE 0]

SomeRequests ==
  [format : {"zip", "tar", "tar.gz", "tar.zst", "tar.xz"}, choice : {"cpu", "gpu", "auto"},
   adapter : BOOLEAN, inputs : {<<"dir">>, <<"flat">>, <<"up", "flat">>},
   unreadable : {{}, {"file"}, {"flat"}}]
=============================================================================
