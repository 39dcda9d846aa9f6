------------------------------ MODULE MCUnpack ------------------------------
EXTENDS Unpack

File(name, data) == [name |-> name, dir |-> FALSE, data |-> data]
Dir(name) == [name |-> name, dir |-> TRUE, data |-> <<>>]

(* A directory, listed twice, with a file in it; two files that end up at  *)
(* one path, one longer; a file where another entry needs a directory.     *)
Listings ==
  {<<Dir(<<"d">>), File(<<"d", "f">>, <<1, 2>>), File(<<"g">>, <<3>>)>>,
   <<File(<<"f">>, <<1, 2>>), File(<<"..", "f">>, <<3, 4>>), File(<<"g">>, <<5>>)>>,
   <<File(<<"f">>, <<1, 2, 3>>), File(<<"f">>, <<4>>)>>,
   <<File(<<"d">>, <<1>>), File(<<"d", "f">>, <<2>>)>>,
   <<Dir(<<"d">>), Dir(<<"d">>), File(<<"d", "f">>, <<1>>)>>,
   <<>>}

SomeArchives == [format : {"zip", "tar", "7z", "rar", "unknown"}, entries : Listings]
=============================================================================
