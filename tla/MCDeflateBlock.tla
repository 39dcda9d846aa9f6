--------------------------- MODULE MCDeflateBlock ---------------------------
(***************************************************************************)
(* Token streams for DeflateBlock.  They are families, each aimed at one   *)
(* boundary of the encoders, instead of all streams up to a length.        *)
(***************************************************************************)
EXTENDS DeflateBlock

Lit(byte) == [length |-> 0, distance |-> byte]
Ref(length, distance) == [length |-> length, distance |-> distance]
Times(n, t) == [k \in 1 .. n |-> t]

(* Two literals at the ends of a run of zeros, the second repeated: runs   *)
(* of every length at which the coding of zeros changes, and what is left  *)
(* of the alphabet after it.                                               *)
Gaps == {<<Lit(0), Lit(g), Lit(g)>> : g \in {1, 2, 3, 4, 5, 10, 11, 12, 13, 117, 118, 139, 140, 150, 255}}

(* n literals in a row with codes of one or two lengths: repeats of 3 to 6 *)
(* and beyond, and more symbols than a code within LitCap has room for.    *)
Rows == {[k \in 1 .. n |-> Lit(k - 1)] : n \in {0, 1, 2, 3, 5, 7, 8, 11, 15, 16}}

(* Frequencies whose tree is deeper than LitCap: with the one end of the   *)
(* block, each is about as large as the smaller ones together.             *)
Deep == {<<Lit(1)>> \o Times(2, Lit(2)) \o Times(a, Lit(3)) \o Times(b, Lit(4)) \o Times(c, Ref(3, 1))
           : a \in {3, 4}, b \in {5, 8}, c \in {8, 16}}

(* The first and the last length and distance of every row of the tables.  *)
Last(rows, w, limit) == RowEnd(rows, w, limit) - 1
Bounds ==
  {LET v == Lesser(w, 29)
   IN  <<Lit(0), Ref(LenRows[v].base, DistRows[w].base),
         Ref(Last(LenRows, v, 259), Last(DistRows, w, 32769))>> : w \in 1 .. 30}

(* Two and three distances in use, with and without the first.             *)
Dists == {<<Lit(9), Ref(4, d), Ref(11, e), Ref(3, f)>> : d, e \in {1, 2, 300}, f \in {1, 5000}}

MCStreams == Gaps \cup Rows \cup Deep \cup Bounds \cup Dists

(* The three forms of the tables are the same function, on every length    *)
(* and every distance DEFLATE has.                                         *)
ASSUME TablesAgree ==
  /\ \A len \in 3 .. 258 : length_code(len) = FastLength(len) /\ length_code(len) = host_length_code(len)
  /\ \A d \in 1 .. 32768 : distance_code(d) = FastDistance(d) /\ distance_code(d) = host_distance_code(d)
=============================================================================
