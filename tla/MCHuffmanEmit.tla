---------------------------- MODULE MCHuffmanEmit ----------------------------
(* Blocks whose tokens fill a workgroup, fall short of one and spill into  *)
(* a second, with writes that cross words and codes that end in ones.      *)
EXTENDS HuffmanEmit

W(bits, ones) == [bits |-> bits, ones |-> ones]
Lit == <<W(2, {0, 1})>>
Match == <<W(3, {0, 2}), W(1, {0}), W(2, {1}), W(4, {0, 3})>>
Eob == W(3, {1, 2})
Header == W(3, {0, 1})

MCBlocks ==
  {[header |-> Header, tokens |-> <<Lit>>, eob |-> Eob],
   [header |-> W(5, {0, 4}), tokens |-> <<Lit, Match, Lit, Lit>>, eob |-> Eob],
   [header |-> Header, tokens |-> <<Lit, Lit, Match, Lit, Lit>>, eob |-> Eob]}
=============================================================================
