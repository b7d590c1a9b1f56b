----------------------------- MODULE MCRadixTopK -----------------------------
(* TLC instances of RadixTopK: keys on both sides of the pivot, ties across  *)
(* the CTAs and, in a chunk longer than the block, across its threads, chunks *)
(* that are empty, and a row that is short.                                  *)
EXTENDS RadixTopK, TLC

Chunks(x, y, z) == [c \in CTA |-> <<x, y, z>>[c + 1]]
ThreeCtas == {Chunks(<<2>>, <<>>, <<>>), Chunks(<<0, 2, 2>>, <<3>>, <<>>),
              Chunks(<<0, 2, 1>>, <<2, 0, 3>>, <<1>>)}
=============================================================================
