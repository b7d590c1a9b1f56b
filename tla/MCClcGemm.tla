----------------------------- MODULE MCClcGemm -----------------------------
(* TLC instances of ClcGemm: the kernel with the overlapped epilogue, and    *)
(* the one with two consumers.                                              *)
EXTENDS ClcGemm

Overlapped(n) == [consumers |-> 1, lookahead |-> 2, tiles |-> n]
BothKernels == {Overlapped(3), [consumers |-> 2, lookahead |-> 1, tiles |-> 2]}
OverlappedKernel == {Overlapped(2)}
=============================================================================
