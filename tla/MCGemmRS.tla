------------------------------ MODULE MCGemmRS ------------------------------
(* TLC instances of GemmRS. *)
EXTENDS GemmRSInv, TLC

(* Group-major prefill of _queue_state with one column group. *)
RowMajor == [p \in GemmPos |-> <<p \div N_CLUSTERS, p % N_CLUSTERS>>]

Symmetry == Permutations(CTA) \cup Permutations(Cluster)
=============================================================================
