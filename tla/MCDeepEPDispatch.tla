-------------------------- MODULE MCDeepEPDispatch --------------------------
(* TLC instances of DeepEPDispatch: a rank may get all tokens, some or none. *)
EXTENDS DeepEPDispatch
CONSTANTS r1, r2
TwoRoutes == {[t \in Token |-> {r1}], [t \in Token |-> IF t = 0 THEN {r1, r2} ELSE {}]}
=============================================================================
