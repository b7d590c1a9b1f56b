---------------------------- MODULE DeepEPCalls ----------------------------
(* What the dispatch and the combine share: a stream per rank that runs one *)
(* call after another, the two barriers of the ranks every call takes, and   *)
(* the SMs of a rank.                                                       *)
EXTENDS NvlinkBarrier

CONSTANT NUM_SMS
VARIABLE call      \* per rank: the calls its stream has begun

SM == 0 .. NUM_SMS - 1
CALLS == BARRIERS \div 2
=============================================================================
