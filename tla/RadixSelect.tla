----------------------------- MODULE RadixSelect -----------------------------
(***************************************************************************)
(* How the top-k of src/tirx_kernels/ported/flashinfer/topk/                *)
(* radix_topk_multi_cta.py narrows down its pivot: digit by digit from the  *)
(* top, a histogram of the keys that agree with the digits found so far,    *)
(* its suffix sums by doubling strides, and the bucket in which the count   *)
(* of larger keys passes the number still wanted.                           *)
(***************************************************************************)
EXTENDS Integers, FiniteSets

CONSTANT BITS                 \* bits of a digit: 8 in the code
ASSUME BitsAssumption == BITS \in Nat \ {0}

TwoTo[n \in Nat] == IF n = 0 THEN 1 ELSE 2 * TwoTo[n - 1]      \* 1 << n
RADIX == TwoTo[BITS]
Bucket == 0 .. RADIX - 1
NoKeys == [b \in Bucket |-> 0]

(* With n digits still to find, the last of them being digit 1.              *)
Unit(n) == TwoTo[BITS * (n - 1)]             \* 1 << shift
Masked(key, n) == (key \div Unit(n + 1)) * Unit(n + 1)
Digit(key, n) == (key \div Unit(n)) % RADIX
Histogram(keys, prefix, n) ==
  [b \in Bucket |-> Cardinality({i \in DOMAIN keys : /\ Masked(keys[i], n) = prefix
                                                     /\ Digit(keys[i], n) = b})]
Added(h, g) == [b \in Bucket |-> h[b] + g[b]]

(* RadixSuffixSum: BITS strides of 1, 2, 4, ...                              *)
StridedAround(sums, stride) == [b \in Bucket |-> sums[b] + sums[(b + stride) % RADIX]]
Strided(sums, stride) ==
  [b \in Bucket |-> sums[b] + IF b + stride < RADIX THEN sums[b + stride] ELSE 0]
SuffixSums(h) ==
  LET scan[n \in 0 .. BITS] == IF n = 0 THEN h ELSE Strided(scan[n - 1], TwoTo[n - 1])
  IN scan[BITS]
Beyond(sums, b) == IF b + 1 < RADIX THEN sums[b + 1] ELSE 0

(* The bucket of the pivot, and how many keys are wanted of those in it.     *)
Found(sums, b, wanted) == sums[b] >= wanted /\ Beyond(sums, b) < wanted
Threshold(h, wanted) ==
  LET sums == SuffixSums(h)
      hits == {b \in Bucket : Found(sums, b, wanted)}
  IN IF hits = {} THEN {[bucket |-> 0, wanted |-> wanted]}
     ELSE {[bucket |-> b, wanted |-> wanted - Beyond(sums, b)] : b \in hits}

-----------------------------------------------------------------------------
(* The K-th largest of a family of keys, by definition.                      *)
KthLargest(keys, k) ==
  CHOOSE v \in {keys[i] : i \in DOMAIN keys} :
     /\ Cardinality({i \in DOMAIN keys : keys[i] > v}) < k
     /\ Cardinality({i \in DOMAIN keys : keys[i] >= v}) >= k
=============================================================================
