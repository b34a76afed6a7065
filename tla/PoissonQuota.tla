---------------------------- MODULE PoissonQuota ----------------------------
(***************************************************************************)
(* rhizo_core/src/transaction/escrow.rs: the quota a node needs for a      *)
(* Poisson number of requests.  Probabilities are in units of 1/Certain;   *)
(* mass[k], the probability of k requests, takes the place of the float    *)
(* that is multiplied by lambda / k, and sums of masses are exact.         *)
(***************************************************************************)
EXTENDS Integers

CONSTANTS
  Certain,                   \* the probability 1
  BoundFactor, BoundMargin,  \* 20 and 1000: when the search gives up
  CertainFactor              \* 10: the quota in place of an unbounded one

ASSUME PoissonAssumption ==
  /\ Certain \in Nat \ {0} /\ BoundFactor \in Nat /\ BoundMargin \in Nat
  /\ CertainFactor \in Nat

\* poisson_cdf: the probability of at most k requests.
PoissonCdf(k, lambda, mass) ==
  LET sum[i \in -1..k] == IF i < 0 THEN 0 ELSE sum[i - 1] + mass[i]
  IN IF k < 0 \/ lambda <= 0 THEN 0 ELSE sum[k]

\* Mutant: the search goes on when the target is just met.
SearchBeyond(found, p, more) ==
  IF found.done THEN found
  ELSE IF found.cdf + more > p THEN [found EXCEPT !.cdf = @ + more, !.done = TRUE]
  ELSE [found EXCEPT !.cdf = @ + more, !.k = @ + 1]

\* One turn of the loop of poisson_inverse_cdf, with the mass of found.k.
Search(found, p, more) ==
  IF found.done THEN found
  ELSE IF found.cdf + more >= p THEN [found EXCEPT !.cdf = @ + more, !.done = TRUE]
  ELSE [found EXCEPT !.cdf = @ + more, !.k = @ + 1]

PoissonInverseCdf(p, lambda, mass) ==
  LET bound == BoundFactor * lambda + BoundMargin
      found[turn \in 0..(bound + 1)] ==
        IF turn = 0 THEN [k |-> 0, cdf |-> 0, done |-> FALSE]
        ELSE Search(found[turn - 1], p, mass[turn - 1])
  IN CASE lambda <= 0 \/ p <= 0 -> 0
       [] lambda > 0 /\ p >= Certain -> CertainFactor * lambda
       [] OTHER -> found[bound + 1].k
=============================================================================
