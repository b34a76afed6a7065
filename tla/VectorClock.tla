----------------------------- MODULE VectorClock -----------------------------
(***************************************************************************)
(* rhizo_core/src/distributed/vector_clock.rs.  A clock maps the nodes it  *)
(* has heard of to counters; a node it has not heard of counts as 0, but   *)
(* the derived equality tells a missing entry from an explicit 0.          *)
(***************************************************************************)
EXTENDS Integers

CONSTANT NodeId    \* names of nodes

IsClock(c) ==
  /\ c = [n \in DOMAIN c |-> c[n]] /\ DOMAIN c \subseteq NodeId
  /\ \A n \in DOMAIN c : c[n] \in Nat

\* VectorClock::new
EmptyClock == [n \in {} |-> 0]

\* get: the counter of a node.
Time(c, n) == IF n \in DOMAIN c THEN c[n] ELSE 0

\* set
SetTime(c, n, t) == [m \in DOMAIN c \cup {n} |-> IF m = n THEN t ELSE c[m]]

\* tick, and ticked which works on a copy
Tick(c, n) == SetTime(c, n, Time(c, n) + 1)

Larger(i, j) == IF i >= j THEN i ELSE j

\* merge, and max which works on a copy
MergeClocks(c, d) ==
  [n \in DOMAIN c \cup DOMAIN d |-> Larger(Time(c, n), Time(d, n))]

\* partial_cmp: some entry of c is below that of d.
Below(c, d) == \E n \in DOMAIN c \cup DOMAIN d : Time(c, n) < Time(d, n)

\* CausalOrder, and compare which names the four answers of partial_cmp
CausalOrder == {"Before", "After", "Concurrent", "Equal"}
Compare(c, d) ==
  CASE Below(c, d) /\ ~Below(d, c) -> "Before"
    [] ~Below(c, d) /\ Below(d, c) -> "After"
    [] ~Below(c, d) /\ ~Below(d, c) -> "Equal"
    [] Below(c, d) /\ Below(d, c) -> "Concurrent"

ConcurrentWith(c, d) == Compare(c, d) = "Concurrent"

\* CausalOrder::needs_merge and should_apply
NeedsMerge(order) == order = "Concurrent"
ShouldApply(order) == order \in {"Before", "Concurrent"}

-----------------------------------------------------------------------------
(* Laws of three clocks                                                     *)

AtOrBefore(c, d) == Compare(c, d) \in {"Before", "Equal"}

\* compare is a partial order in which "Equal" means the same times, and its
\* answers for (c, d) and (d, c) mirror each other (vector_clock.rs:201).
CompareIsPartialOrder(c, d, e) ==
  /\ AtOrBefore(c, d) /\ AtOrBefore(d, e) => AtOrBefore(c, e)
  /\ Compare(c, d) = "Before" <=> Compare(d, c) = "After"
  /\ Compare(c, d) = "Equal" <=> \A n \in NodeId : Time(c, n) = Time(d, n)

\* The merge of two clocks is their least upper bound: a node that merges a
\* clock has seen what either has seen and nothing else, and an update should be
\* applied exactly when its clock has something to tell.
ClockMergeIsJoin(c, d, e) ==
  /\ AtOrBefore(c, MergeClocks(c, d)) /\ AtOrBefore(d, MergeClocks(c, d))
  /\ AtOrBefore(c, e) /\ AtOrBefore(d, e) => AtOrBefore(MergeClocks(c, d), e)
  /\ ShouldApply(Compare(c, d)) <=> Compare(c, MergeClocks(c, d)) = "Before"
  /\ NeedsMerge(Compare(c, d)) <=>
       Compare(c, MergeClocks(c, d)) = "Before" /\ Compare(d, MergeClocks(c, d)) = "Before"
=============================================================================
