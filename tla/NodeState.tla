------------------------------ MODULE NodeState ------------------------------
(***************************************************************************)
(* The state of a node and what an update makes of it: what                *)
(* transaction/coordination_free.rs calls apply_update_to_state, which the *)
(* threads of a CoordinationFreeManager and the tasks of a NetworkNode go  *)
(* through, and the same steps without errors in the nodes of              *)
(* distributed/simulation.rs.                                              *)
(***************************************************************************)
EXTENDS LocalCommit, FiniteSets, FiniteSetsExt

EmptyState == [k \in {} |-> Null]

\* The type of operation and the value of each key that was written.
IsState(s) ==
  DOMAIN s \subseteq Keys /\ \A k \in DOMAIN s : s[k] \in [op : OpType, value : AlgebraicValue]

\* One operation: the first value of a key is taken as it is; one of another
\* type of operation, or one that does not merge, is an error.
ApplyOperation(s, o) ==
  LET merged == IF o.key \in DOMAIN s
                THEN IF s[o.key].op = o.op THEN Merge(o.op, s[o.key].value, o.value) ELSE Conflict
                ELSE Merged(o.value)
  IN [ok |-> IsMerged(merged),
      state |-> IF IsMerged(merged)
                THEN [k \in DOMAIN s \cup {o.key} |->
                        IF k = o.key THEN [op |-> o.op, value |-> merged.value] ELSE s[k]]
                ELSE s]

\* The state after each number of operations was tried, from none on.
StatesAfter(s, ops) ==
  LET after[i \in 0..Len(ops)] ==
        IF i = 0 THEN s ELSE ApplyOperation(after[i - 1], ops[i]).state
  IN after

\* The operations before the first error, done of them, stay applied.
ApplyUpdateToState(s, u) ==
  LET ops == u.operations
      after == StatesAfter(s, ops)
      merged == {i \in DOMAIN ops : \A j \in 1..i : ApplyOperation(after[j - 1], ops[j]).ok}
      done == Cardinality(merged)
  IN [ok |-> done = Len(ops), state |-> after[done], done |-> done]

\* What the values of a key come to, in whatever order they were merged: their
\* sum, their maximum or their union.
Combined(op, values) ==
  CASE op = "ADD" -> Integer(SumFunction(values))
    [] op = "MAX" -> Integer(Max(Range(values)))
    [] op = "UNION" -> StringSet(UNION Range(values))
=============================================================================
