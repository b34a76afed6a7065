----------------------------- MODULE LocalCommit -----------------------------
(***************************************************************************)
(* rhizo_core/src/distributed/local_commit.rs: transactions of algebraic   *)
(* operations that a node commits on its own, and the merge of their       *)
(* updates.  Metadata and texts of errors are left out; update_id, which   *)
(* only tests set, too.                                                    *)
(***************************************************************************)
EXTENDS AlgebraicMerge, VectorClock, Sequences
LOCAL INSTANCE SequencesExt

CONSTANT Keys    \* names of the values the operations work on

Operation(k, op, v) == [key |-> k, op |-> op, value |-> v]
AlgebraicOperation == [key : Keys, op : OpType, value : AlgebraicValue]

\* A transaction is the sequence of its operations.
IsFullyAlgebraic(tx) == \A i \in DOMAIN tx : tx[i].op \in ConflictFree

\* non_algebraic_operations
NonAlgebraic(tx) == SelectSeq(tx, LAMBDA o : o.op \notin ConflictFree)

CanCommitLocally(tx) == tx # <<>> /\ IsFullyAlgebraic(tx)

\* VersionedUpdate; the origin of a merged update is the sequence of the
\* origins it was merged from.
IsUpdate(u) ==
  /\ u = [operations |-> u.operations, clock |-> u.clock, origin |-> u.origin]
  /\ u.operations \in Seq(AlgebraicOperation)
  /\ IsClock(u.clock) /\ u.origin \in Seq(NodeId)

CompareUpdates(u, v) == Compare(u.clock, v.clock)

Ok(u) == [ok |-> TRUE, update |-> u]
Error(e) == [ok |-> FALSE, error |-> e]

\* commit_local of a node with clock c: the clock it leaves, and its result.
ClockAfterCommit(tx, node, c) == IF CanCommitLocally(tx) THEN Tick(c, node) ELSE c

CommitLocal(tx, node, c) ==
  CASE tx = <<>> -> Error("EmptyTransaction")
    [] tx # <<>> /\ ~IsFullyAlgebraic(tx) -> Error("NonAlgebraic")
    [] CanCommitLocally(tx) ->
         Ok([operations |-> tx, clock |-> Tick(c, node), origin |-> <<node>>])

\* Mutant: the last operation of a key wins.
LastOperation(ops) == Merged(ops[Len(ops)].value)

\* merge_operations_for_key: the outcome of folding operations of one key.
MergeOperations(ops) ==
  LET outcome[i \in DOMAIN ops] ==
        IF i = 1 THEN Merged(ops[1].value)
        ELSE IF IsMerged(outcome[i - 1]) THEN Merge(ops[i].op, outcome[i - 1].value, ops[i].value)
        ELSE outcome[i - 1]
  IN IF \E i \in DOMAIN ops : ops[i].op # ops[1].op THEN Conflict ELSE outcome[Len(ops)]

ForKey(ops, k) == FlattenSeq([i \in DOMAIN ops |-> IF ops[i].key = k THEN <<ops[i]>> ELSE <<>>])
KeysOf(ops) == {ops[i].key : i \in DOMAIN ops}

\* The grouping by key that merge_updates and merge_all share.  The code
\* goes through the keys in the order of a hash map: which error it reports,
\* and the order of the merged operations, are left open by a CHOOSE.
MergeByKey(ops, clock, origin) ==
  LET outcome(k) == MergeOperations(ForKey(ops, k))
      failed == {k \in KeysOf(ops) : ~IsMerged(outcome(k))}
      merged == {Operation(k, ForKey(ops, k)[1].op, outcome(k).value) : k \in KeysOf(ops)}
  IN IF failed # {} THEN Error(outcome(CHOOSE k \in failed : TRUE).outcome)
     ELSE Ok([operations |-> SetToSeq(merged), clock |-> clock, origin |-> origin])

MergeUpdates(u, v) ==
  MergeByKey(u.operations \o v.operations,
             MergeClocks(u.clock, v.clock), u.origin \o v.origin)

MergedClocks(us) ==
  LET clock[i \in DOMAIN us] ==
        IF i = 1 THEN us[1].clock ELSE MergeClocks(clock[i - 1], us[i].clock)
  IN clock

\* merge_all: one update is given back as it is, its operations unmerged.
MergeAll(us) ==
  CASE us = <<>> -> Error("EmptyTransaction")
    [] Len(us) = 1 -> Ok(us[1])
    [] OTHER -> MergeByKey(FlattenSeq([i \in DOMAIN us |-> us[i].operations]),
                           MergedClocks(us)[Len(us)],
                           FlattenSeq([i \in DOMAIN us |-> us[i].origin]))
=============================================================================
