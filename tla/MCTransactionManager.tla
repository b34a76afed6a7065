------------------------ MODULE MCTransactionManager ------------------------
(***************************************************************************)
(* Small instances of TransactionManager.                                  *)
(***************************************************************************)
EXTENDS TransactionManager, TLC

ThreadSymmetry == Permutations(Threads)
ThreadTableSymmetry == Permutations(Threads) \cup Permutations(Tables)
=============================================================================
