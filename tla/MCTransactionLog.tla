--------------------------- MODULE MCTransactionLog ---------------------------
(***************************************************************************)
(* A small instance of TransactionLog: three transactions, a subscriber to *)
(* one of two tables.                                                      *)
(***************************************************************************)
EXTENDS TransactionLog
=============================================================================
