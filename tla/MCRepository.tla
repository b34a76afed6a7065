----------------------------- MODULE MCRepository -----------------------------
(***************************************************************************)
(* A small instance of Repository: one table, two chunks, a branch besides *)
(* main.                                                                   *)
(***************************************************************************)
EXTENDS Repository
=============================================================================
