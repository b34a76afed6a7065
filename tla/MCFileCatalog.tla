---------------------------- MODULE MCFileCatalog ----------------------------
(***************************************************************************)
(* Small instances of FileCatalog.                                         *)
(***************************************************************************)
EXTENDS FileCatalog, TLC

\* Processes and chunk lists have no properties of their own.
ProcPayloadSymmetry == Permutations(Procs) \cup Permutations(Payloads)
=============================================================================
