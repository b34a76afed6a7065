------------------------------ MODULE VersionLog ------------------------------
(***************************************************************************)
(* What the catalog promises about the versions of one table: they are     *)
(* numbered without a gap, never change once they are there, and only      *)
(* versions before the latest are ever deleted.                            *)
(***************************************************************************)
EXTENDS Naturals

CONSTANT Payloads     \* what a version may hold: its list of chunk hashes

VARIABLES
  latest,    \* the latest version, 0 for an empty table
  content    \* the versions that exist, as pairs of a number and a payload

LogInit == latest = 0 /\ content = {}

LogCommit(c) ==
  /\ latest' = latest + 1
  /\ content' = content \cup {<<latest + 1, c>>}

LogDelete(e) ==
  /\ e[1] # latest
  /\ content' = content \ {e}
  /\ UNCHANGED latest

LogNext ==
  \/ \E c \in Payloads : LogCommit(c)
  \/ \E e \in content : LogDelete(e)

LogSpec == LogInit /\ [][LogNext]_<<latest, content>>
=============================================================================
