-------------------------- MODULE MCCoordinationFree --------------------------
(***************************************************************************)
(* A small instance of CoordinationFree: the node adds to a counter and a  *)
(* set; what arrives raises a maximum, or uses the counter as a maximum,   *)
(* which does not merge with the sums.                                     *)
(***************************************************************************)
EXTENDS CoordinationFree

MCMinInt == -16
MCFloatValues == -16..16

MCTransactions ==
  {<<Operation("tags", "UNION", StringSet({"a"})), Operation("counter", "ADD", Integer(2))>>,
   <<Operation("counter", "ADD", Integer(1))>>}

MCRemoteUpdates ==
  {CommitLocal(<<Operation("counter", "MAX", Integer(3))>>, "m", EmptyClock).update}
=============================================================================
