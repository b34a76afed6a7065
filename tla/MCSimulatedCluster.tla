-------------------------- MODULE MCSimulatedCluster --------------------------
(***************************************************************************)
(* A small instance of SimulatedCluster: three nodes that add to a counter *)
(* and, in the same transaction, to a set, or raise a maximum.             *)
(***************************************************************************)
EXTENDS SimulatedCluster

MCMinInt == -16
MCFloatValues == -16..16

AddAndTag == <<Operation("counter", "ADD", Integer(2)),
               Operation("tags", "UNION", StringSet({"a"})),
               Operation("counter", "ADD", Integer(1))>>
RaiseAndTag == <<Operation("top", "MAX", Integer(3)),
                 Operation("tags", "UNION", StringSet({"b"}))>>
Uncoordinated == {AddAndTag, RaiseAndTag}

\* A run in which nothing but the generator of faults loses a message.
LinksStayUp == partitions = {}

\* Every operation is algebraic, but the nodes differ in how they use a key.
MixedUse == {<<Operation("top", "MAX", Integer(3))>>, <<Operation("top", "ADD", Integer(1))>>}
=============================================================================
