---------------------------- MODULE MCNetworkNode ----------------------------
(***************************************************************************)
(* A small instance of NetworkNode.                                        *)
(***************************************************************************)
EXTENDS NetworkNode

MCMinInt == -16
MCFloatValues == -16..16
MCTransactions == {<<Operation("counter", "ADD", Integer(1))>>}
=============================================================================
