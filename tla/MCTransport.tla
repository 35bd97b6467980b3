---------------------------- MODULE MCTransport ----------------------------
(***************************************************************************)
(* MyTransport within reach of the gateway and of one repeater.            *)
(***************************************************************************)
EXTENDS MyTransport

CONSTANTS gateway, repeater

MCDistance == [n \in Neighbours |-> IF n = gateway THEN 0 ELSE 1]
=============================================================================
