----------------------------- MODULE MCEndpoint -----------------------------
(***************************************************************************)
(* Instances of Endpoint for TLC.  The ids are chosen so that an outbound  *)
(* connection r1 and an inbound one i1 reach the same peer n1 (the mutual  *)
(* configuration of the README) while r2 is alone with its id.             *)
(***************************************************************************)
EXTENDS Endpoint

CONSTANTS r1, r2, i1, n1, n2, noConn

MCPeerId == [c \in Conns |-> IF c = r2 THEN n2 ELSE n1]

=============================================================================
