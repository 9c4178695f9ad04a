---------------------------- MODULE MCRemoteNode ----------------------------
(***************************************************************************)
(* Instances of RemoteNode for TLC: a call of each kind and a stream, with  *)
(* channels of one: one caller fills its own and the other waits for room. *)
(***************************************************************************)
EXTENDS RemoteNode

CONSTANTS e1, m1, s1

=============================================================================
