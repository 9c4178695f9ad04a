---------------------------- MODULE MCHeartbeat ----------------------------
(***************************************************************************)
(* Heartbeat for TLC: the options keep the order of the default ones (3,   *)
(* 15 and 30 seconds, with the idle timeout of 30), scaled down until a    *)
(* message takes one unit and both bounds of the first round are met.      *)
(***************************************************************************)
EXTENDS Heartbeat

=============================================================================
