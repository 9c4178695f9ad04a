----------------------------- MODULE MCCommand ------------------------------
(***************************************************************************)
(* Instances of Command for TLC: a header of one byte in a buffer of two,  *)
(* so that datagrams of none and one byte fit and one of two does not.     *)
(***************************************************************************)
EXTENDS Command

MCFaults == {{"lost", "stalled"}, {"stop", "stalled"}, {"broken"}, {"gone"}}

=============================================================================
