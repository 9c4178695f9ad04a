----------------------------- MODULE MCProcess ------------------------------
(***************************************************************************)
(* Instances of Process for TLC.  Channels of one and two SOCKS5 clients:  *)
(* one session can fill its channel while the other handshake waits to     *)
(* pass its own on.                                                        *)
(***************************************************************************)
EXTENDS Process

CONSTANTS c1, c2, t1, o1, noWorker

=============================================================================
