---------------------------- MODULE MCRingServer ----------------------------
(* Instances of RingServer for TLC. *)
EXTENDS RingServer
=============================================================================
