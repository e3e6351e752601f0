---------------------------- MODULE MCRxStreamer ----------------------------
(* Instances of RxStreamer for TLC. *)
EXTENDS RxStreamer

(* A part of a frame, and more than a frame holds. *)
PartAndMore == {2, 5}
=============================================================================
