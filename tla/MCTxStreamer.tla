---------------------------- MODULE MCTxStreamer ----------------------------
(* Instances of TxStreamer for TLC. *)
EXTENDS TxStreamer

(* A part of a frame, some frames and a part, and whole frames. *)
SomeLengths == {3, 10, 12}

(* In one tick, in the window before, and beyond it. *)
SomeTimes == {0, 7, 58}
=============================================================================
