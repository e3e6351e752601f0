----------------------------- MODULE MCAdapter -----------------------------
(* An instance of Adapter for TLC. *)
EXTENDS Adapter

(* A part of a frame, and more than a frame holds. *)
PartAndMore == {2, 5}
=============================================================================
