---------------------------- MODULE MCController ----------------------------
(* Instances of Controller for TLC. *)
EXTENDS Controller

(***************************************************************************)
(* A host that keeps to the driver's order: one frame of the driver (1926  *)
(* samples), the largest size in whole samples (more than a datagram       *)
(* carries), and a negative one, which the driver does not refuse; streams *)
(* may fail.                                                               *)
(***************************************************************************)
Driver == [host |-> "driver", faults |-> {"io"}, sizes |-> {7704, 65532, -4}]

(***************************************************************************)
(* Any host and every fault; and any host with a size that is refused and  *)
(* one that an int does not hold: the device's share of it is positive,    *)
(* the server's is negative.                                               *)
(***************************************************************************)
AnyFault == [host |-> "any", faults |-> FaultKinds, sizes |-> {}]
AnySize  == [host |-> "any", faults |-> {}, sizes |-> {65536, IntRange - 4}]

MCEnvironments == {Driver, AnyFault, AnySize}
=============================================================================
