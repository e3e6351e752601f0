--------------------------- MODULE MCRadioConfig ---------------------------
(* Instances of RadioConfig for TLC. *)
EXTENDS RadioConfig

(* Two frequencies the chip rounds, ports and bandwidths it does not. *)
SmallValues == [rfport |-> {1, 2}, bw_hz |-> {3, 5}, lo_hz |-> {5, 8},
                hardwaregain |-> {1}, gain_control_mode |-> {1}]
RoundedFrequency == [a \in Attributes |-> IF a = "lo_hz" THEN 2 ELSE 1]
PowerUp == [rfport |-> 1, bw_hz |-> 9, lo_hz |-> 2, hardwaregain |-> 0, gain_control_mode |-> 0]
MainConfig == [d \in D |-> [rfport |-> 1, bw_hz |-> 5, lo_hz |-> IF d = "RX" THEN 8 ELSE 6]]
(* Below the limit of 25/12 MHz, and above it with either decimation; two of them,
   and the rate in between, are no multiples of RateStep. *)
ThreeRates == {1920000, 5760000, 30720000}
=============================================================================
