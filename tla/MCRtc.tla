-------------------------------- MODULE MCRtc --------------------------------
(* The mode PC firmware leaves the clock in, BCD and 24 hours, and full       *)
(* minutes of a short hour.                                                   *)
EXTENDS Rtc

MCModes == {[bit1 |-> TRUE, bit2 |-> FALSE]}
==============================================================================
