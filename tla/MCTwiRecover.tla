------------------------------ MODULE MCTwiRecover ------------------------------
(***************************************************************************)
(* TwiRecover for TLC: octets of the sensor, all bits 0 or some of them 1. *)
(***************************************************************************)
EXTENDS TwiRecover

MCOctets == {{}, {0, 3, 4}, 0 .. 7}
===============================================================================
