------------------------------ MODULE MCTwiMaster ------------------------------
(***************************************************************************)
(* TwiMaster for TLC.                                                      *)
(***************************************************************************)
EXTENDS TwiMaster
===============================================================================
