-------------------------------- MODULE MCTcp4 --------------------------------
(***************************************************************************)
(* Tcp4 for TLC: two hosts with two ports each, and three lines to type,   *)
(* one that is answered with two octets, one that is answered with nothing *)
(* or not at all, and one that ends the session.  The sequence numbers     *)
(* wrap at SeqMod, so every sum is taken across the wrap as well.          *)
(***************************************************************************)
EXTENDS Tcp4

CONSTANTS
  h1, h2,             \* the hosts
  stats, twi, quit    \* the lines

MCSize == [d \in Payloads |-> IF d = stats THEN 1 ELSE 2]

MCAnswer ==
  [d \in Payloads |->
     CASE d = stats -> {2} [] d = twi -> {0, 1} [] d = quit -> {-1}]
===============================================================================
