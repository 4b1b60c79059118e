------------------------------ MODULE MCEnc28j60 ------------------------------
(***************************************************************************)
(* Enc28j60 for TLC: a frame that fills the buffer of the main loop, one   *)
(* that is longer, and one that is damaged.                                *)
(***************************************************************************)
EXTENDS Enc28j60

AsCells(octets) == [i \in DOMAIN octets |-> [octet |-> octets[i]]]

MCCells == {[octet |-> o] : o \in {"a1", "a2", "b1", "b2", "b3", "c1", "d1", "e1", "e2", "crc"}}

MCGarbage == [octet |-> "garbage"]

MCFrames ==
  {[data |-> AsCells(<<"a1", "a2", "crc">>), good |-> TRUE],
   [data |-> AsCells(<<"b1", "b2", "b3", "crc">>), good |-> TRUE],
   [data |-> AsCells(<<"c1", "crc">>), good |-> FALSE]}

MCOutgoing == {AsCells(<<"d1">>), AsCells(<<"e1", "e2">>)}
MCControl == [octet |-> "0"]
===============================================================================
