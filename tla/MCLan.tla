--------------------------------- MODULE MCLan ---------------------------------
(***************************************************************************)
(* Lan for TLC: boards whose MAC addresses end in the same four octets, so *)
(* that they share their xid, and one station that asks, pings and types.  *)
(***************************************************************************)
EXTENDS Lan

CONSTANTS b1, b2, station, a1, a2, other

MCXid == [m \in Boards \cup Stations |-> 0]

MCAssigned == [b \in Boards |-> IF b = b1 THEN a1 ELSE a2]

MCStimuli ==
  {Frame(station, kind, other, dst) :
     kind \in {"arp_request", "echo_request", "line", "datagram"}, dst \in {a1, Everyone}}
===============================================================================
