-------------------------------- MODULE RxQueue --------------------------------
(***************************************************************************)
(* What the receive side of the Ethernet chip and its driver promise       *)
(* together: frames are handed over in the order in which they arrived,    *)
(* each at most once and none mixed up with another.  A frame that does    *)
(* not fit is lost as a whole; one that the chip found damaged is handed   *)
(* over as nothing.                                                        *)
(***************************************************************************)
EXTENDS Sequences

CONSTANTS
  Frames,       \* what may arrive: [data, good]
  Reading(_)    \* what the driver makes of a frame

VARIABLES
  queue,        \* the frames that have arrived and were not handed over
  handed        \* what was handed over last

vars == <<queue, handed>>

Init ==
  /\ queue = <<>>
  /\ handed = <<>>

Arrive ==
  /\ \E f \in Frames : queue' = Append(queue, f)
  /\ UNCHANGED handed

HandOver ==
  /\ queue # <<>>
  /\ queue' = Tail(queue)
  /\ handed' = Reading(Head(queue))

(* The board is restarted, and forgets. *)
Restart == queue' = <<>> /\ handed' = <<>>

Next == Arrive \/ HandOver \/ Restart

Ordered == Init /\ [][Next]_vars

(* A frame that has arrived is handed over, whatever arrives meanwhile,      *)
(* unless the board is restarted.                                            *)
Delivery == WF_vars(HandOver)

Spec == Ordered /\ Delivery
===============================================================================
