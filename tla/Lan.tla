---------------------------------- MODULE Lan ----------------------------------
(***************************************************************************)
(* Boards on one Ethernet segment: the main loop of main.c with the frame  *)
(* path below it (ethernet.c, arp.c, ipv4.c, icmp4.c, udp4.c, bootp.c).    *)
(* A board without an IPv4 address asks for one with every turn of its     *)
(* main loop, receives at most one frame a turn and answers it.            *)
(*                                                                         *)
(* Around the boards are stations, which send frames and ignore what they  *)
(* get, and a BOOTP server, which answers requests sooner, later or never. *)
(***************************************************************************)
EXTENDS Integers, Sequences

CONSTANTS
  Boards,         \* the boards, each standing for its MAC address
  Stations,       \* the MAC addresses of everything else
  Addresses,      \* the IPv4 addresses
  Xid,            \* Xid[b]: the last four octets of the MAC address of b
  Assigned,       \* Assigned[b]: the address the BOOTP server has for b
  Zero,           \* ipv4_addr_zero
  Everyone,       \* ipv4_addr_broadcast
  Stimuli,        \* the frames stations send
  MaxStimuli,     \* bound: how many of them are sent
  MaxWaiting,     \* bound: requests of a board the server remembers
  BufferSize      \* the frames that fit into a receive buffer

VARIABLES
  address,        \* address[b]: my_ipv4_address
  turn,           \* turn[b]: what the main loop does next
  inbox,          \* inbox[b]: the receive buffer of the Ethernet chip
  waiting,        \* waiting[b]: requests the server has not answered
  stimuli         \* how many frames of stations are still to be sent

vars == <<address, turn, inbox, waiting, stimuli>>

-------------------------------------------------------------------------------
(* Frames.  For an ARP packet, src and dst are spa and tpa.  A frame whose   *)
(* packet the board does not even look at is "blank": one with a wrong       *)
(* length or checksum, and what 14 octets are once the chip has padded them  *)
(* with zeros.                                                               *)

Kinds ==
  {"blank", "arp_request", "arp_reply", "echo_request", "echo_reply", "line",
   "answer", "datagram", "bootp_request", "bootp_reply"}

Frames ==
  [from : Boards \cup Stations, kind : Kinds, src : Addresses, dst : Addresses,
   chaddr : Boards \cup Stations, yiaddr : Addresses]

IsArp(f) == f.kind \in {"arp_request", "arp_reply"}

IsIcmp4(f) == f.kind \in {"echo_request", "echo_reply"}

IsIpv4(f) == ~IsArp(f) /\ f.kind # "blank"

(* A frame with no BOOTP reply in it. *)
Frame(from, kind, src, dst) ==
  [from |-> from, kind |-> kind, src |-> src, dst |-> dst,
   chaddr |-> from, yiaddr |-> Zero]

ASSUME LanAssumption ==
  /\ Zero \in Addresses /\ Everyone \in Addresses /\ Zero # Everyone
  /\ Assigned \in [Boards -> Addresses \ {Everyone}]
  /\ MaxStimuli \in Nat /\ MaxWaiting \in Nat /\ BufferSize \in Nat

(* There is one BOOTP server on the wire. *)
ASSUME StimuliAssumption ==
  Stimuli \subseteq {f \in Frames : f.from \in Stations /\ f.kind # "bootp_reply"}

(* The chip drops what does not fit. *)
Put(queue, f) == IF Len(queue) < BufferSize THEN Append(queue, f) ELSE queue

(* Its filters take what is sent to the board, and what is sent to everyone. *)
Unicast(boxes, to, f) ==
  [b \in Boards |-> IF b = to THEN Put(boxes[b], f) ELSE boxes[b]]

ToAll(boxes, f) ==
  [b \in Boards |-> IF b = f.from THEN boxes[b] ELSE Put(boxes[b], f)]

-------------------------------------------------------------------------------
(* The frame path: the reply of board b to frame f.  Each of these returns   *)
(* 0 in the code where it is a blank frame here, because that is what        *)
(* ethernet_process_frame makes of it: it always adds the 14 octets of its   *)
(* own header, and the main loop, which would not send a frame of length 0,  *)
(* sends it.                                                                 *)

Blank(b) == Frame(b, "blank", Zero, Zero)

process_arp(b, f) ==
  IF f.kind = "arp_request" /\ f.dst = address[b]
  THEN Frame(b, "arp_reply", address[b], f.src)
  ELSE Blank(b)

(* Mutant of AcceptedReply: chaddr is not looked at. *)
AcceptedByXid(b, f) == f.kind = "bootp_reply" /\ Xid[f.chaddr] = Xid[b]

(* A BOOTP reply for this board: xid, which is made of the MAC address, and  *)
(* chaddr are its own.                                                       *)
AcceptedReply(b, f) ==
  f.kind = "bootp_reply" /\ Xid[f.chaddr] = Xid[b] /\ f.chaddr = b

(* Mutant of bootp_process_reply: the address is taken from another field. *)
bootp_wrong_field(b, f) == IF AcceptedReply(b, f) THEN f.dst ELSE address[b]

(* The address board b has after frame f. *)
bootp_process_reply(b, f) == IF AcceptedReply(b, f) THEN f.yiaddr ELSE address[b]

(* Mutant of ForMe: the filter is that of a board that has an address. *)
ForMeUnicast(b, f) == f.dst = address[b]

ForMe(b, f) == f.dst \in {address[b], Everyone}

(* A reply is addressed to where the packet came from, and comes from        *)
(* wherever that was addressed to.                                           *)
process_icmp4(b, f) ==
  IF f.kind = "echo_request" THEN Frame(b, "echo_reply", f.dst, f.src) ELSE Blank(b)

(* A datagram to port 23 is given to the application and its answer sent; a  *)
(* BOOTP reply and a datagram to any other port have no reply.               *)
process_udp4(b, f) ==
  IF f.kind = "line" THEN Frame(b, "answer", f.dst, f.src) ELSE Blank(b)

process_ipv4(b, f) ==
  CASE ~ForMe(b, f) -> Blank(b)
    [] ForMe(b, f) /\ IsIcmp4(f)  -> process_icmp4(b, f)
    [] ForMe(b, f) /\ ~IsIcmp4(f) -> process_udp4(b, f)

(* The reply goes to the source of the frame, whatever it is. *)
ethernet_process_frame(b, f) ==
  CASE IsArp(f)  -> process_arp(b, f)
    [] IsIpv4(f) -> process_ipv4(b, f)
    [] OTHER     -> Blank(b)

bootp_create_request(b) == Frame(b, "bootp_request", Zero, Everyone)

-------------------------------------------------------------------------------
(* The main loop.                                                            *)

(* Mutant of Ask: having an address is no reason not to ask. *)
AskAlways(b) ==
  /\ turn[b] = "ask"
  /\ inbox' = ToAll(inbox, bootp_create_request(b))
  /\ waiting' = [waiting EXCEPT ![b] = IF @ < MaxWaiting THEN @ + 1 ELSE @]
  /\ turn' = [turn EXCEPT ![b] = "receive"]
  /\ UNCHANGED <<address, stimuli>>

Ask(b) ==
  /\ turn[b] = "ask"
  /\ IF address[b] = Zero
     THEN /\ inbox' = ToAll(inbox, bootp_create_request(b))
          /\ waiting' = [waiting EXCEPT ![b] = IF @ < MaxWaiting THEN @ + 1 ELSE @]
     ELSE UNCHANGED <<inbox, waiting>>
  /\ turn' = [turn EXCEPT ![b] = "receive"]
  /\ UNCHANGED <<address, stimuli>>

ReceiveNothing(b) ==
  /\ turn[b] = "receive" /\ inbox[b] = <<>>
  /\ turn' = [turn EXCEPT ![b] = "ask"]
  /\ UNCHANGED <<address, inbox, waiting, stimuli>>

ReceiveFrame(b) ==
  /\ turn[b] = "receive" /\ inbox[b] # <<>>
  /\ LET f == Head(inbox[b])
     IN /\ inbox' = Unicast([inbox EXCEPT ![b] = Tail(@)], f.from,
                            ethernet_process_frame(b, f))
        /\ address' = [address EXCEPT ![b] =
                         IF IsIpv4(f) /\ ForMe(b, f) THEN bootp_process_reply(b, f) ELSE @]
  /\ turn' = [turn EXCEPT ![b] = "ask"]
  /\ UNCHANGED <<waiting, stimuli>>

-------------------------------------------------------------------------------
(* Everything else on the wire. *)

(* The server answers a request to everyone, as the flag in it asks for. *)
Serve(b) ==
  /\ waiting[b] > 0
  /\ waiting' = [waiting EXCEPT ![b] = @ - 1]
  /\ \E server \in Stations :
       inbox' = ToAll(inbox, [from |-> server, kind |-> "bootp_reply", src |-> Zero,
                              dst |-> Everyone, chaddr |-> b, yiaddr |-> Assigned[b]])
  /\ UNCHANGED <<address, turn, stimuli>>

Stimulate ==
  /\ stimuli > 0
  /\ stimuli' = stimuli - 1
  /\ \E f \in Stimuli :
       \/ inbox' = ToAll(inbox, f)
       \/ \E b \in Boards : inbox' = Unicast(inbox, b, f)
  /\ UNCHANGED <<address, turn, waiting>>

Init ==
  /\ address = [b \in Boards |-> Zero]
  /\ turn = [b \in Boards |-> "ask"]
  /\ inbox = [b \in Boards |-> <<>>]
  /\ waiting = [b \in Boards |-> 0]
  /\ stimuli = MaxStimuli

Next ==
  \/ \E b \in Boards : Ask(b) \/ ReceiveNothing(b) \/ ReceiveFrame(b) \/ Serve(b)
  \/ Stimulate

(* The main loop never stops, and the server answers sooner or later. *)
Fairness ==
  \A b \in Boards :
    /\ WF_vars(Ask(b)) /\ WF_vars(ReceiveNothing(b) \/ ReceiveFrame(b))
    /\ WF_vars(Serve(b))

Spec == Init /\ [][Next]_vars /\ Fairness

-------------------------------------------------------------------------------
TypeOK ==
  /\ address \in [Boards -> Addresses \ {Everyone}]
  /\ turn \in [Boards -> {"ask", "receive"}]
  /\ inbox \in [Boards -> Seq(Frames)]
  /\ \A b \in Boards : Len(inbox[b]) <= BufferSize
  /\ waiting \in [Boards -> 0 .. MaxWaiting]
  /\ stimuli \in 0 .. MaxStimuli

(* A board never takes the address that was meant for another one, although  *)
(* every reply reaches every board, late and repeated ones as well, and      *)
(* although two boards may share their xid (bootp.c:49-67).                  *)
OwnAddress == \A b \in Boards : address[b] \in {Zero, Assigned[b]}

(* The board gets its address and keeps it, whatever else is in its receive  *)
(* buffer when the reply comes (main.c:112-121).                             *)
Configured == \A b \in Boards : <>[](address[b] = Assigned[b])

(* What udp4.c:75 says of a datagram for a port that is not served, "drop":  *)
(* it is taken out of the buffer and nobody hears of it.  The BOOTP request  *)
(* of another board, to port 67, is such a datagram.                         *)
Dropped ==
  [][\A b \in Boards :
       ReceiveFrame(b) /\ Head(inbox[b]).kind \in {"datagram", "bootp_request"}
       => inbox' = [inbox EXCEPT ![b] = Tail(@)]]_vars

(* A board that has its address, and that nobody talks to, says no more.     *)
Silent == <>[](\A b \in Boards : inbox[b] = <<>>)
===============================================================================
