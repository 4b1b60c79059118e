--------------------------------- MODULE Tcp4 ---------------------------------
(***************************************************************************)
(* process_tcp4 of tcp4.c: the TCP responder behind the telnet port.  It   *)
(* is called by the main loop with one received segment at a time, updates *)
(* the single entry of its state table and leaves at most one segment to   *)
(* be sent.  There is no timer and no retransmission: whatever the entry   *)
(* does, it does in answer to a segment.                                   *)
(*                                                                         *)
(* Here any segment may arrive at any time, which is all that the code may *)
(* assume of a network; module TcpSession puts real clients at the other   *)
(* end of the wire.                                                        *)
(***************************************************************************)
EXTENDS Integers

CONSTANTS
  Hosts,        \* the IPv4 addresses segments come from
  NoHost,       \* 0.0.0.0, the address reset_state leaves in the entry
  Ports,        \* the TCP ports segments come from
  NoPort,       \* 0, the port reset_state leaves in the entry
  LocalPorts,   \* the ports segments are sent to
  ServedPort,   \* 23, the only port of the state table
  SeqMod,       \* sequence numbers are counted modulo 2^32
  Payloads,     \* what a segment can carry
  NoData,       \* ... or nothing
  Size,         \* Size[d]: the octets of payload d
  Answer,       \* Answer[d]: the values application_content can return for d
  NoReply       \* process_tcp4 returned 0: the reply buffer holds no segment

ASSUME Tcp4Assumption ==
  /\ NoHost \notin Hosts /\ NoPort \notin Ports /\ NoData \notin Payloads
  /\ ServedPort \in LocalPorts
  /\ SeqMod \in Nat \ {0}
  /\ Size \in [Payloads -> Nat \ {0}]
  /\ Answer \in [Payloads -> SUBSET (Nat \cup {-1})]

VARIABLES
  entry,        \* state[0], the entry of the served port
  tx            \* the reply that has still to be sent, or NoReply

vars == <<entry, tx>>

-------------------------------------------------------------------------------
(* Segments, and sequence number arithmetic on uint32_t.                     *)

SeqNo == 0 .. SeqMod - 1

(* Mutant of Plus: the counter does not wrap. *)
PlusUnbounded(x, n) == x + n

Plus(x, n) == (x + n) % SeqMod

Flag == {"syn", "ack", "fin", "rst"}

(* A segment from a remote host.  `sum` says whether its checksum is right. *)
Segment ==
  [host : Hosts, port : Ports, local : LocalPorts, sum : BOOLEAN,
   flags : SUBSET Flag, seq : SeqNo, ack : SeqNo, data : Payloads \cup {NoData}]

(* A segment to a remote host, with the number of octets it carries. *)
Reply ==
  [host : Hosts, port : Ports, local : LocalPorts,
   flags : SUBSET Flag, seq : SeqNo, ack : SeqNo, len : Nat]

ASSUME NoReplyAssumption == NoReply \notin Reply

(* reset_state, and the initialiser of the table: nobody is being served. *)
Listening ==
  [state |-> "listen", src |-> NoHost, sport |-> NoPort, lseq |-> 0, rseq |-> 0]

Entry ==
  [state : {"listen", "connected", "close"},
   src : Hosts \cup {NoHost}, sport : Ports \cup {NoPort},
   lseq : SeqNo, rseq : SeqNo]

(* Mutant of FromOwner: the ports are not compared. *)
FromOwnersHost(seg) == entry.src = seg.host

(* The source port and address of a segment are those of the connection. *)
FromOwner(seg) == entry.src = seg.host /\ entry.sport = seg.port

-------------------------------------------------------------------------------
(* The replies: init_segment and empty_segment.                              *)

(* A segment numbered by entry e, in answer to seg. *)
Numbered(e, seg, flags, len) ==
  [host |-> seg.host, port |-> seg.port, local |-> seg.local,
   flags |-> flags, seq |-> e.lseq, ack |-> e.rseq, len |-> len]

SynAck(e, seg) == Numbered(e, seg, {"syn", "ack"}, 0)

FinAck(e, seg) == Numbered(e, seg, {"fin", "ack"}, 0)

(* Mutant of Rst: the flag is forgotten. *)
RstWithoutFlag(seg) ==
  [host |-> seg.host, port |-> seg.port, local |-> seg.local,
   flags |-> {"ack"}, seq |-> seg.ack, ack |-> Plus(seg.seq, 1), len |-> 0]

(* A reset that needs no entry: it takes its numbers from the segment. *)
Rst(seg) ==
  [host |-> seg.host, port |-> seg.port, local |-> seg.local,
   flags |-> {"rst", "ack"}, seq |-> seg.ack, ack |-> Plus(seg.seq, 1), len |-> 0]

-------------------------------------------------------------------------------
(* process_tcp4, one action for each way through it.  A way through it ends  *)
(* with the entry and the reply assigned.                                    *)

BadChecksum(seg) ==
  /\ ~seg.sum
  /\ UNCHANGED <<entry, tx>>

(* No entry has this port: answer with a reset, unless it is one itself. *)
NotServed(seg) ==
  /\ seg.sum /\ seg.local # ServedPort
  /\ tx' = IF "rst" \in seg.flags THEN NoReply ELSE Rst(seg)
  /\ UNCHANGED entry

(* Mutant of ResetReceived: a reset is ignored, as it is on other ports. *)
ResetIgnored(seg) ==
  /\ seg.sum /\ seg.local = ServedPort /\ "rst" \in seg.flags
  /\ UNCHANGED <<entry, tx>>

(* A reset, from whomever it is, ends the connection and is not answered. *)
ResetReceived(seg) ==
  /\ seg.sum /\ seg.local = ServedPort /\ "rst" \in seg.flags
  /\ entry' = Listening
  /\ UNCHANGED tx

(* What the switch over the states is reached with. *)
InState(seg, state) ==
  /\ seg.sum /\ seg.local = ServedPort /\ "rst" \notin seg.flags
  /\ entry.state = state

(* Mutant of Refused: only the state is reset. *)
RefusedHalfReset(seg) ==
  /\ entry' = [entry EXCEPT !.state = "listen"]
  /\ tx' = Rst(seg)

(* reset_state, and a reset to the sender. *)
Refused(seg) ==
  /\ entry' = Listening
  /\ tx' = Rst(seg)

(* No connection yet, so neither ACK nor FIN makes sense; and a segment that *)
(* is none of the three falls out of the switch.                             *)
ListenOther(seg) ==
  /\ InState(seg, "listen")
  /\ {"ack", "fin"} \cap seg.flags # {} \/ "syn" \notin seg.flags
  /\ Refused(seg)

(* Mutant of ListenSyn: the SYN/ACK is not counted. *)
ListenSynUncounted(seg) ==
  /\ InState(seg, "listen")
  /\ "syn" \in seg.flags /\ {"ack", "fin"} \cap seg.flags = {}
  /\ entry' = [entry EXCEPT !.state = "connected", !.sport = seg.port,
                            !.src = seg.host, !.rseq = Plus(seg.seq, 1)]
  /\ tx' = SynAck(entry', seg)

(* A connection begins.  The SYN/ACK is numbered before it is counted. *)
ListenSyn(seg) ==
  /\ InState(seg, "listen")
  /\ "syn" \in seg.flags /\ {"ack", "fin"} \cap seg.flags = {}
  /\ LET e == [entry EXCEPT !.state = "connected", !.sport = seg.port,
                            !.src = seg.host, !.rseq = Plus(seg.seq, 1)]
     IN /\ tx' = SynAck(e, seg)
        /\ entry' = [e EXCEPT !.lseq = Plus(@, 1)]

(* Mutant of ConnectedStranger: the stranger is ignored instead of refused. *)
ConnectedStrangerIgnored(seg) ==
  /\ InState(seg, "connected") /\ ~FromOwner(seg)
  /\ UNCHANGED <<entry, tx>>

(* Another host, or another port of the same host. *)
ConnectedStranger(seg) ==
  /\ InState(seg, "connected") /\ ~FromOwner(seg)
  /\ tx' = Rst(seg)
  /\ UNCHANGED entry

FromOwnerWhile(seg, state) == InState(seg, state) /\ FromOwner(seg)

(* A SYN/ACK makes no sense here; nor does a segment without SYN, FIN, ACK. *)
ConnectedNonsense(seg) ==
  /\ FromOwnerWhile(seg, "connected")
  /\ \/ {"syn", "ack"} \subseteq seg.flags
     \/ {"syn", "ack", "fin"} \cap seg.flags = {}
  /\ Refused(seg)

(* Mutant of ConnectedSyn: the SYN is not answered again. *)
ConnectedSynIgnored(seg) ==
  /\ FromOwnerWhile(seg, "connected")
  /\ "syn" \in seg.flags /\ "ack" \notin seg.flags
  /\ UNCHANGED <<entry, tx>>

(* The SYN again.  The answer takes the numbers the entry has by now, and    *)
(* the remote number is not counted up as it was the first time.             *)
ConnectedSyn(seg) ==
  /\ FromOwnerWhile(seg, "connected")
  /\ "syn" \in seg.flags /\ "ack" \notin seg.flags
  /\ entry' = [entry EXCEPT !.rseq = seg.seq]
  /\ tx' = SynAck(entry', seg)

(* The remote side closes.  What the segment carries is not looked at. *)
ConnectedFin(seg) ==
  /\ FromOwnerWhile(seg, "connected")
  /\ "fin" \in seg.flags /\ "syn" \notin seg.flags
  /\ entry' = [entry EXCEPT !.state = "close", !.rseq = Plus(seg.seq, 1)]
  /\ tx' = FinAck(entry', seg)

(* An ACK, with or without data; the application is asked about the data. *)
ConnectedAck(seg) ==
  /\ FromOwnerWhile(seg, "connected")
  /\ "ack" \in seg.flags /\ {"syn", "fin"} \cap seg.flags = {}

ConnectedPureAck(seg) ==
  /\ ConnectedAck(seg) /\ seg.data = NoData
  /\ UNCHANGED <<entry, tx>>

(* Mutant of Received: the data is not counted. *)
ReceivedUncounted(seg) == [entry EXCEPT !.rseq = seg.seq]

(* The entry with the received data counted. *)
Received(seg) == [entry EXCEPT !.rseq = Plus(seg.seq, Size[seg.data])]

(* The reply is numbered before its own octets are counted. *)
ConnectedData(seg) ==
  /\ ConnectedAck(seg) /\ seg.data # NoData
  /\ \E n \in Answer[seg.data] \cap Nat :
       /\ tx' = Numbered(Received(seg), seg, {"ack"}, n)
       /\ entry' = [Received(seg) EXCEPT !.lseq = Plus(@, n)]

(* The application wants to stop: FIN/ACK, and both FINs counted ahead. *)
ConnectedQuit(seg) ==
  /\ ConnectedAck(seg) /\ seg.data # NoData
  /\ -1 \in Answer[seg.data]
  /\ LET e == [Received(seg) EXCEPT !.state = "close"]
     IN /\ tx' = FinAck(e, seg)
        /\ entry' = [e EXCEPT !.lseq = Plus(@, 1), !.rseq = Plus(@, 1)]

(* Mutant of CloseAck: the entry is not reset. *)
CloseAckKept(seg) ==
  /\ InState(seg, "close")
  /\ "ack" \in seg.flags /\ "fin" \notin seg.flags
  /\ UNCHANGED <<entry, tx>>

(* The goodbye is over with the next segment, from whomever it comes: an ACK *)
(* is taken for that of the FIN/ACK, a FIN is acknowledged, and anything     *)
(* else is refused.                                                          *)
CloseAck(seg) ==
  /\ InState(seg, "close")
  /\ "ack" \in seg.flags /\ "fin" \notin seg.flags
  /\ entry' = Listening
  /\ UNCHANGED tx

CloseFin(seg) ==
  /\ InState(seg, "close")
  /\ "fin" \in seg.flags
  /\ tx' = Numbered(entry, seg, {"ack"}, 0)
  /\ entry' = Listening

CloseOther(seg) ==
  /\ InState(seg, "close")
  /\ {"ack", "fin"} \cap seg.flags = {}
  /\ Refused(seg)

process_tcp4(seg) ==
  /\ tx = NoReply
  /\ \/ BadChecksum(seg) \/ NotServed(seg) \/ ResetReceived(seg)
     \/ ListenOther(seg) \/ ListenSyn(seg)
     \/ ConnectedStranger(seg) \/ ConnectedNonsense(seg) \/ ConnectedSyn(seg)
     \/ ConnectedFin(seg) \/ ConnectedPureAck(seg) \/ ConnectedData(seg)
     \/ ConnectedQuit(seg)
     \/ CloseAck(seg) \/ CloseFin(seg) \/ CloseOther(seg)

-------------------------------------------------------------------------------
(* The main loop sends the reply before it receives the next frame. *)
Transmit ==
  /\ tx # NoReply
  /\ tx' = NoReply
  /\ UNCHANGED entry

Init ==
  /\ entry = Listening
  /\ tx = NoReply

Next ==
  \/ \E seg \in Segment : process_tcp4(seg)
  \/ Transmit

Spec == Init /\ [][Next]_vars

-------------------------------------------------------------------------------
(* The entry and the reply are what their C types can hold. *)
TypeOK ==
  /\ entry \in Entry
  /\ tx \in Reply \cup {NoReply}

(* However a connection ended, nothing of it is left in the entry: the first *)
(* SYN/ACK of the next one is numbered from lseq without setting it before   *)
(* (tcp4.c:238-249), so every way back to state_listen has to clear it.      *)
ListenIsBlank ==
  entry.state = "listen" =>
    /\ entry.src = NoHost /\ entry.sport = NoPort
    /\ entry.lseq = 0 /\ entry.rseq = 0

(* The reply in the terms of SingleClient: to whom, and with which flags.    *)
(* What is said about other ports than the served one is no part of it.      *)
Said ==
  IF tx = NoReply THEN NoReply
  ELSE IF tx.local # ServedPort THEN NoReply
  ELSE [to |-> <<tx.host, tx.port>>, flags |-> tx.flags]

Phase ==
  CASE entry.state = "listen"    -> "free"
    [] entry.state = "connected" -> "open"
    [] entry.state = "close"     -> "closing"

Abstract == INSTANCE SingleClient WITH
  Sockets <- Hosts \X Ports, NoSocket <- <<NoHost, NoPort>>, Silence <- NoReply,
  owner <- <<entry.src, entry.sport>>, phase <- Phase, said <- Said

(* The responder serves one socket at a time and refuses the others, as      *)
(* tcp4.c:282-286 says it does, whatever arrives in whatever order; the      *)
(* owner of the abstract specification is the address and port in the entry. *)
Implements == Abstract!Spec
===============================================================================
