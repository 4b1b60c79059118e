------------------------------ MODULE TcpSession ------------------------------
(***************************************************************************)
(* The telnet service with clients at the other end of the wire.  Every    *)
(* socket has a client that behaves as RFC 793 tells it to, typing one     *)
(* line at a time; between each client and the board there is a queue in   *)
(* either direction that keeps the order and may lose its oldest segment.  *)
(* The board is process_tcp4 of Tcp4, one segment after the other, and a   *)
(* watchdog that may restart it.  The clients are not code of the board.   *)
(***************************************************************************)
EXTENDS Tcp4, Sequences, Functions, FiniteSets

CONSTANTS
  Iss,          \* the initial sequence numbers clients choose from
  Callers,      \* the sets of clients of which one is there, and the others are not
  MaxLoss,      \* bound: MaxLoss[n] segments are lost when there are n clients
  MaxReboots    \* bound: restarts of the board

VARIABLES
  client,       \* client[c]: the connection as the client at socket c sees it
  toServer,     \* toServer[c]: the segments on their way to the board
  toClient,     \* toClient[c]: the segments on their way to client c
  typed,        \* the lines that have been typed, each at most once
  ran,          \* the lines the application was given, in that order
  losses,       \* how many segments were lost
  reboots       \* how often the board was restarted

wire == <<toServer, toClient>>
sessionVars == <<entry, tx, client, toServer, toClient, typed, ran, losses, reboots>>

Clients == Hosts \X Ports

(* What a client keeps: the oldest number not acknowledged, the next number *)
(* to use, the next number expected, and the line that is not acknowledged. *)
Connection ==
  [state : {"absent", "closed", "synsent", "estab", "finwait", "closewait", "lastack"},
   una : SeqNo, nxt : SeqNo, rcv : SeqNo, data : Payloads \cup {NoData}]

Closed == [state |-> "closed", una |-> 0, nxt |-> 0, rcv |-> 0, data |-> NoData]

Absent == [Closed EXCEPT !.state = "absent"]

(* The clients that are there. *)
Present == {c \in Clients : client[c].state # "absent"}

(* Nothing is on its way between the board and c, in either direction. *)
Idle(c) ==
  /\ toServer[c] = <<>> /\ toClient[c] = <<>>
  /\ tx # NoReply => <<tx.host, tx.port>> # c

Acknowledged(k) == k.una = k.nxt

-------------------------------------------------------------------------------
(* What clients send.                                                        *)

Seg(c, flags, seq, ack, data) ==
  [host |-> c[1], port |-> c[2], local |-> ServedPort, sum |-> TRUE,
   flags |-> flags, seq |-> seq, ack |-> ack, data |-> data]

Ack(c, k) == Seg(c, {"ack"}, k.nxt, k.rcv, NoData)

Reset(c, seq) == Seg(c, {"rst"}, seq, 0, NoData)

(* The client has sent its FIN. *)
Closing(k) == k.state \in {"finwait", "lastack"}

(* The segment that carries whatever is not acknowledged. *)
Outstanding(c, k) ==
  IF k.state = "synsent"
  THEN Seg(c, {"syn"}, k.una, 0, NoData)
  ELSE Seg(c, {"ack"} \cup {f \in {"fin"} : Closing(k)}, k.una, k.rcv, k.data)

Send(c, seg) == toServer' = [toServer EXCEPT ![c] = Append(@, seg)]

Become(c, k) == client' = [client EXCEPT ![c] = k]

(* A client starts something: it becomes k and sends what k has outstanding. *)
Start(c, k) ==
  /\ Become(c, k)
  /\ Send(c, Outstanding(c, k))
  /\ UNCHANGED <<entry, tx, toClient, ran, losses, reboots>>

Connect(c) ==
  /\ client[c].state = "closed" /\ Idle(c)
  /\ \E iss \in Iss :
       Start(c, [Closed EXCEPT !.state = "synsent", !.una = iss, !.nxt = Plus(iss, 1)])
  /\ UNCHANGED typed

Type(c) ==
  /\ client[c].state = "estab" /\ Acknowledged(client[c])
  /\ \E d \in Payloads \ typed :
       /\ Start(c, [client[c] EXCEPT !.data = d, !.nxt = Plus(@, Size[d])])
       /\ typed' = typed \cup {d}

(* The last line of a client that reads from a file: the FIN goes with it. *)
TypeLast(c) ==
  /\ client[c].state = "estab" /\ Acknowledged(client[c])
  /\ \E d \in Payloads \ typed :
       /\ Start(c, [client[c] EXCEPT !.data = d, !.nxt = Plus(@, Size[d] + 1), !.state = "finwait"])
       /\ typed' = typed \cup {d}

Close(c) ==
  /\ client[c].state \in {"estab", "closewait"} /\ Acknowledged(client[c])
  /\ Start(c, [client[c] EXCEPT !.nxt = Plus(@, 1),
                 !.state = IF @ = "estab" THEN "finwait" ELSE "lastack"])
  /\ UNCHANGED typed

(* The timeout of a client is longer than everything else takes: it never    *)
(* repeats what is still under way.                                          *)
Retransmit(c) ==
  /\ ~Acknowledged(client[c]) /\ Idle(c)
  /\ Start(c, client[c])
  /\ UNCHANGED typed

(* The client is killed, and resets the connection. *)
Abort(c) ==
  /\ client[c].state \in {"estab", "closewait"}
  /\ Become(c, Closed)
  /\ Send(c, Reset(c, client[c].nxt))
  /\ UNCHANGED <<entry, tx, toClient, typed, ran, losses, reboots>>

(* The client has waited long enough for the FIN of the board. *)
GiveUp(c) ==
  /\ client[c].state = "finwait" /\ Acknowledged(client[c]) /\ Idle(c)
  /\ Become(c, Closed)
  /\ UNCHANGED <<entry, tx, wire, typed, ran, losses, reboots>>

-------------------------------------------------------------------------------
(* What a client does with segment r, knowing k.                             *)

Half == SeqMod \div 2

Behind(x, y) == (x - y) % SeqMod >= Half

(* A line fits into a frame, and so is far shorter than half of the numbers. *)
ASSUME SessionAssumption ==
  /\ Iss \subseteq SeqNo
  /\ \A d \in Payloads : Size[d] < Half

Answering(c, k, seg) == Become(c, k) /\ Send(c, seg)

Quietly(c, k) == Become(c, k) /\ UNCHANGED toServer

(* Without a connection, everything but a reset is answered with a reset. *)
HearClosed(c, k, r) ==
  /\ k.state = "closed"
  /\ IF "rst" \in r.flags THEN Quietly(c, k) ELSE Answering(c, k, Reset(c, r.ack))

HearSynSent(c, k, r) ==
  /\ k.state = "synsent"
  /\ IF r.ack # k.nxt
     THEN IF "rst" \in r.flags THEN Quietly(c, k) ELSE Answering(c, k, Reset(c, r.ack))
     ELSE IF "rst" \in r.flags THEN Quietly(c, Closed)
     ELSE IF "syn" \in r.flags
     THEN LET e == [k EXCEPT !.state = "estab", !.una = k.nxt, !.rcv = Plus(r.seq, 1)]
          IN Answering(c, e, Ack(c, e))
     ELSE Quietly(c, k)

Synchronised(k) == k.state \notin {"absent", "closed", "synsent"}

(* What is no answer to what was sent is itself answered with an ACK. *)
Unacceptable(k, r) ==
  Behind(r.seq, k.rcv) \/ "syn" \in r.flags \/ Behind(k.nxt, r.ack)

HearReset(c, k, r) ==
  /\ Synchronised(k) /\ "rst" \in r.flags
  /\ Quietly(c, IF Behind(r.seq, k.rcv) THEN k ELSE Closed)

HearUnacceptable(c, k, r) ==
  /\ Synchronised(k) /\ "rst" \notin r.flags /\ Unacceptable(k, r)
  /\ Answering(c, k, Ack(c, k))

(* The connection with the acknowledgement of r taken in. *)
Acked(k, r) ==
  LET left == (k.nxt - r.ack) % SeqMod
      fin == IF Closing(k) THEN 1 ELSE 0
  IN IF Behind(r.ack, k.una) THEN k
     ELSE [k EXCEPT !.una = r.ack, !.data = IF left <= fin THEN NoData ELSE @]

Acceptable(k, r) == Synchronised(k) /\ "rst" \notin r.flags /\ ~Unacceptable(k, r)

(* Something before r is missing: keep asking for it. *)
HearAhead(c, k, r) ==
  /\ Acceptable(k, r) /\ r.seq # k.rcv
  /\ Answering(c, Acked(k, r), Ack(c, k))

HearInOrder(c, k, r) ==
  /\ Acceptable(k, r) /\ r.seq = k.rcv /\ "fin" \notin r.flags
  /\ LET a == [Acked(k, r) EXCEPT !.rcv = Plus(@, r.len)]
     IN IF a.state = "lastack" /\ Acknowledged(a) THEN Quietly(c, Closed)
        ELSE IF r.len > 0 THEN Answering(c, a, Ack(c, a)) ELSE Quietly(c, a)

(* The board closes.  A client with nothing outstanding may close at once, in *)
(* the same segment, as tcp4.c:277 draws it, or acknowledge first.            *)
HearFin(c, k, r) ==
  /\ Acceptable(k, r) /\ r.seq = k.rcv /\ "fin" \in r.flags
  /\ LET a == [Acked(k, r) EXCEPT !.rcv = Plus(@, r.len + 1)]
         l == [a EXCEPT !.state = "lastack", !.nxt = Plus(@, 1)]
         w == [a EXCEPT !.state = IF Closing(k) THEN "lastack" ELSE "closewait"]
     IN \/ k.state = "finwait" /\ Acknowledged(a) /\ Answering(c, Closed, Ack(c, a))
        \/ k.state = "estab" /\ Acknowledged(a) /\ Answering(c, l, Outstanding(c, l))
        \/ ~(k.state = "finwait" /\ Acknowledged(a)) /\ Answering(c, w, Ack(c, w))

Hear(c) ==
  /\ toClient[c] # <<>>
  /\ toClient' = [toClient EXCEPT ![c] = Tail(@)]
  /\ LET k == client[c]
         r == Head(toClient[c])
     IN \/ HearClosed(c, k, r) \/ HearSynSent(c, k, r) \/ HearReset(c, k, r)
        \/ HearUnacceptable(c, k, r) \/ HearAhead(c, k, r) \/ HearInOrder(c, k, r)
        \/ HearFin(c, k, r)
  /\ UNCHANGED <<entry, tx, typed, ran, losses, reboots>>

-------------------------------------------------------------------------------
(* The board and the wire.                                                   *)

(* The main loop receives a frame, which is all the board ever reacts to; a  *)
(* line that reaches application_content is noted in ran.                    *)
Receive(c) ==
  /\ toServer[c] # <<>>
  /\ LET seg == Head(toServer[c])
     IN /\ process_tcp4(seg)
        /\ ran' = IF ConnectedAck(seg) /\ seg.data # NoData THEN Append(ran, seg.data) ELSE ran
  /\ toServer' = [toServer EXCEPT ![c] = Tail(@)]
  /\ UNCHANGED <<client, toClient, typed, losses, reboots>>

Deliver ==
  /\ Transmit
  /\ toClient' = [toClient EXCEPT ![<<tx.host, tx.port>>] = Append(@, tx)]
  /\ UNCHANGED <<client, toServer, typed, ran, losses, reboots>>

(* The board restarts: the table is what its initialiser says. *)
Reboot ==
  /\ reboots < MaxReboots
  /\ entry' = Listening /\ tx' = NoReply
  /\ reboots' = reboots + 1
  /\ UNCHANGED <<client, wire, typed, ran, losses>>

(* One more segment may be lost. *)
Lossy == losses < MaxLoss[Cardinality(Present)]

LoseToServer(c) ==
  /\ Lossy /\ toServer[c] # <<>>
  /\ toServer' = [toServer EXCEPT ![c] = Tail(@)]
  /\ losses' = losses + 1
  /\ UNCHANGED <<entry, tx, client, toClient, typed, ran, reboots>>

LoseToClient(c) ==
  /\ Lossy /\ toClient[c] # <<>>
  /\ toClient' = [toClient EXCEPT ![c] = Tail(@)]
  /\ losses' = losses + 1
  /\ UNCHANGED <<entry, tx, client, toServer, typed, ran, reboots>>

-------------------------------------------------------------------------------
SessionInit ==
  /\ Init
  /\ \E some \in Callers : client = [c \in Clients |-> IF c \in some THEN Closed ELSE Absent]
  /\ toServer = [c \in Clients |-> <<>>]
  /\ toClient = [c \in Clients |-> <<>>]
  /\ typed = {} /\ ran = <<>>
  /\ losses = 0 /\ reboots = 0

SessionNext ==
  \/ \E c \in Clients :
       \/ Connect(c) \/ Type(c) \/ TypeLast(c) \/ Close(c)
       \/ Retransmit(c) \/ Abort(c) \/ GiveUp(c)
       \/ Hear(c) \/ Receive(c) \/ LoseToServer(c) \/ LoseToClient(c)
  \/ Deliver \/ Reboot

(* The board never stops working, and takes frames in the order in which     *)
(* they arrive, so that none waits for ever; a client reads, repeats itself, *)
(* and does not stay for ever once it is connected and has nothing to wait   *)
(* for.  It need not be killed, and it insists on connecting.                *)
Fairness ==
  /\ WF_sessionVars(Deliver)
  /\ \A c \in Clients :
       /\ SF_sessionVars(Receive(c)) /\ WF_sessionVars(Hear(c))
       /\ WF_sessionVars(Retransmit(c)) /\ WF_sessionVars(GiveUp(c))
       /\ WF_sessionVars(Close(c))

SessionSpec == SessionInit /\ [][SessionNext]_sessionVars /\ Fairness

-------------------------------------------------------------------------------
SessionTypeOK ==
  /\ TypeOK
  /\ client \in [Clients -> Connection]
  /\ \A c \in Clients : Range(toServer[c]) \subseteq Segment
                        /\ Range(toClient[c]) \subseteq Reply
  /\ typed \subseteq Payloads /\ Range(ran) \subseteq typed

(* While a connection is established and nothing is on the way or was lost,  *)
(* the two ends agree on every octet that was sent: what the board counted   *)
(* in lseq and rseq (tcp4.c:243-247, 314-332) is what the client has         *)
(* received and sent.                                                        *)
InStep ==
  losses = 0 => \A c \in Clients :
    entry.state = "connected" /\ <<entry.src, entry.sport>> = c
      /\ client[c].state = "estab" /\ Idle(c)
    => entry.lseq = client[c].rcv /\ entry.rseq = client[c].nxt

(* As long as nothing was lost and no client repeats a line that is still    *)
(* under way (Retransmit), no line is run twice, although process_tcp4 never *)
(* compares a number with the one it expects (tcp4.c:314).                   *)
RunOnce == losses = 0 => IsInjective(ran)

(* A line the board acknowledged (tcp4.c:314-325) has been run, on any wire, *)
(* unless it came with the FIN of the client (tcp4.c:300-305).               *)
AckMeansRun ==
  [][\A c \in Clients :
       ~Closing(client[c]) /\ client[c].data # NoData
         /\ client'[c].data = NoData /\ client'[c].state # "closed"
       => client[c].data \in Range(ran)]_sessionVars

(* On a wire that loses nothing, whatever clients do, the service is free    *)
(* again sooner or later, although no timer ever clears the entry.           *)
Available == [](losses = 0) => []<>(entry.state = "listen")

(* An attempt to connect is decided, even if segments are lost: accepted or  *)
(* refused, the client does not try for ever.                                *)
Decided == \A c \in Clients : client[c].state = "synsent" ~> client[c].state # "synsent"

(* What a client has typed is acknowledged sooner or later, or the client is *)
(* told that the connection is no more, if no other client is there.         *)
Answered ==
  \A c \in Clients :
    Present = {c} => (client[c].data # NoData ~> client[c].data = NoData)

(* What tcp4.c:288 means to do, "our syn/ack got lost, try again": every     *)
(* SYN/ACK a client waits for acknowledges its SYN.                          *)
SynAckAgain ==
  \A c \in Clients : \A r \in Range(toClient[c]) :
    client[c].state = "synsent" /\ "syn" \in r.flags => r.ack = client[c].nxt

(* What tcp4.c:282 means to do, "refuse other host while connected": no      *)
(* segment of another host ends the connection.                              *)
OtherHostRefused ==
  [][\A c \in Clients :
       entry.state = "connected" /\ c[1] # entry.src /\ Receive(c) => UNCHANGED entry]_sessionVars
===============================================================================
