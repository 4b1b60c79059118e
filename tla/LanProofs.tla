------------------------------- MODULE LanProofs -------------------------------
(***************************************************************************)
(* Proofs about Lan, for every set of boards, every BOOTP table, every     *)
(* size of the receive buffers and every way MAC addresses share their     *)
(* last octets: the types, and that no board ever takes the address of     *)
(* another one.  What has to be carried along is that the BOOTP replies    *)
(* in the receive buffers say what the table of the server says.           *)
(***************************************************************************)
EXTENDS Lan, SequenceTheorems, TLAPS

(* A frame that, if it is a BOOTP reply, says what the table says. *)
Truthful(f) == f.kind = "bootp_reply" => f.chaddr \in Boards /\ f.yiaddr = Assigned[f.chaddr]

TrueFrames == {f \in Frames : Truthful(f)}

(* A receive buffer of truthful frames that is not over-full. *)
Buffer == {q \in Seq(TrueFrames) : Len(q) <= BufferSize}

(* The inductive invariant. *)
IInv ==
  /\ TypeOK
  /\ OwnAddress
  /\ inbox \in [Boards -> Buffer]

-------------------------------------------------------------------------------
(* Receive buffers.                                                          *)

LEMMA PutInBuffer ==
  ASSUME NEW q \in Buffer, NEW f \in TrueFrames
  PROVE  Put(q, f) \in Buffer
<1>1. CASE Len(q) < BufferSize
  <2>1. q \in Seq(TrueFrames) BY DEF Buffer
  <2>2. Append(q, f) \in Seq(TrueFrames) BY <2>1
  <2>3. Len(Append(q, f)) = Len(q) + 1 /\ Len(q) \in Nat BY <2>1
  <2>4. Len(Append(q, f)) <= BufferSize BY <1>1, <2>3, LanAssumption
  <2> QED BY <1>1, <2>2, <2>4 DEF Put, Buffer
<1>2. CASE ~(Len(q) < BufferSize)
  BY <1>2 DEF Put
<1> QED BY <1>1, <1>2

LEMMA UnicastBoxes ==
  ASSUME NEW boxes \in [Boards -> Buffer], NEW to, NEW f \in TrueFrames
  PROVE  Unicast(boxes, to, f) \in [Boards -> Buffer]
<1>1. \A b \in Boards : boxes[b] \in Buffer /\ Put(boxes[b], f) \in Buffer
  BY PutInBuffer
<1> QED BY <1>1 DEF Unicast

LEMMA ToAllBoxes ==
  ASSUME NEW boxes \in [Boards -> Buffer], NEW f \in TrueFrames
  PROVE  ToAll(boxes, f) \in [Boards -> Buffer]
<1>1. \A b \in Boards : boxes[b] \in Buffer /\ Put(boxes[b], f) \in Buffer
  BY PutInBuffer
<1> QED BY <1>1 DEF ToAll

LEMMA TakeFromBuffer ==
  ASSUME NEW q \in Buffer, q # <<>>
  PROVE  Head(q) \in TrueFrames /\ Tail(q) \in Buffer
<1>1. q \in Seq(TrueFrames) /\ Len(q) <= BufferSize BY DEF Buffer
<1>2. Head(q) \in TrueFrames /\ Tail(q) \in Seq(TrueFrames) BY <1>1
<1>3. Len(Tail(q)) = Len(q) - 1 /\ Len(q) \in Nat BY <1>1
<1>4. Len(Tail(q)) <= BufferSize BY <1>1, <1>3, LanAssumption
<1> QED BY <1>2, <1>4 DEF Buffer

(* What is in a buffer is a sequence of frames. *)
LEMMA BufferTyped ==
  ASSUME NEW q \in Buffer
  PROVE  q \in Seq(Frames) /\ Len(q) <= BufferSize
<1>1. q \in Seq(TrueFrames) /\ Len(q) <= BufferSize BY DEF Buffer
<1>2. \A i \in 1 .. Len(q) : q[i] \in Frames
  BY <1>1, ElementOfSeq DEF TrueFrames
<1>3. q = [i \in 1 .. Len(q) |-> q[i]] /\ Len(q) \in Nat
  BY <1>1, LenProperties
<1> QED BY <1>1, <1>2, <1>3

-------------------------------------------------------------------------------
(* Frames.                                                                   *)

LEMMA FrameTrue ==
  ASSUME NEW from \in Boards \cup Stations, NEW kind \in Kinds \ {"bootp_reply"},
         NEW src \in Addresses, NEW dst \in Addresses
  PROVE  Frame(from, kind, src, dst) \in TrueFrames
BY LanAssumption DEF Frame, TrueFrames, Frames, Truthful

LEMMA ReplyTrue ==
  ASSUME IInv, NEW b \in Boards, NEW f \in Frames
  PROVE  ethernet_process_frame(b, f) \in TrueFrames
<1>1. address[b] \in Addresses BY DEF IInv, TypeOK
<1>2. f.src \in Addresses /\ f.dst \in Addresses BY DEF Frames
<1>3. Blank(b) \in TrueFrames
  BY FrameTrue, LanAssumption DEF Blank, Kinds
<1>4. process_arp(b, f) \in TrueFrames
  BY <1>1, <1>2, <1>3, FrameTrue DEF process_arp, Kinds
<1>5. /\ Frame(b, "echo_reply", f.dst, f.src) \in TrueFrames
      /\ Frame(b, "answer", f.dst, f.src) \in TrueFrames
  BY <1>2, FrameTrue DEF Kinds
<1>6. process_ipv4(b, f) \in TrueFrames
  BY <1>3, <1>5 DEF process_ipv4, process_icmp4, process_udp4
<1> QED BY <1>3, <1>4, <1>6 DEF ethernet_process_frame

-------------------------------------------------------------------------------
(* The steps.                                                                *)

LEMMA InitInv == Init => IInv
<1> SUFFICES ASSUME Init PROVE IInv
  OBVIOUS
<1>1. <<>> \in Buffer BY LanAssumption DEF Buffer
<1>2. inbox \in [Boards -> Buffer] BY <1>1 DEF Init
<1>3. TypeOK
  <2>1. 0 \in 0 .. MaxWaiting /\ MaxStimuli \in 0 .. MaxStimuli BY LanAssumption
  <2> QED BY <1>2, <2>1, BufferTyped, LanAssumption DEF Init, TypeOK
<1>4. OwnAddress BY DEF Init, OwnAddress
<1> QED BY <1>2, <1>3, <1>4 DEF IInv

(* What is left to show of a step that does not touch the addresses. *)
LEMMA KeepInv ==
  ASSUME IInv, UNCHANGED address, inbox' \in [Boards -> Buffer],
         turn' \in [Boards -> {"ask", "receive"}],
         waiting' \in [Boards -> 0 .. MaxWaiting], stimuli' \in 0 .. MaxStimuli
  PROVE  IInv'
<1>1. /\ inbox' \in [Boards -> Seq(Frames)]
      /\ \A b \in Boards : Len(inbox'[b]) <= BufferSize
  BY BufferTyped
<1> QED BY <1>1 DEF IInv, TypeOK, OwnAddress

LEMMA AskInv ==
  ASSUME IInv, NEW b \in Boards, Ask(b)
  PROVE  IInv'
<1>1. bootp_create_request(b) \in TrueFrames
  BY FrameTrue, LanAssumption DEF bootp_create_request, Kinds
<1>2. inbox' \in [Boards -> Buffer]
  BY <1>1, ToAllBoxes DEF Ask, IInv
<1>3. waiting' \in [Boards -> 0 .. MaxWaiting]
  <2>1. waiting \in [Boards -> 0 .. MaxWaiting] BY DEF IInv, TypeOK
  <2>2. waiting[b] < MaxWaiting => waiting[b] + 1 \in 0 .. MaxWaiting
    BY <2>1, LanAssumption
  <2> QED BY <2>1, <2>2 DEF Ask
<1>4. turn' \in [Boards -> {"ask", "receive"}] BY DEF Ask, IInv, TypeOK
<1> QED BY <1>2, <1>3, <1>4, KeepInv DEF Ask, IInv, TypeOK

LEMMA ReceiveInv ==
  ASSUME IInv, NEW b \in Boards, ReceiveFrame(b)
  PROVE  IInv'
<1> DEFINE f == Head(inbox[b])
<1>1. f \in TrueFrames /\ Tail(inbox[b]) \in Buffer
  BY TakeFromBuffer DEF IInv, ReceiveFrame
<1>2. f \in Frames /\ Truthful(f) BY <1>1 DEF TrueFrames
<1>3. inbox' = Unicast([inbox EXCEPT ![b] = Tail(inbox[b])], f.from,
                       ethernet_process_frame(b, f))
  BY DEF ReceiveFrame
<1>4. ethernet_process_frame(b, f) \in TrueFrames BY <1>2, ReplyTrue
<1>5. [inbox EXCEPT ![b] = Tail(inbox[b])] \in [Boards -> Buffer]
  BY <1>1 DEF IInv
<1>6. inbox' \in [Boards -> Buffer] BY <1>3, <1>4, <1>5, UnicastBoxes
<1>7. address' = [address EXCEPT ![b] =
                    IF IsIpv4(f) /\ ForMe(b, f) THEN bootp_process_reply(b, f) ELSE address[b]]
  BY DEF ReceiveFrame
<1> HIDE DEF f
<1>8. bootp_process_reply(b, f) \in {address[b], Assigned[b]}
  BY <1>2 DEF bootp_process_reply, AcceptedReply, Truthful
<1>9. address' \in [Boards -> Addresses \ {Everyone}]
  BY <1>7, <1>8, LanAssumption DEF IInv, TypeOK
<1>10. OwnAddress'
  <2>1. \A c \in Boards : c # b => address'[c] = address[c]
    BY <1>7 DEF IInv, TypeOK
  <2>2. address'[b] \in {address[b], Assigned[b]}
    BY <1>7, <1>8 DEF IInv, TypeOK
  <2> QED BY <2>1, <2>2 DEF OwnAddress, IInv
<1>11. /\ inbox' \in [Boards -> Seq(Frames)]
       /\ \A c \in Boards : Len(inbox'[c]) <= BufferSize
  BY <1>6, BufferTyped
<1>12. turn' \in [Boards -> {"ask", "receive"}] /\ UNCHANGED <<waiting, stimuli>>
  BY DEF ReceiveFrame, IInv, TypeOK
<1> QED BY <1>6, <1>9, <1>10, <1>11, <1>12 DEF IInv, TypeOK

LEMMA ServeInv ==
  ASSUME IInv, NEW b \in Boards, Serve(b)
  PROVE  IInv'
<1>1. PICK server \in Stations :
        inbox' = ToAll(inbox, [from |-> server, kind |-> "bootp_reply", src |-> Zero,
                               dst |-> Everyone, chaddr |-> b, yiaddr |-> Assigned[b]])
  BY DEF Serve
<1>2. [from |-> server, kind |-> "bootp_reply", src |-> Zero, dst |-> Everyone,
       chaddr |-> b, yiaddr |-> Assigned[b]] \in TrueFrames
  BY LanAssumption DEF TrueFrames, Frames, Truthful, Kinds
<1>3. inbox' \in [Boards -> Buffer] BY <1>1, <1>2, ToAllBoxes DEF IInv
<1>4. waiting' \in [Boards -> 0 .. MaxWaiting]
  <2>1. waiting \in [Boards -> 0 .. MaxWaiting] BY DEF IInv, TypeOK
  <2>2. waiting[b] - 1 \in 0 .. MaxWaiting BY <2>1, LanAssumption DEF Serve
  <2> QED BY <2>1, <2>2 DEF Serve
<1> QED BY <1>3, <1>4, KeepInv DEF Serve, IInv, TypeOK

LEMMA StimulateInv ==
  ASSUME IInv, Stimulate
  PROVE  IInv'
<1>1. PICK f \in Stimuli :
        \/ inbox' = ToAll(inbox, f)
        \/ \E b \in Boards : inbox' = Unicast(inbox, b, f)
  BY DEF Stimulate
<1>2. f \in TrueFrames BY StimuliAssumption DEF TrueFrames, Truthful
<1>3. inbox' \in [Boards -> Buffer] BY <1>1, <1>2, ToAllBoxes, UnicastBoxes DEF IInv
<1>4. stimuli' \in 0 .. MaxStimuli BY LanAssumption DEF Stimulate, IInv, TypeOK
<1> QED BY <1>3, <1>4, KeepInv DEF Stimulate, IInv, TypeOK

LEMMA NextInv ==
  ASSUME IInv, [Next]_vars
  PROVE  IInv'
<1>1. CASE \E b \in Boards : Ask(b) \/ ReceiveFrame(b) \/ Serve(b)
  BY <1>1, AskInv, ReceiveInv, ServeInv
<1>2. ASSUME NEW b \in Boards, ReceiveNothing(b) PROVE IInv'
  <2>1. turn' \in [Boards -> {"ask", "receive"}]
    BY <1>2 DEF ReceiveNothing, IInv, TypeOK
  <2> QED BY <1>2, <2>1, KeepInv DEF ReceiveNothing, IInv, TypeOK
<1>3. CASE Stimulate BY <1>3, StimulateInv
<1>4. CASE UNCHANGED vars BY <1>4, KeepInv DEF vars, IInv, TypeOK
<1> QED BY <1>1, <1>2, <1>3, <1>4 DEF Next

THEOREM Inductive == Spec => []IInv
<1>1. Init => IInv BY InitInv
<1>2. IInv /\ [Next]_vars => IInv' BY NextInv
<1> QED BY <1>1, <1>2, PTL DEF Spec

(* Addresses, receive buffers and the main loop's turn have their types. *)
THEOREM TypeCorrect == Spec => []TypeOK
<1>1. IInv => TypeOK BY DEF IInv
<1> QED BY Inductive, <1>1, PTL

(* No board takes an address that was meant for another (bootp.c:42-68),     *)
(* however many boards share the xid that is made of their MAC addresses.    *)
THEOREM AddressIsOwn == Spec => []OwnAddress
<1>1. IInv => OwnAddress BY DEF IInv
<1> QED BY Inductive, <1>1, PTL
===============================================================================
