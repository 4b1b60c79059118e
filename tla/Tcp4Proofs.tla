------------------------------ MODULE Tcp4Proofs ------------------------------
(***************************************************************************)
(* Proofs about Tcp4, for every set of hosts and ports, every modulus of   *)
(* the sequence numbers and every application:                             *)
(*   - TypeCorrect: the types;                                             *)
(*   - ListenBlank: nothing of a connection survives its end;              *)
(*   - Refinement:  the responder implements SingleClient.                 *)
(* The first two are inductive as a pair; the third rests on both.         *)
(***************************************************************************)
EXTENDS Tcp4, TLAPS

(* A sum of sequence numbers is a sequence number. *)
LEMMA PlusIsSeqNo ==
  ASSUME NEW x \in SeqNo, NEW n \in Nat
  PROVE  Plus(x, n) \in SeqNo
BY Tcp4Assumption, SMT DEF Plus, SeqNo

(* The blank entry is an entry. *)
LEMMA ListeningIsEntry == Listening \in Entry
BY Tcp4Assumption, SMT DEF Listening, Entry, SeqNo

(* What a segment is made of. *)
LEMMA SegmentFields ==
  ASSUME NEW seg \in Segment
  PROVE  /\ seg.host \in Hosts /\ seg.port \in Ports /\ seg.local \in LocalPorts
         /\ seg.sum \in BOOLEAN /\ seg.flags \in SUBSET Flag
         /\ seg.seq \in SeqNo /\ seg.ack \in SeqNo
         /\ seg.data \in Payloads \cup {NoData}
BY DEF Segment

(* What is numbered by an entry is a reply, if its length is a number. *)
LEMMA NumberedIsReply ==
  ASSUME NEW e \in Entry, NEW seg \in Segment, NEW flags \in SUBSET Flag, NEW n \in Nat
  PROVE  Numbered(e, seg, flags, n) \in Reply
BY SegmentFields DEF Numbered, Reply, Entry

(* A reset is a reply. *)
LEMMA RstIsReply ==
  ASSUME NEW seg \in Segment
  PROVE  Rst(seg) \in Reply
<1>1. Plus(seg.seq, 1) \in SeqNo BY SegmentFields, PlusIsSeqNo
<1>2. {"rst", "ack"} \in SUBSET Flag BY DEF Flag
<1> QED BY <1>1, <1>2, SegmentFields DEF Rst, Reply

(* The two empty segments with a FIN or a SYN are replies. *)
LEMMA EmptyIsReply ==
  ASSUME NEW e \in Entry, NEW seg \in Segment
  PROVE  SynAck(e, seg) \in Reply /\ FinAck(e, seg) \in Reply
<1>1. {"syn", "ack"} \in SUBSET Flag /\ {"fin", "ack"} \in SUBSET Flag BY DEF Flag
<1> QED BY <1>1, NumberedIsReply DEF SynAck, FinAck

(* The entry with the received data counted is an entry. *)
LEMMA ReceivedIsEntry ==
  ASSUME NEW seg \in Segment, seg.data # NoData, TypeOK
  PROVE  Received(seg) \in Entry
<1>1. Size[seg.data] \in Nat BY Tcp4Assumption, SegmentFields
<1>2. Plus(seg.seq, Size[seg.data]) \in SeqNo BY <1>1, SegmentFields, PlusIsSeqNo
<1> QED BY <1>2 DEF Received, TypeOK, Entry

-------------------------------------------------------------------------------

(* The inductive invariant. *)
IInv == TypeOK /\ ListenIsBlank

LEMMA InitInv == Init => IInv
BY ListeningIsEntry DEF Init, IInv, TypeOK, ListenIsBlank, Listening

(* The blank entry and any reply make a good state. *)
LEMMA BlankInv ==
  ASSUME entry' = Listening, tx' \in Reply \cup {NoReply}
  PROVE  IInv'
BY ListeningIsEntry DEF IInv, TypeOK, ListenIsBlank, Listening

(* So do an entry of a connection and any reply. *)
LEMMA BusyInv ==
  ASSUME entry' \in Entry, entry'.state # "listen", tx' \in Reply \cup {NoReply}
  PROVE  IInv'
BY DEF IInv, TypeOK, ListenIsBlank

(* So does the entry as it was. *)
LEMMA SameInv ==
  ASSUME IInv, UNCHANGED entry, tx' \in Reply \cup {NoReply}
  PROVE  IInv'
BY DEF IInv, TypeOK, ListenIsBlank

LEMMA HandlerInv ==
  ASSUME IInv, NEW seg \in Segment, process_tcp4(seg)
  PROVE  IInv'
<1> USE DEF IInv
<1>0. TypeOK /\ tx = NoReply BY DEF process_tcp4
<1>r. Rst(seg) \in Reply BY RstIsReply
<1>s. seg.seq \in SeqNo /\ Plus(seg.seq, 1) \in SeqNo
  BY SegmentFields, PlusIsSeqNo
<1>1. CASE BadChecksum(seg) \/ ConnectedPureAck(seg)
  BY <1>0, <1>1, SameInv DEF BadChecksum, ConnectedPureAck
<1>2. CASE NotServed(seg)
  BY <1>2, <1>r, SameInv DEF NotServed
<1>3. CASE ResetReceived(seg)
  BY <1>0, <1>3, BlankInv DEF ResetReceived
<1>4. CASE ListenOther(seg) \/ ConnectedNonsense(seg) \/ CloseOther(seg)
  BY <1>4, <1>r, BlankInv DEF ListenOther, ConnectedNonsense, CloseOther, Refused
<1>5. CASE ListenSyn(seg)
  <2> DEFINE e == [entry EXCEPT !.state = "connected", !.sport = seg.port,
                                !.src = seg.host, !.rseq = Plus(seg.seq, 1)]
  <2>1. e \in Entry
    BY <1>0, <1>s, SegmentFields DEF TypeOK, Entry
  <2>2. Plus(e.lseq, 1) \in SeqNo
    BY <2>1, PlusIsSeqNo DEF Entry
  <2>3. entry' = [e EXCEPT !.lseq = Plus(e.lseq, 1)] /\ tx' = SynAck(e, seg)
    BY <1>5 DEF ListenSyn
  <2>4. e.state = "connected" BY <1>0 DEF TypeOK, Entry
  <2> HIDE DEF e
  <2>5. entry' \in Entry /\ entry'.state # "listen"
    BY <2>1, <2>2, <2>3, <2>4 DEF Entry
  <2> QED BY <2>1, <2>3, <2>5, EmptyIsReply, BusyInv
<1>6. CASE ConnectedStranger(seg)
  BY <1>6, <1>r, SameInv DEF ConnectedStranger
<1>7. CASE ConnectedSyn(seg)
  <2>1. entry' \in Entry /\ entry'.state # "listen"
    BY <1>0, <1>7, <1>s DEF ConnectedSyn, FromOwnerWhile, InState, TypeOK, Entry
  <2> QED BY <1>7, <2>1, EmptyIsReply, BusyInv DEF ConnectedSyn
<1>8. CASE ConnectedFin(seg)
  <2>1. entry' \in Entry /\ entry'.state # "listen"
    BY <1>0, <1>8, <1>s DEF ConnectedFin, TypeOK, Entry
  <2> QED BY <1>8, <2>1, EmptyIsReply, BusyInv DEF ConnectedFin
<1>9. CASE ConnectedData(seg)
  <2>1. PICK n \in Answer[seg.data] \cap Nat :
          /\ tx' = Numbered(Received(seg), seg, {"ack"}, n)
          /\ entry' = [Received(seg) EXCEPT !.lseq = Plus(Received(seg).lseq, n)]
    BY <1>9 DEF ConnectedData
  <2>2. Received(seg) \in Entry
    BY <1>0, <1>9, ReceivedIsEntry DEF ConnectedData
  <2>3. Received(seg).state = "connected"
    BY <1>0, <1>9 DEF ConnectedData, ConnectedAck, FromOwnerWhile, InState, Received, TypeOK, Entry
  <2>4. Plus(Received(seg).lseq, n) \in SeqNo
    BY <2>2, PlusIsSeqNo DEF Entry
  <2>5. entry' \in Entry /\ entry'.state # "listen"
    BY <2>1, <2>2, <2>3, <2>4 DEF Entry
  <2>6. {"ack"} \in SUBSET Flag BY DEF Flag
  <2>7. tx' \in Reply BY <2>1, <2>2, <2>6, NumberedIsReply
  <2> QED BY <2>5, <2>7, BusyInv
<1>10. CASE ConnectedQuit(seg)
  <2> DEFINE e == [Received(seg) EXCEPT !.state = "close"]
  <2>1. Received(seg) \in Entry
    BY <1>0, <1>10, ReceivedIsEntry DEF ConnectedQuit
  <2>2. e \in Entry /\ e.state = "close"
    BY <2>1 DEF Entry
  <2>3. /\ tx' = FinAck(e, seg)
        /\ entry' = [e EXCEPT !.lseq = Plus(e.lseq, 1), !.rseq = Plus(e.rseq, 1)]
    BY <1>10 DEF ConnectedQuit
  <2> HIDE DEF e
  <2>4. Plus(e.lseq, 1) \in SeqNo /\ Plus(e.rseq, 1) \in SeqNo
    BY <2>2, PlusIsSeqNo DEF Entry
  <2>5. entry' \in Entry /\ entry'.state # "listen"
    BY <2>2, <2>3, <2>4 DEF Entry
  <2> QED BY <2>2, <2>3, <2>5, EmptyIsReply, BusyInv
<1>11. CASE CloseAck(seg)
  BY <1>0, <1>11, BlankInv DEF CloseAck
<1>12. CASE CloseFin(seg)
  <2>1. {"ack"} \in SUBSET Flag BY DEF Flag
  <2>2. tx' \in Reply
    BY <1>0, <1>12, <2>1, NumberedIsReply DEF CloseFin, TypeOK
  <2> QED BY <1>12, <2>2, BlankInv DEF CloseFin
<1> QED
  BY <1>1, <1>2, <1>3, <1>4, <1>5, <1>6, <1>7, <1>8, <1>9, <1>10, <1>11, <1>12
  DEF process_tcp4

LEMMA NextInv ==
  ASSUME IInv, [Next]_vars
  PROVE  IInv'
<1>1. CASE \E seg \in Segment : process_tcp4(seg)
  BY <1>1, HandlerInv
<1>2. CASE Transmit
  BY <1>2, SameInv DEF Transmit
<1>3. CASE UNCHANGED vars
  BY <1>3 DEF vars, IInv, TypeOK, ListenIsBlank
<1> QED BY <1>1, <1>2, <1>3 DEF Next

THEOREM Inductive == Spec => []IInv
<1>1. Init => IInv BY InitInv
<1>2. IInv /\ [Next]_vars => IInv' BY NextInv
<1> QED BY <1>1, <1>2, PTL DEF Spec

(* The state entry and the reply always have their types. *)
THEOREM TypeCorrect == Spec => []TypeOK
<1>1. IInv => TypeOK BY DEF IInv
<1> QED BY Inductive, <1>1, PTL

(* However a connection ends, reset_state has cleared the entry. *)
THEOREM ListenBlank == Spec => []ListenIsBlank
<1>1. IInv => ListenIsBlank BY DEF IInv
<1> QED BY Inductive, <1>1, PTL

-------------------------------------------------------------------------------
(* The refinement, one lemma for each kind of way through process_tcp4.      *)

LEMMA InitRefines == Init => Abstract!Init
BY DEF Init, Abstract!Init, Listening, Phase, Said

(* What SingleClient sees of a state in which a handler may run. *)
LEMMA Quiet ==
  ASSUME IInv, tx = NoReply
  PROVE  /\ Said = NoReply
         /\ entry.state \in {"listen", "connected", "close"}
         /\ entry.state = "listen" => Phase = "free"
         /\ entry.state = "connected" => Phase = "open"
         /\ entry.state = "close" => Phase = "closing"
         /\ entry.state = "listen" => entry.src = NoHost /\ entry.sport = NoPort
BY DEF IInv, TypeOK, ListenIsBlank, Entry, Phase, Said

(* What it sees of a state whose entry is blank. *)
LEMMA BlankSeen ==
  ASSUME entry' = Listening
  PROVE  entry'.src = NoHost /\ entry'.sport = NoPort /\ Phase' = "free"
BY DEF Listening, Phase

(* A reset from the served port is a refusal of its addressee. *)
LEMMA RstSeen ==
  ASSUME NEW seg \in Segment, seg.local = ServedPort, tx' = Rst(seg)
  PROVE  Said' = [to |-> <<seg.host, seg.port>>, flags |-> {"rst", "ack"}]
<1>1. tx' # NoReply BY RstIsReply, NoReplyAssumption
<1> QED BY <1>1 DEF Said, Rst

(* An answer from the served port says its flags to its addressee. *)
LEMMA NumberedSeen ==
  ASSUME NEW e \in Entry, NEW seg \in Segment, seg.local = ServedPort,
         NEW flags \in SUBSET Flag, NEW n \in Nat,
         tx' = Numbered(e, seg, flags, n)
  PROVE  Said' = [to |-> <<seg.host, seg.port>>, flags |-> flags]
<1>1. tx' # NoReply BY NumberedIsReply, NoReplyAssumption
<1> QED BY <1>1 DEF Said, Numbered

LEMMA HandlerRefines ==
  ASSUME IInv, NEW seg \in Segment, process_tcp4(seg)
  PROVE  [Abstract!Next]_(Abstract!vars)
<1> DEFINE s == <<seg.host, seg.port>>
           owner == <<entry.src, entry.sport>>
<1>0. TypeOK /\ tx = NoReply BY DEF IInv, process_tcp4
<1>q. Said = NoReply BY <1>0, Quiet
<1>s. s \in Hosts \X Ports BY SegmentFields
<1>f. {"ack"} \in SUBSET Flag /\ {"syn", "ack"} \in SUBSET Flag
      /\ {"fin", "ack"} \in SUBSET Flag
  BY DEF Flag
<1>stutter. ASSUME UNCHANGED <<entry, tx>> PROVE UNCHANGED Abstract!vars
  BY <1>stutter DEF Abstract!vars, Phase, Said
<1>1. CASE BadChecksum(seg) \/ ConnectedPureAck(seg)
  BY <1>1, <1>stutter DEF BadChecksum, ConnectedPureAck
<1>2. CASE NotServed(seg)
  <2>1. UNCHANGED <<owner, Phase>>
    BY <1>2 DEF NotServed, Phase
  <2>2. Said' = NoReply
    BY <1>2 DEF NotServed, Said, Rst
  <2> QED BY <1>q, <2>1, <2>2 DEF Abstract!vars
<1>3. CASE ResetReceived(seg)
  <2>1. UNCHANGED Said /\ entry' = Listening
    BY <1>0, <1>3 DEF ResetReceived, Said
  <2>2. Abstract!Reset
    BY <1>q, <2>1, BlankSeen DEF Abstract!Reset, Abstract!Free
  <2> QED BY <2>2 DEF Abstract!Next
<1>4. CASE ListenOther(seg)
  <2>1. entry.state = "listen" /\ seg.local = ServedPort
        /\ entry' = Listening /\ tx' = Rst(seg)
    BY <1>4 DEF ListenOther, InState, Refused
  <2>2. UNCHANGED <<owner, Phase>>
    BY <1>0, <2>1, Quiet, BlankSeen
  <2>3. Abstract!Refuse(s)
    BY <1>q, <1>0, <2>1, <2>2, Quiet, RstSeen
    DEF Abstract!Refuse, Abstract!Say, Abstract!refuse
  <2> QED BY <1>s, <2>3 DEF Abstract!Next
<1>5. CASE ListenSyn(seg)
  <2> DEFINE e == [entry EXCEPT !.state = "connected", !.sport = seg.port,
                                !.src = seg.host, !.rseq = Plus(seg.seq, 1)]
  <2>1. /\ entry.state = "listen" /\ seg.local = ServedPort
        /\ entry' = [e EXCEPT !.lseq = Plus(e.lseq, 1)]
        /\ tx' = Numbered(e, seg, {"syn", "ack"}, 0)
    BY <1>5 DEF ListenSyn, InState, SynAck
  <2>2. e \in Entry /\ e.state = "connected" /\ e.src = seg.host /\ e.sport = seg.port
    BY <1>0, SegmentFields, PlusIsSeqNo DEF TypeOK, Entry
  <2> HIDE DEF e
  <2>3. entry'.state = "connected" /\ entry'.src = seg.host /\ entry'.sport = seg.port
    BY <2>1, <2>2 DEF Entry
  <2>4. Said' = [to |-> s, flags |-> {"syn", "ack"}]
    BY <1>f, <2>1, <2>2, NumberedSeen
  <2>5. Phase' = "open" BY <2>3 DEF Phase
  <2>6. Abstract!Accept(s)
    BY <1>0, <1>q, <2>1, <2>3, <2>4, <2>5, Quiet
    DEF Abstract!Accept, Abstract!Say, Abstract!accept
  <2> QED BY <1>s, <2>6 DEF Abstract!Next
<1>6. CASE ConnectedStranger(seg)
  <2>1. /\ entry.state = "connected" /\ seg.local = ServedPort /\ ~FromOwner(seg)
        /\ tx' = Rst(seg) /\ UNCHANGED entry
    BY <1>6 DEF ConnectedStranger, InState
  <2>2. UNCHANGED <<owner, Phase>> /\ s # owner
    BY <2>1 DEF Phase, FromOwner
  <2>3. Abstract!Refuse(s)
    BY <1>0, <1>q, <2>1, <2>2, Quiet, RstSeen
    DEF Abstract!Refuse, Abstract!Say, Abstract!refuse
  <2> QED BY <1>s, <2>3 DEF Abstract!Next
<1>7. CASE ConnectedNonsense(seg)
  <2>1. /\ entry.state = "connected" /\ seg.local = ServedPort /\ s = owner
        /\ entry' = Listening /\ tx' = Rst(seg)
    BY <1>7 DEF ConnectedNonsense, FromOwnerWhile, InState, FromOwner, Refused
  <2>2. Abstract!Break
    BY <1>0, <1>q, <2>1, Quiet, BlankSeen, RstSeen
    DEF Abstract!Break, Abstract!Free, Abstract!Say, Abstract!refuse
  <2> QED BY <2>2 DEF Abstract!Next
<1>8. CASE ConnectedSyn(seg)
  <2>1. /\ entry.state = "connected" /\ seg.local = ServedPort /\ s = owner
        /\ entry' = [entry EXCEPT !.rseq = seg.seq]
        /\ tx' = Numbered(entry', seg, {"syn", "ack"}, 0)
    BY <1>8 DEF ConnectedSyn, FromOwnerWhile, InState, FromOwner, SynAck
  <2>2. entry' \in Entry /\ UNCHANGED <<entry.state, entry.src, entry.sport>>
    BY <1>0, <2>1, SegmentFields DEF TypeOK, Entry
  <2>3. UNCHANGED <<owner, Phase>> BY <2>2 DEF Phase
  <2>4. Said' = [to |-> s, flags |-> {"syn", "ack"}]
    BY <1>f, <2>1, <2>2, NumberedSeen
  <2>5. Abstract!Serve
    BY <1>0, <1>q, <2>1, <2>3, <2>4, Quiet
    DEF Abstract!Serve, Abstract!Say, Abstract!accept
  <2> QED BY <2>5 DEF Abstract!Next
<1>9. CASE ConnectedData(seg)
  <2>1. entry.state = "connected" /\ seg.local = ServedPort /\ s = owner
    BY <1>9 DEF ConnectedData, ConnectedAck, FromOwnerWhile, InState, FromOwner
  <2>2. PICK n \in Answer[seg.data] \cap Nat :
          /\ tx' = Numbered(Received(seg), seg, {"ack"}, n)
          /\ entry' = [Received(seg) EXCEPT !.lseq = Plus(Received(seg).lseq, n)]
    BY <1>9 DEF ConnectedData
  <2>3. Received(seg) \in Entry
    BY <1>0, <1>9, ReceivedIsEntry DEF ConnectedData
  <2>4. UNCHANGED <<entry.state, entry.src, entry.sport>>
    BY <1>0, <2>2 DEF Received, TypeOK, Entry
  <2>5. UNCHANGED <<owner, Phase>> BY <2>4 DEF Phase
  <2>6. Said' = [to |-> s, flags |-> {"ack"}]
    BY <1>f, <2>1, <2>2, <2>3, NumberedSeen
  <2>7. Abstract!Serve
    BY <1>0, <1>q, <2>1, <2>5, <2>6, Quiet
    DEF Abstract!Serve, Abstract!Say, Abstract!serve
  <2> QED BY <2>7 DEF Abstract!Next
<1>10. CASE ConnectedFin(seg) \/ ConnectedQuit(seg)
  <2>1. entry.state = "connected" /\ seg.local = ServedPort /\ s = owner
    BY <1>10 DEF ConnectedFin, ConnectedQuit, ConnectedAck, FromOwnerWhile, InState, FromOwner
  <2>2. PICK e \in Entry : tx' = Numbered(e, seg, {"fin", "ack"}, 0)
    <3>1. CASE ConnectedFin(seg)
      <4>1. entry' \in Entry
        BY <1>0, <3>1, SegmentFields, PlusIsSeqNo DEF ConnectedFin, TypeOK, Entry
      <4> QED BY <3>1, <4>1 DEF ConnectedFin, FinAck
    <3>2. CASE ConnectedQuit(seg)
      <4>1. [Received(seg) EXCEPT !.state = "close"] \in Entry
        BY <1>0, <3>2, ReceivedIsEntry DEF ConnectedQuit, Entry
      <4> QED BY <3>2, <4>1 DEF ConnectedQuit, FinAck
    <3> QED BY <1>10, <3>1, <3>2
  <2>3. entry'.state = "close" /\ UNCHANGED <<entry.src, entry.sport>>
    BY <1>0, <1>10 DEF ConnectedFin, ConnectedQuit, Received, TypeOK, Entry
  <2>4. Phase' = "closing" BY <2>3 DEF Phase
  <2>5. Said' = [to |-> s, flags |-> {"fin", "ack"}]
    BY <1>f, <2>1, <2>2, NumberedSeen
  <2>6. Abstract!Bye
    BY <1>0, <1>q, <2>1, <2>3, <2>4, <2>5, Quiet
    DEF Abstract!Bye, Abstract!Say, Abstract!bye
  <2> QED BY <2>6 DEF Abstract!Next
<1>11. CASE CloseAck(seg)
  <2>1. UNCHANGED Said /\ entry' = Listening
    BY <1>0, <1>11 DEF CloseAck, Said
  <2>2. Abstract!Reset
    BY <1>q, <2>1, BlankSeen DEF Abstract!Reset, Abstract!Free
  <2> QED BY <2>2 DEF Abstract!Next
<1>12. CASE CloseFin(seg) \/ CloseOther(seg)
  <2>1. entry.state = "close" /\ seg.local = ServedPort /\ entry' = Listening
    BY <1>12 DEF CloseFin, CloseOther, InState, Refused
  <2>2. \E flags \in {{"ack"}, {"rst", "ack"}} : Said' = [to |-> s, flags |-> flags]
    <3>1. CASE CloseFin(seg)
      <4>1. tx' = Numbered(entry, seg, {"ack"}, 0) /\ entry \in Entry
        BY <1>0, <3>1 DEF CloseFin, TypeOK
      <4>2. Said' = [to |-> s, flags |-> {"ack"}]
        BY <1>f, <2>1, <4>1, NumberedSeen
      <4> QED BY <4>2
    <3>2. CASE CloseOther(seg)
      BY <2>1, <3>2, RstSeen DEF CloseOther, Refused
    <3> QED BY <1>12, <3>1, <3>2
  <2>3. Abstract!Finish(s)
    BY <1>0, <1>q, <2>1, <2>2, Quiet, BlankSeen
    DEF Abstract!Finish, Abstract!Free, Abstract!Say, Abstract!serve, Abstract!refuse
  <2> QED BY <1>s, <2>3 DEF Abstract!Next
<1> QED
  BY <1>1, <1>2, <1>3, <1>4, <1>5, <1>6, <1>7, <1>8, <1>9, <1>10, <1>11, <1>12
  DEF process_tcp4

LEMMA StepRefines ==
  ASSUME IInv, [Next]_vars
  PROVE  [Abstract!Next]_(Abstract!vars)
<1>1. CASE \E seg \in Segment : process_tcp4(seg)
  BY <1>1, HandlerRefines
<1>2. CASE Transmit
  <2>1. Said' = NoReply /\ UNCHANGED <<entry.src, entry.sport, Phase>>
    BY <1>2 DEF Transmit, Said, Phase
  <2>2. CASE Said = NoReply
    BY <2>1, <2>2 DEF Abstract!vars
  <2>3. CASE Said # NoReply
    <3>1. Abstract!Sent BY <2>1, <2>3 DEF Abstract!Sent
    <3> QED BY <3>1 DEF Abstract!Next
  <2> QED BY <2>2, <2>3
<1>3. CASE UNCHANGED vars
  BY <1>3 DEF vars, Abstract!vars, Phase, Said
<1> QED BY <1>1, <1>2, <1>3 DEF Next

(* The responder serves one socket at a time and refuses the others, as the  *)
(* abstract service does: tcp4.c:282-286 for every segment that may arrive.  *)
THEOREM Refinement == Spec => Implements
<1>1. Init => Abstract!Init BY InitRefines
<1>2. IInv /\ [Next]_vars => [Abstract!Next]_(Abstract!vars) BY StepRefines
<1> QED BY <1>1, <1>2, Inductive, PTL DEF Spec, Implements, Abstract!Spec
===============================================================================
