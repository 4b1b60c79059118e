--------------------------- MODULE TcpSessionProofs ---------------------------
(***************************************************************************)
(* Proofs about TcpSession, for every number of clients, lines, losses and *)
(* restarts, and every modulus of the sequence numbers:                    *)
(*   - SessionTypes: the types, and nothing is run that was not typed;     *)
(*   - LinesAreRun:  a line the board acknowledged has been run;           *)
(*   - LinesRunOnce: on a wire that loses nothing, it has been run once;   *)
(*   - EndsAgree:    ... and the two ends agree on what they have sent.    *)
(* The reason is that a client has one line under way at a time: it is on  *)
(* its way to the board, or what tells of it is on its way back (Flow).    *)
(* While nothing is lost the board and the client it serves also agree on  *)
(* the numbers (Exact, InTune), although the board never compares one.     *)
(***************************************************************************)
EXTENDS TcpSession, Tcp4Proofs, SequenceTheorems

(* What clients send. *)
FromClient(c, s) ==
  /\ s \in Segment /\ s.host = c[1] /\ s.port = c[2] /\ s.local = ServedPort /\ s.sum
  /\ s.flags \in {{"syn"}, {"ack"}, {"ack", "fin"}, {"rst"}}
  /\ s.data # NoData => "ack" \in s.flags

(* The reply that is about to leave is to c. *)
Mine(c) == tx # NoReply /\ <<tx.host, tx.port>> = c

(* All replies that c has not heard yet, in their order. *)
Down(c) == IF Mine(c) THEN Append(toClient[c], tx) ELSE toClient[c]

(* Segments whose data is run if the board listens to them, and replies that *)
(* do not refuse.                                                            *)
Runnable == {s \in Segment : s.data # NoData /\ "fin" \notin s.flags}
Telling == {r \in Reply : "rst" \notin r.flags}

(* How many members of S are in a queue: none, or not more than one. *)
None(queue, S) == \A i \in DOMAIN queue : queue[i] \notin S
Few(queue, S) == \A i, j \in DOMAIN queue : queue[i] \in S /\ queue[j] \in S => i = j

(* A client in these states has not said that it closes. *)
Open(k) == k.state \in {"estab", "closewait"}

(* What is under way between the board and a client that knows k, up to the  *)
(* board and down to the client, when the lines in run have been run.        *)
Queues(c, up, down) ==
  /\ up \in Seq(Segment) /\ down \in Seq(Reply)
  /\ \A i \in DOMAIN up : FromClient(c, up[i])

(* One attempt to connect is under way at a time. *)
Attempt(k, up, down) ==
  /\ k.state = "synsent" => Len(up) + Len(down) <= 1 /\ k.nxt = Plus(k.una, 1)
  /\ \A i \in DOMAIN up : "syn" \in up[i].flags => k.state = "synsent" /\ up[i].seq = k.una

(* What is on its way up from a client that has not closed, and down to it. *)
Asked(k, up) ==
  /\ \A i \in DOMAIN up : /\ up[i].flags = {"ack"}
                          /\ up[i].data # NoData => up[i].data = k.data /\ up[i].seq = k.una
  /\ k.data # NoData => k.nxt = Plus(k.una, Size[k.data])

Told(k, down, run) ==
  \A i \in DOMAIN down :
    down[i] \in Telling => k.data # NoData /\ k.data \in run /\ down[i].ack = k.nxt

(* One line is under way at a time, or what tells that it has been run. *)
Line(k, up, down, run) ==
  /\ k.state \in {"absent", "closed", "synsent"} => k.data = NoData
  /\ Few(up, Runnable)
  /\ k.state \in {"finwait", "lastack"} => None(up, Runnable)
  /\ Open(k) => /\ Asked(k, up) /\ Told(k, down, run)
                /\ None(up, Runnable) \/ None(down, Telling)
                /\ Few(down, Telling)

Flow(c, k, up, down, run) == Queues(c, up, down) /\ Attempt(k, up, down) /\ Line(k, up, down, run)

(* As long as nothing was lost: what tells of a line is what the client      *)
(* expects next.                                                             *)
Exact(k, down) ==
  Open(k) => \A i \in DOMAIN down :
               down[i] \in Telling => down[i].seq = k.rcv /\ "syn" \notin down[i].flags

(* As long as nothing was lost: a client and the board that serves it agree, *)
(* and no line is under way that has been run.                               *)
InTune(e, k, up, down, run) ==
  /\ k.state \in {"synsent", "estab", "finwait", "closed"}
  /\ k.state = "synsent" =>
       /\ up = <<>> /\ Len(down) = 1 /\ down[1].flags = {"syn", "ack"}
       /\ down[1].ack = k.nxt /\ e.rseq = k.nxt /\ e.lseq = Plus(down[1].seq, 1)
  /\ k.state \in {"estab", "finwait"} => \A i \in DOMAIN down : {"rst", "fin"} \cap down[i].flags = {}
  /\ k.state = "estab" =>
       /\ None(up, Runnable) => e.rseq = k.nxt
       /\ None(down, Telling) => e.lseq = k.rcv
       /\ \A i \in DOMAIN down : down[i] \in Telling => e.lseq = Plus(k.rcv, down[i].len)
       /\ k.data # NoData /\ None(down, Telling) => k.data \notin run
  /\ \A i \in DOMAIN up : up[i] \in Runnable => up[i].data \notin run
  /\ k.state = "finwait" => \E i \in DOMAIN up : "fin" \in up[i].flags
  /\ k.state = "closed" => \E i \in DOMAIN up : "rst" \in up[i].flags

Serves(c) == entry.state = "connected" /\ <<entry.src, entry.sport>> = c

-------------------------------------------------------------------------------
(* The inductive invariant. *)

Kept ==
  /\ IInv
  /\ client \in [Clients -> Connection]
  /\ toServer \in [Clients -> Seq(Segment)] /\ toClient \in [Clients -> Seq(Reply)]
  /\ typed \subseteq Payloads /\ ran \in Seq(Payloads) /\ losses \in Nat

(* Every line that is under way, or was run, has been typed. *)
Owned ==
  /\ Range(ran) \subseteq typed
  /\ \A c \in Clients : /\ client[c].data \in typed \cup {NoData}
                        /\ \A i \in DOMAIN toServer[c] : toServer[c][i].data \in typed \cup {NoData}

Flows == \A c \in Clients : Flow(c, client[c], toServer[c], Down(c), Range(ran))

Tuned ==
  losses = 0 =>
    /\ IsInjective(ran)
    /\ \A c \in Clients :
         /\ Exact(client[c], Down(c))
         /\ Serves(c) => InTune(entry, client[c], toServer[c], Down(c), Range(ran))

SInv == Kept /\ Owned /\ Flows /\ Tuned

-------------------------------------------------------------------------------
(* Queues. *)

(* p is q, or q without its first or last elements. *)
Part(p, q) ==
  /\ Len(p) <= Len(q)
  /\ \E d \in {0, 1} : \A i \in DOMAIN p : i + d \in DOMAIN q /\ p[i] = q[i + d]

LEMMA WholePart ==
  ASSUME NEW S, NEW q \in Seq(S)
  PROVE  Part(q, q)
<1>1. Len(q) <= Len(q) BY LenProperties
<1>2. \A i \in DOMAIN q : i + 0 \in DOMAIN q /\ q[i] = q[i + 0] BY LenProperties
<1> QED BY <1>1, <1>2 DEF Part

LEMMA TailPart ==
  ASSUME NEW S, NEW q \in Seq(S), q # <<>>
  PROVE  /\ Tail(q) \in Seq(S) /\ Head(q) \in S /\ 1 \in DOMAIN q /\ Head(q) = q[1]
         /\ Len(Tail(q)) = Len(q) - 1 /\ Len(q) \in Nat
         /\ \A i \in DOMAIN Tail(q) : i + 1 \in DOMAIN q /\ Tail(q)[i] = q[i + 1]
         /\ Part(Tail(q), q)
<1>1. /\ Tail(q) \in Seq(S) /\ Head(q) \in S /\ Len(Tail(q)) = Len(q) - 1
      /\ \A i \in 1 .. Len(Tail(q)) : Tail(q)[i] = q[i + 1]
  BY HeadTailProperties
<1>2. Len(q) \in Nat /\ DOMAIN q = 1 .. Len(q) /\ DOMAIN Tail(q) = 1 .. Len(Tail(q))
  BY <1>1, LenProperties
<1>3. Len(q) # 0 BY EmptySeq
<1>4. \A i \in DOMAIN Tail(q) : i + 1 \in DOMAIN q /\ Tail(q)[i] = q[i + 1] BY <1>1, <1>2
<1>5. Head(q) = q[1] /\ 1 \in DOMAIN q BY <1>2, <1>3
<1>6. Part(Tail(q), q) BY <1>1, <1>2, <1>4 DEF Part
<1> QED BY <1>1, <1>2, <1>4, <1>5, <1>6

LEMMA AppendPart ==
  ASSUME NEW S, NEW q \in Seq(S), NEW x \in S
  PROVE  /\ Append(q, x) \in Seq(S) /\ Len(Append(q, x)) = Len(q) + 1 /\ Len(q) \in Nat
         /\ Append(q, x) # <<>>
         /\ \A i \in DOMAIN q : i \in DOMAIN Append(q, x) /\ Append(q, x)[i] = q[i]
         /\ \A i \in DOMAIN Append(q, x) : i \in DOMAIN q \/ i = Len(q) + 1
         /\ Len(q) + 1 \in DOMAIN Append(q, x) /\ Append(q, x)[Len(q) + 1] = x
         /\ Len(q) + 1 \notin DOMAIN q
         /\ Part(q, Append(q, x))
<1>1. /\ Append(q, x) \in Seq(S) /\ Len(Append(q, x)) = Len(q) + 1
      /\ \A i \in 1 .. Len(q) : Append(q, x)[i] = q[i]
      /\ Append(q, x)[Len(q) + 1] = x
  BY AppendProperties
<1>2. Len(q) \in Nat /\ DOMAIN q = 1 .. Len(q) /\ DOMAIN Append(q, x) = 1 .. Len(q) + 1
  BY <1>1, LenProperties
<1>3. \A i \in DOMAIN q : i \in DOMAIN Append(q, x) /\ Append(q, x)[i] = q[i] BY <1>1, <1>2
<1>4. \A i \in DOMAIN Append(q, x) : i \in DOMAIN q \/ i = Len(q) + 1 BY <1>2
<1>5. Len(q) + 1 \in DOMAIN Append(q, x) /\ Len(q) + 1 \notin DOMAIN q BY <1>2
<1>6. Append(q, x) # <<>> BY <1>1, <1>2, EmptySeq
<1>7. Part(q, Append(q, x))
  <2>1. \A i \in DOMAIN q : i + 0 \in DOMAIN Append(q, x) /\ q[i] = Append(q, x)[i + 0]
    BY <1>2, <1>3
  <2> QED BY <1>1, <1>2, <2>1 DEF Part
<1> QED BY <1>1, <1>2, <1>3, <1>4, <1>5, <1>6, <1>7

LEMMA NoLength ==
  ASSUME NEW S, NEW q \in Seq(S), Len(q) = 0
  PROVE  q = <<>>
BY EmptySeq

LEMMA PartNone ==
  ASSUME NEW p, NEW q, Part(p, q), NEW S, None(q, S)
  PROVE  None(p, S)
BY DEF Part, None

LEMMA PartFew ==
  ASSUME NEW T, NEW p \in Seq(T), NEW q, Part(p, q), NEW S, Few(q, S)
  PROVE  Few(p, S)
<1>1. PICK d \in {0, 1} : \A i \in DOMAIN p : i + d \in DOMAIN q /\ p[i] = q[i + d] BY DEF Part
<1>2. SUFFICES ASSUME NEW i \in DOMAIN p, NEW j \in DOMAIN p, p[i] \in S, p[j] \in S PROVE i = j
  BY DEF Few
<1>3. i + d = j + d BY <1>1, <1>2 DEF Few
<1>4. i \in Nat /\ j \in Nat BY LenProperties
<1> QED BY <1>3, <1>4

LEMMA AppendNone ==
  ASSUME NEW T, NEW q \in Seq(T), NEW x \in T, NEW S, x \notin S, None(q, S)
  PROVE  None(Append(q, x), S)
BY AppendPart DEF None

LEMMA AppendFew ==
  ASSUME NEW T, NEW q \in Seq(T), NEW x \in T, NEW S, Few(q, S), x \notin S \/ None(q, S)
  PROVE  Few(Append(q, x), S)
BY AppendPart DEF None, Few

(* Behind the only element there is none. *)
LEMMA TailNone ==
  ASSUME NEW T, NEW q \in Seq(T), q # <<>>, NEW S, Few(q, S), Head(q) \in S
  PROVE  None(Tail(q), S)
<1>1. SUFFICES ASSUME NEW i \in DOMAIN Tail(q), Tail(q)[i] \in S PROVE FALSE BY DEF None
<1>2. /\ i + 1 \in DOMAIN q /\ Tail(q)[i] = q[i + 1] /\ 1 \in DOMAIN q /\ Head(q) = q[1]
      /\ Tail(q) \in Seq(T)
  BY TailPart
<1>3. i + 1 = 1 BY <1>1, <1>2 DEF Few
<1>4. i \in Nat /\ i # 0 BY <1>2, LenProperties
<1> QED BY <1>3, <1>4

(* Nothing but the first element can be in a queue and not in its tail. *)
LEMMA TailBut ==
  ASSUME NEW T, NEW q \in Seq(T), q # <<>>, NEW i \in DOMAIN q
  PROVE  i = 1 \/ (i - 1 \in DOMAIN Tail(q) /\ Tail(q)[i - 1] = q[i])
<1>1. Tail(q) \in Seq(T) /\ Len(Tail(q)) = Len(q) - 1 /\ Len(q) \in Nat BY TailPart
<1>2. DOMAIN q = 1 .. Len(q) /\ DOMAIN Tail(q) = 1 .. Len(q) - 1 BY <1>1, LenProperties
<1>3. \A j \in DOMAIN Tail(q) : Tail(q)[j] = q[j + 1] BY TailPart
<1>4. i \in Nat /\ i - 1 + 1 = i BY <1>2
<1> QED BY <1>2, <1>3, <1>4

-------------------------------------------------------------------------------
(* What is under way, when some of it goes: a queue may lose any of its ends. *)

LEMMA FlowLess ==
  ASSUME NEW c, NEW k, NEW up, NEW down, NEW run, Flow(c, k, up, down, run),
         NEW up2 \in Seq(Segment), Part(up2, up), NEW down2 \in Seq(Reply), Part(down2, down)
  PROVE  Flow(c, k, up2, down2, run)
<1> DEFINE Sub(p, q) == \A i \in DOMAIN p : \E j \in DOMAIN q : p[i] = q[j]
<1>1. Sub(up2, up) /\ Sub(down2, down) BY DEF Part
<1>2. Queues(c, up, down) BY DEF Flow
<1>3. Queues(c, up2, down2) BY <1>1, <1>2 DEF Queues
<1>4. Len(up2) + Len(down2) <= Len(up) + Len(down)
  BY <1>2, LenProperties DEF Part, Queues
<1>5. Len(up2) + Len(down2) \in Nat /\ Len(up) + Len(down) \in Nat
  BY <1>2, LenProperties DEF Queues
<1>6. Attempt(k, up2, down2)
  <2>1. Attempt(k, up, down) BY DEF Flow
  <2>2. k.state = "synsent" => Len(up2) + Len(down2) <= 1 /\ k.nxt = Plus(k.una, 1)
    BY <1>4, <1>5, <2>1 DEF Attempt
  <2> QED BY <1>1, <2>1, <2>2 DEF Attempt
<1>7. Line(k, up2, down2, run)
  <2>1. Line(k, up, down, run) BY DEF Flow
  <2>2. Few(up2, Runnable) BY <2>1, PartFew DEF Line
  <2>3. None(up, Runnable) => None(up2, Runnable) BY PartNone
  <2>4. None(down, Telling) => None(down2, Telling) BY PartNone
  <2>5. Few(down, Telling) => Few(down2, Telling) BY PartFew
  <2>6. Asked(k, up) => Asked(k, up2) BY <1>1 DEF Asked
  <2>7. Told(k, down, run) => Told(k, down2, run) BY <1>1 DEF Told
  <2> QED BY <2>1, <2>2, <2>3, <2>4, <2>5, <2>6, <2>7 DEF Line
<1> QED BY <1>3, <1>6, <1>7 DEF Flow

(* More lines have been run. *)
LEMMA FlowMore ==
  ASSUME NEW c, NEW k, NEW up, NEW down, NEW run, Flow(c, k, up, down, run),
         NEW more, run \subseteq more
  PROVE  Flow(c, k, up, down, more)
BY DEF Flow, Line, Told

LEMMA ExactLess ==
  ASSUME NEW k, NEW down, Exact(k, down), NEW down2, Part(down2, down)
  PROVE  Exact(k, down2)
BY DEF Exact, Part

-------------------------------------------------------------------------------
(* What clients send is FromClient. *)

LEMMA ClientFields ==
  ASSUME NEW c \in Clients
  PROVE  c[1] \in Hosts /\ c[2] \in Ports /\ c = <<c[1], c[2]>>
BY DEF Clients

LEMMA SegFrom ==
  ASSUME NEW c \in Clients, NEW flags \in {{"syn"}, {"ack"}, {"ack", "fin"}, {"rst"}},
         NEW seq \in SeqNo, NEW ack \in SeqNo, NEW data \in Payloads \cup {NoData},
         data # NoData => "ack" \in flags
  PROVE  FromClient(c, Seg(c, flags, seq, ack, data))
<1>1. flags \in SUBSET Flag BY DEF Flag
<1>2. ServedPort \in LocalPorts BY Tcp4Assumption
<1>3. Seg(c, flags, seq, ack, data) \in Segment BY <1>1, <1>2, ClientFields DEF Seg, Segment
<1> QED BY <1>3 DEF FromClient, Seg

LEMMA SeqNoFacts == 0 \in SeqNo /\ SeqMod \in Nat /\ SeqMod > 0 /\ \A x \in SeqNo : x \in Nat /\ x < SeqMod
BY Tcp4Assumption DEF SeqNo

(* An ACK and a reset carry nothing. *)
LEMMA AckFrom ==
  ASSUME NEW c \in Clients, NEW k \in Connection
  PROVE  /\ FromClient(c, Ack(c, k)) /\ Ack(c, k).flags = {"ack"}
         /\ Ack(c, k).data = NoData /\ Ack(c, k) \notin Runnable
<1>1. k.nxt \in SeqNo /\ k.rcv \in SeqNo BY DEF Connection
<1>2. FromClient(c, Ack(c, k)) BY <1>1, SegFrom DEF Ack
<1> QED BY <1>2 DEF Ack, Seg, Runnable

LEMMA ResetFrom ==
  ASSUME NEW c \in Clients, NEW seq \in SeqNo
  PROVE  /\ FromClient(c, Reset(c, seq)) /\ Reset(c, seq).flags = {"rst"}
         /\ Reset(c, seq).data = NoData /\ Reset(c, seq) \notin Runnable
<1>1. FromClient(c, Reset(c, seq)) BY SegFrom, SeqNoFacts DEF Reset
<1> QED BY <1>1 DEF Reset, Seg, Runnable

LEMMA OutstandingFrom ==
  ASSUME NEW c \in Clients, NEW k \in Connection, k.state = "synsent" => k.data = NoData
  PROVE  LET s == Outstanding(c, k)
         IN /\ FromClient(c, s) /\ s.seq = k.una /\ s.data = k.data
            /\ s.flags = IF k.state = "synsent" THEN {"syn"}
                         ELSE IF Closing(k) THEN {"ack", "fin"} ELSE {"ack"}
<1>1. /\ k.una \in SeqNo /\ k.rcv \in SeqNo /\ 0 \in SeqNo
      /\ k.data \in Payloads \cup {NoData} /\ NoData \in Payloads \cup {NoData}
  BY SeqNoFacts DEF Connection
<1>2. CASE k.state = "synsent"
  <2>1. Outstanding(c, k) = Seg(c, {"syn"}, k.una, 0, NoData) BY <1>2 DEF Outstanding
  <2>2. FromClient(c, Outstanding(c, k)) BY <1>1, <2>1, SegFrom
  <2> QED BY <1>2, <2>1, <2>2 DEF Seg
<1>3. CASE k.state # "synsent"
  <2> DEFINE flags == IF Closing(k) THEN {"ack", "fin"} ELSE {"ack"}
  <2>1. {"ack"} \cup {f \in {"fin"} : Closing(k)} = flags OBVIOUS
  <2>2. Outstanding(c, k) = Seg(c, flags, k.una, k.rcv, k.data) BY <1>3, <2>1 DEF Outstanding
  <2>3. flags \in {{"syn"}, {"ack"}, {"ack", "fin"}, {"rst"}} /\ "ack" \in flags OBVIOUS
  <2>4. flags = IF k.state = "synsent" THEN {"syn"}
                ELSE IF Closing(k) THEN {"ack", "fin"} ELSE {"ack"}
    BY <1>3
  <2> HIDE DEF flags
  <2>5. FromClient(c, Outstanding(c, k)) BY <1>1, <2>2, <2>3, SegFrom
  <2> QED BY <2>2, <2>4, <2>5 DEF Seg
<1> QED BY <1>2, <1>3

(* A sum with what is less than half of the numbers is another number, and   *)
(* not behind.                                                               *)
LEMMA PlusMoves ==
  ASSUME NEW x \in SeqNo, NEW d \in Payloads
  PROVE  Plus(x, Size[d]) # x /\ ~Behind(Plus(x, Size[d]), x) /\ ~Behind(x, x)
         /\ (x - x) % SeqMod = 0
<1>1. Size[d] \in Nat \ {0} /\ Size[d] < Half BY Tcp4Assumption, SessionAssumption
<1>2. SeqMod \in Nat \ {0} BY Tcp4Assumption
<1>3. Half \in Nat /\ Half <= SeqMod BY <1>2 DEF Half
<1>4. x \in Nat /\ x < SeqMod BY SeqNoFacts
<1> DEFINE z == Size[d]
           h == Half
<1> HIDE DEF z, h
<1>5. /\ z \in Nat /\ h \in Nat /\ z < h /\ h <= SeqMod /\ x \in Nat /\ x < SeqMod /\ 0 < z
      /\ SeqMod \in Nat
  BY <1>1, <1>2, <1>3, <1>4 DEF z, h
<1>6. CASE x + z < SeqMod
  <2>1. (x + z) % SeqMod = x + z BY <1>5, <1>6
  <2>2. (x + z - x) % SeqMod = z BY <1>5
  <2>3. (x - x) % SeqMod = 0 BY <1>5
  <2> QED BY <1>5, <2>1, <2>2, <2>3 DEF Plus, Behind, z, h
<1>7. CASE x + z >= SeqMod
  <2>1. (x + z) % SeqMod = x + z - SeqMod BY <1>5, <1>7
  <2>2. (x + z - SeqMod - x) % SeqMod = z BY <1>5
  <2>3. (x - x) % SeqMod = 0 BY <1>5
  <2> QED BY <1>5, <2>1, <2>2, <2>3 DEF Plus, Behind, z, h
<1> QED BY <1>5, <1>6, <1>7

-------------------------------------------------------------------------------
(* What is under way, when a client sends. *)

LEMMA QueuesSend ==
  ASSUME NEW c, NEW up, NEW down, Queues(c, up, down), NEW s, FromClient(c, s)
  PROVE  Queues(c, Append(up, s), down)
<1>1. up \in Seq(Segment) /\ s \in Segment BY DEF Queues, FromClient
<1>2. \A i \in DOMAIN Append(up, s) : FromClient(c, Append(up, s)[i])
  BY <1>1, AppendPart DEF Queues
<1> QED BY <1>1, <1>2, AppendPart DEF Queues

(* Nothing but what the client has outstanding. *)
LEMMA QueuesFirst ==
  ASSUME NEW c, NEW s, FromClient(c, s)
  PROVE  /\ Queues(c, Append(<<>>, s), <<>>) /\ Len(Append(<<>>, s)) = 1
         /\ DOMAIN Append(<<>>, s) = {1} /\ Append(<<>>, s)[1] = s
         /\ \A S : None(<<>>, S) /\ Few(<<>>, S) /\ Few(Append(<<>>, s), S)
         /\ Len(<<>>) = 0 /\ Append(<<>>, s) \in Seq(Segment) /\ <<>> \in Seq(Reply)
<1>1. s \in Segment /\ <<>> \in Seq(Segment) /\ Len(<<>>) = 0 /\ <<>> \in Seq(Reply)
  BY EmptySeq DEF FromClient
<1>2. Queues(c, <<>>, <<>>) BY <1>1 DEF Queues
<1>3. Append(<<>>, s) \in Seq(Segment) /\ Len(Append(<<>>, s)) = 1 /\ Append(<<>>, s)[1] = s
  BY <1>1, AppendPart
<1>4. DOMAIN Append(<<>>, s) = {1} BY <1>3, LenProperties
<1>5. Queues(c, Append(<<>>, s), <<>>) BY <1>2, QueuesSend
<1> QED BY <1>1, <1>3, <1>4, <1>5 DEF None, Few

LEMMA ConnectFlow ==
  ASSUME NEW c \in Clients, NEW run, NEW k \in Connection, k.state = "synsent",
         k.data = NoData, k.nxt = Plus(k.una, 1)
  PROVE  Flow(c, k, Append(<<>>, Outstanding(c, k)), <<>>, run)
<1> DEFINE s == Outstanding(c, k)
<1>1. FromClient(c, s) /\ s.seq = k.una /\ s.data = NoData BY OutstandingFrom
<1> HIDE DEF s
<1>2. Attempt(k, Append(<<>>, s), <<>>) BY <1>1, QueuesFirst DEF Attempt
<1>3. Line(k, Append(<<>>, s), <<>>, run) BY <1>1, QueuesFirst DEF Line, Open
<1> QED BY <1>1, <1>2, <1>3, QueuesFirst DEF Flow, s

(* A client with nothing outstanding has no line under way. *)
LEMMA Settled ==
  ASSUME NEW c, NEW k \in Connection, NEW up, NEW down, NEW run, Flow(c, k, up, down, run),
         Open(k), Acknowledged(k)
  PROVE  k.data = NoData /\ None(up, Runnable) /\ None(down, Telling)
<1>1. Asked(k, up) /\ Told(k, down, run) BY DEF Flow, Line
<1>2. k.data = NoData
  <2>1. SUFFICES ASSUME k.data # NoData PROVE FALSE OBVIOUS
  <2>2. k.una \in SeqNo /\ k.data \in Payloads BY <2>1 DEF Connection
  <2> QED BY <1>1, <2>1, <2>2, PlusMoves DEF Asked, Acknowledged
<1>3. None(up, Runnable) BY <1>1, <1>2 DEF Asked, None, Runnable
<1>4. None(down, Telling) BY <1>1, <1>2 DEF Told, None
<1> QED BY <1>2, <1>3, <1>4

(* Open clients and clients that close have no attempt under way. *)
LEMMA NoAttempt ==
  ASSUME NEW c, NEW k, NEW up, NEW down, NEW run, Flow(c, k, up, down, run),
         k.state # "synsent", NEW k2, k2.state # "synsent", NEW s, "syn" \notin s.flags,
         s \in Segment
  PROVE  Attempt(k2, up, down) /\ Attempt(k2, Append(up, s), down)
<1>1. up \in Seq(Segment) BY DEF Flow, Queues
<1>2. \A i \in DOMAIN up : "syn" \notin up[i].flags BY DEF Flow, Attempt
<1>3. \A i \in DOMAIN Append(up, s) : "syn" \notin Append(up, s)[i].flags
  BY <1>1, <1>2, AppendPart
<1> QED BY <1>2, <1>3 DEF Attempt

LEMMA TypeFlow ==
  ASSUME NEW c \in Clients, NEW k \in Connection, NEW up, NEW down, NEW run,
         Flow(c, k, up, down, run), k.state = "estab", Acknowledged(k), NEW d \in Payloads,
         NEW k2 \in Connection, k2.state = "estab", k2.data = d, k2.una = k.una,
         k2.nxt = Plus(k.nxt, Size[d])
  PROVE  Flow(c, k2, Append(up, Outstanding(c, k2)), down, run)
<1> DEFINE s == Outstanding(c, k2)
<1>1. FromClient(c, s) /\ s.seq = k.una /\ s.data = d /\ s.flags = {"ack"}
  BY OutstandingFrom DEF Closing
<1> HIDE DEF s
<1>2. Queues(c, Append(up, s), down) BY <1>1, QueuesSend DEF Flow
<1>3. s \in Segment /\ up \in Seq(Segment) BY <1>1 DEF FromClient, Flow, Queues
<1>4. Attempt(k2, Append(up, s), down) BY <1>1, <1>3, NoAttempt
<1>5. k.data = NoData /\ None(up, Runnable) /\ None(down, Telling) BY Settled DEF Open
<1>6. Asked(k2, Append(up, s))
  <2>1. Asked(k, up) BY DEF Flow, Line, Open
  <2>2. \A i \in DOMAIN up : up[i].flags = {"ack"} /\ up[i].data = NoData BY <1>5, <2>1 DEF Asked
  <2>3. ASSUME NEW i \in DOMAIN Append(up, s), NEW x, x = Append(up, s)[i]
        PROVE  /\ x.flags = {"ack"}
               /\ x.data # NoData => x.data = d /\ x.seq = k.una
    BY <1>1, <1>3, <2>2, <2>3, AppendPart
  <2>4. k2.nxt = Plus(k2.una, Size[k2.data]) BY DEF Acknowledged
  <2> QED BY <2>3, <2>4 DEF Asked
<1>7. Told(k2, down, run) BY <1>5 DEF Told, None
<1>8. Few(Append(up, s), Runnable) BY <1>3, <1>5, AppendFew DEF None, Few
<1>9. Few(down, Telling) BY <1>5 DEF None, Few
<1>10. Line(k2, Append(up, s), down, run) BY <1>5, <1>6, <1>7, <1>8, <1>9 DEF Line, Open
<1> QED BY <1>2, <1>4, <1>10 DEF Flow, s

(* A client that sends its FIN. *)
LEMMA FinFlow ==
  ASSUME NEW c \in Clients, NEW k \in Connection, NEW up, NEW down, NEW run,
         Flow(c, k, up, down, run), Open(k), None(up, Runnable),
         NEW k2 \in Connection, k2.state \in {"finwait", "lastack"}
  PROVE  Flow(c, k2, Append(up, Outstanding(c, k2)), down, run)
<1> DEFINE s == Outstanding(c, k2)
<1>1. FromClient(c, s) /\ s.flags = {"ack", "fin"} BY OutstandingFrom DEF Closing
<1> HIDE DEF s
<1>2. Queues(c, Append(up, s), down) BY <1>1, QueuesSend DEF Flow
<1>3. s \in Segment /\ up \in Seq(Segment) BY <1>1 DEF FromClient, Flow, Queues
<1>4. Attempt(k2, Append(up, s), down) BY <1>1, <1>3, NoAttempt DEF Open
<1>5. s \notin Runnable BY <1>1 DEF Runnable
<1>6. None(Append(up, s), Runnable) BY <1>3, <1>5, AppendNone
<1>7. Line(k2, Append(up, s), down, run) BY <1>6 DEF Line, Open, None, Few
<1> QED BY <1>2, <1>4, <1>7 DEF Flow, s

(* Segments that carry nothing to run, and do not ask for a connection. *)
Harmless(c, k, s) ==
  /\ FromClient(c, s) /\ s \notin Runnable /\ "syn" \notin s.flags
  /\ Open(k) => s.flags = {"ack"}

LEMMA HarmlessFlow ==
  ASSUME NEW c, NEW k, NEW up, NEW down, NEW run, Flow(c, k, up, down, run),
         NEW s, Harmless(c, k, s), k.state = "synsent" => Len(up) + Len(down) = 0
  PROVE  Flow(c, k, Append(up, s), down, run)
<1>1. s \in Segment /\ up \in Seq(Segment) /\ down \in Seq(Reply)
  BY DEF Harmless, FromClient, Flow, Queues
<1>2. Queues(c, Append(up, s), down) BY QueuesSend DEF Flow, Harmless
<1>3. Attempt(k, Append(up, s), down)
  <2>1. Attempt(k, up, down) BY DEF Flow
  <2>2. Len(Append(up, s)) = Len(up) + 1 /\ Len(up) \in Nat /\ Len(down) \in Nat
    BY <1>1, AppendPart, LenProperties
  <2>3. k.state = "synsent" => Len(Append(up, s)) + Len(down) <= 1 /\ k.nxt = Plus(k.una, 1)
    BY <2>1, <2>2 DEF Attempt
  <2>4. \A i \in DOMAIN Append(up, s) :
          "syn" \in Append(up, s)[i].flags => k.state = "synsent" /\ Append(up, s)[i].seq = k.una
    BY <1>1, <2>1, AppendPart DEF Attempt, Harmless
  <2> QED BY <2>3, <2>4 DEF Attempt
<1>4. Line(k, Append(up, s), down, run)
  <2>1. Line(k, up, down, run) /\ s \notin Runnable BY DEF Flow, Harmless
  <2>2. Few(Append(up, s), Runnable) BY <1>1, <2>1, AppendFew DEF Line
  <2>3. None(up, Runnable) => None(Append(up, s), Runnable) BY <1>1, <2>1, AppendNone
  <2>4. ASSUME Open(k) PROVE Asked(k, Append(up, s))
    <3>1. s.flags = {"ack"} /\ s.data = NoData
      BY <1>1, <2>1, <2>4 DEF Harmless, Runnable
    <3>2. Asked(k, up) BY <2>1, <2>4 DEF Line
    <3>3. ASSUME NEW i \in DOMAIN Append(up, s), NEW x, x = Append(up, s)[i]
          PROVE  x.flags = {"ack"} /\ (x.data # NoData => x.data = k.data /\ x.seq = k.una)
      BY <1>1, <3>1, <3>2, <3>3, AppendPart DEF Asked
    <3> QED BY <3>2, <3>3 DEF Asked
  <2> QED BY <2>1, <2>2, <2>3, <2>4 DEF Line
<1> QED BY <1>2, <1>3, <1>4 DEF Flow

(* A client that is done. *)
LEMMA DoneFlow ==
  ASSUME NEW c, NEW k, NEW up, NEW down, NEW run, Flow(c, k, up, down, run),
         k.state # "synsent" \/ up = <<>>
  PROVE  Flow(c, Closed, up, down, run)
<1>1. Queues(c, up, down) /\ Few(up, Runnable) BY DEF Flow, Line
<1>2. \A i \in DOMAIN up : "syn" \notin up[i].flags BY DEF Flow, Attempt
<1>3. Attempt(Closed, up, down) BY <1>2 DEF Attempt, Closed
<1>4. Line(Closed, up, down, run) BY <1>1 DEF Line, Closed, Open
<1> QED BY <1>1, <1>3, <1>4 DEF Flow

LEMMA AgainFlow ==
  ASSUME NEW c \in Clients, NEW k \in Connection, NEW run, Flow(c, k, <<>>, <<>>, run)
  PROVE  Flow(c, k, Append(<<>>, Outstanding(c, k)), <<>>, run)
<1> DEFINE s == Outstanding(c, k)
<1>1. Attempt(k, <<>>, <<>>) /\ Line(k, <<>>, <<>>, run) BY DEF Flow
<1>2. /\ FromClient(c, s) /\ s.seq = k.una /\ s.data = k.data
      /\ s.flags = IF k.state = "synsent" THEN {"syn"}
                   ELSE IF Closing(k) THEN {"ack", "fin"} ELSE {"ack"}
  BY <1>1, OutstandingFrom DEF Line
<1> HIDE DEF s
<1>3. Attempt(k, Append(<<>>, s), <<>>)
  <2>1. "syn" \in s.flags => k.state = "synsent" BY <1>2
  <2> QED BY <1>1, <1>2, <2>1, QueuesFirst DEF Attempt
<1>4. Line(k, Append(<<>>, s), <<>>, run)
  <2>1. Closing(k) => s \notin Runnable BY <1>2 DEF Runnable, Closing
  <2>2. k.state \in {"finwait", "lastack"} => None(Append(<<>>, s), Runnable)
    BY <1>2, <2>1, QueuesFirst DEF None, Closing
  <2>3. Open(k) => Asked(k, Append(<<>>, s))
    BY <1>1, <1>2, QueuesFirst DEF Line, Asked, Open, Closing
  <2> QED BY <1>1, <1>2, <2>2, <2>3, QueuesFirst DEF Line, Told
<1> QED BY <1>2, <1>3, <1>4, QueuesFirst DEF Flow, s

(* A client whose line has been told to be run. *)
LEMMA AckedFlow ==
  ASSUME NEW c, NEW k, NEW up, NEW down, NEW run, Flow(c, k, up, down, run), Open(k),
         None(up, Runnable), None(down, Telling),
         NEW k2, Open(k2), k2.nxt = k.nxt, k2.data = NoData \/ (k2.una = k.una /\ k2.data = k.data)
  PROVE  Flow(c, k2, up, down, run)
<1>1. /\ Queues(c, up, down) /\ Asked(k, up) /\ Few(up, Runnable) /\ Few(down, Telling)
      /\ up \in Seq(Segment)
  BY DEF Flow, Line, Queues
<1>2. Attempt(k2, up, down)
  <2>1. \A i \in DOMAIN up : "syn" \notin up[i].flags BY <1>1 DEF Asked
  <2> QED BY <2>1 DEF Attempt, Open
<1>3. Asked(k2, up)
  <2>1. ASSUME NEW i \in DOMAIN up PROVE up[i].flags = {"ack"} /\ up[i].data = NoData
    <3>1. up[i] \in Segment /\ up[i] \notin Runnable BY <1>1 DEF None
    <3>2. up[i].flags = {"ack"} BY <1>1 DEF Asked
    <3> QED BY <3>1, <3>2 DEF Runnable
  <2>2. k2.data # NoData => k2.nxt = Plus(k2.una, Size[k2.data]) BY <1>1 DEF Asked
  <2> QED BY <2>1, <2>2 DEF Asked
<1>4. Told(k2, down, run) BY DEF Told, None
<1>5. Line(k2, up, down, run) BY <1>1, <1>3, <1>4 DEF Line, Open
<1> QED BY <1>1, <1>2, <1>5 DEF Flow

(* A client that has closed. *)
LEMMA ClosingFlow ==
  ASSUME NEW c, NEW k, NEW up, NEW down, NEW run, Flow(c, k, up, down, run), Closing(k),
         NEW k2, Closing(k2)
  PROVE  Flow(c, k2, up, down, run)
<1>1. Queues(c, up, down) /\ None(up, Runnable) /\ Few(up, Runnable)
  BY DEF Flow, Line, Closing
<1>2. \A i \in DOMAIN up : "syn" \notin up[i].flags BY DEF Flow, Attempt, Closing
<1>3. Attempt(k2, up, down) BY <1>2 DEF Attempt, Closing
<1>4. Line(k2, up, down, run) BY <1>1 DEF Line, Closing, Open
<1> QED BY <1>1, <1>3, <1>4 DEF Flow

(* A client that has connected. *)
LEMMA ConnectedFlow ==
  ASSUME NEW c, NEW run, NEW k, Open(k), k.data = NoData
  PROVE  Flow(c, k, <<>>, <<>>, run)
<1>1. <<>> \in Seq(Segment) /\ <<>> \in Seq(Reply) BY EmptySeq
<1>2. Queues(c, <<>>, <<>>) BY <1>1 DEF Queues
<1>3. Attempt(k, <<>>, <<>>) BY DEF Attempt, Open
<1>4. Line(k, <<>>, <<>>, run) BY DEF Line, Open, Asked, Told, None, Few
<1> QED BY <1>2, <1>3, <1>4 DEF Flow

-------------------------------------------------------------------------------
(* What a client does with a reply. *)

LEMMA ReplyFields ==
  ASSUME NEW r \in Reply
  PROVE  r.seq \in SeqNo /\ r.ack \in SeqNo /\ r.len \in Nat /\ r.flags \in SUBSET Flag
BY DEF Reply

LEMMA ConnectionFields ==
  ASSUME NEW k \in Connection
  PROVE  /\ k.una \in SeqNo /\ k.nxt \in SeqNo /\ k.rcv \in SeqNo
         /\ k.data \in Payloads \cup {NoData}
         /\ k.state \in {"absent", "closed", "synsent", "estab", "finwait", "closewait", "lastack"}
BY DEF Connection

LEMMA ClosedConnection == Closed \in Connection /\ Closed.data = NoData /\ Closed.state = "closed"
BY SeqNoFacts DEF Closed, Connection

(* An acknowledgement is taken in. *)
LEMMA AckedFacts ==
  ASSUME NEW k \in Connection, NEW r \in Reply
  PROVE  LET a == Acked(k, r)
         IN /\ a \in Connection /\ a.state = k.state /\ a.nxt = k.nxt /\ a.rcv = k.rcv
            /\ a.data \in {k.data, NoData}
            /\ r.ack = k.nxt => a = k \/ (a.data = NoData /\ a.una = k.nxt)
<1> DEFINE a == Acked(k, r)
<1> SUFFICES /\ a \in Connection /\ a.state = k.state /\ a.nxt = k.nxt /\ a.rcv = k.rcv
             /\ a.data \in {k.data, NoData}
             /\ r.ack = k.nxt => a = k \/ (a.data = NoData /\ a.una = k.nxt)
  OBVIOUS
<1>1. k.nxt \in SeqNo /\ r.ack \in SeqNo /\ k.data \in Payloads \cup {NoData}
  BY ReplyFields, ConnectionFields
<1>2. SeqMod \in Nat \ {0} /\ k.nxt \in Nat BY <1>1, Tcp4Assumption, SeqNoFacts
<1>3. (k.nxt - k.nxt) % SeqMod = 0 BY <1>2
<1> DEFINE left == (k.nxt - r.ack) % SeqMod
           fin == IF Closing(k) THEN 1 ELSE 0
<1>4. a = IF Behind(r.ack, k.una) THEN k
          ELSE [k EXCEPT !.una = r.ack, !.data = IF left <= fin THEN NoData ELSE k.data]
  BY DEF Acked
<1>5. r.ack = k.nxt => left <= fin BY <1>3
<1> HIDE DEF left, fin, a
<1>6. CASE Behind(r.ack, k.una) BY <1>4, <1>6
<1>7. CASE ~Behind(r.ack, k.una)
  <2>1. a = [k EXCEPT !.una = r.ack, !.data = IF left <= fin THEN NoData ELSE k.data]
    BY <1>4, <1>7
  <2>2. a \in Connection BY <1>1, <2>1 DEF Connection
  <2> QED BY <1>5, <2>1, <2>2 DEF Connection
<1> QED BY <1>6, <1>7

(* A client sends nothing, or a harmless answer. *)
Replied(c, k, up, up2) == up2 = up \/ \E s : Harmless(c, k, s) /\ s.data = NoData /\ up2 = Append(up, s)

(* What becomes of a client that knows k when it hears r. *)
Heard(c, k, r, k2, up, up2) ==
  /\ k2 \in Connection /\ k2.data \in {k.data, NoData}
  /\ \/ k2 \in {k, Closed} /\ Replied(c, k2, up, up2)
     \/ k.state = "synsent" /\ k2.state = "estab" /\ k2.data = k.data /\ Replied(c, k2, up, up2)
     \/ /\ Open(k) /\ Open(k2) /\ r \in Telling /\ k2.nxt = k.nxt
        /\ r.ack = k.nxt => k2.data = NoData \/ (k2.una = k.una /\ k2.data = k.data)
        /\ Replied(c, k2, up, up2)
     \/ /\ Closing(k) /\ Closing(k2) /\ ("fin" \notin r.flags => k2.state = k.state)
        /\ Replied(c, k2, up, up2)
     \/ /\ Open(k) /\ r \in Telling /\ k2.state = "lastack"
        /\ up2 = Append(up, Outstanding(c, k2))

LEMMA AckReply ==
  ASSUME NEW c \in Clients, NEW k \in Connection, NEW k2, NEW up, NEW up2, up2 = Append(up, Ack(c, k))
  PROVE  Replied(c, k2, up, up2)
<1>1. "syn" \notin Ack(c, k).flags BY AckFrom
<1> QED BY <1>1, AckFrom DEF Replied, Harmless

LEMMA ResetReply ==
  ASSUME NEW c \in Clients, NEW seq \in SeqNo, NEW k, ~Open(k), NEW up, NEW up2,
         up2 = Append(up, Reset(c, seq))
  PROVE  Replied(c, k, up, up2)
<1>1. "syn" \notin Reset(c, seq).flags BY ResetFrom
<1> QED BY <1>1, ResetFrom DEF Replied, Harmless

(* What Become and Send do to the client that calls them. *)
LEMMA Changed ==
  ASSUME NEW c \in Clients, Kept, NEW k
  PROVE  /\ Quietly(c, k) => client'[c] = k /\ toServer'[c] = toServer[c]
         /\ \A s : Answering(c, k, s) => client'[c] = k /\ toServer'[c] = Append(toServer[c], s)
BY DEF Kept, Quietly, Answering, Become, Send

LEMMA HearClosedWays ==
  ASSUME Kept, NEW c \in Clients, NEW k, k = client[c], NEW r \in Reply, HearClosed(c, k, r)
  PROVE  Heard(c, k, r, client'[c], toServer[c], toServer'[c])
<1>1. k \in Connection BY DEF Kept
<1>2. k.state = "closed" /\ r.ack \in SeqNo /\ ~Open(k) BY ReplyFields DEF HearClosed, Open
<1>3. CASE "rst" \in r.flags
  <2>1. client'[c] = k /\ toServer'[c] = toServer[c] BY <1>3, Changed DEF HearClosed
  <2> QED BY <1>1, <2>1 DEF Heard, Replied
<1>4. CASE "rst" \notin r.flags
  <2>1. client'[c] = k /\ toServer'[c] = Append(toServer[c], Reset(c, r.ack))
    BY <1>4, Changed DEF HearClosed
  <2>2. Replied(c, client'[c], toServer[c], toServer'[c]) BY <1>2, <2>1, ResetReply
  <2> QED BY <1>1, <2>1, <2>2 DEF Heard
<1> QED BY <1>3, <1>4

(* The connection that r establishes, and a segment that does not disturb it. *)
Established(k, r) == [k EXCEPT !.state = "estab", !.una = k.nxt, !.rcv = Plus(r.seq, 1)]

AnswersQuietly(c, up, up2) == \E s : FromClient(c, s) /\ s \notin Runnable /\ up2 = Append(up, s)

LEMMA HearSynSentWays ==
  ASSUME Kept, NEW c \in Clients, NEW k, k = client[c], NEW r \in Reply, HearSynSent(c, k, r)
  PROVE  /\ Heard(c, k, r, client'[c], toServer[c], toServer'[c])
         /\ r.ack = k.nxt /\ r.flags = {"syn", "ack"}
              => /\ client'[c] = Established(k, r)
                 /\ AnswersQuietly(c, toServer[c], toServer'[c])
<1>1. k \in Connection /\ k.nxt \in SeqNo BY ConnectionFields DEF Kept
<1>2. k.state = "synsent" /\ r.ack \in SeqNo /\ ~Open(k) BY ReplyFields DEF HearSynSent, Open
<1>3. CASE r.ack # k.nxt /\ "rst" \in r.flags
  <2>1. client'[c] = k /\ toServer'[c] = toServer[c] BY <1>3, Changed DEF HearSynSent
  <2> QED BY <1>1, <1>3, <2>1 DEF Heard, Replied
<1>4. CASE r.ack # k.nxt /\ "rst" \notin r.flags
  <2>1. client'[c] = k /\ toServer'[c] = Append(toServer[c], Reset(c, r.ack))
    BY <1>4, Changed DEF HearSynSent
  <2>2. Replied(c, client'[c], toServer[c], toServer'[c]) BY <1>2, <2>1, ResetReply
  <2> QED BY <1>1, <1>4, <2>1, <2>2 DEF Heard
<1>5. CASE r.ack = k.nxt /\ "rst" \in r.flags
  <2>0. HearSynSent(c, k, r) => Quietly(c, Closed) BY <1>5 DEF HearSynSent
  <2>1. client'[c] = Closed /\ toServer'[c] = toServer[c] BY <2>0, Changed
  <2>2. r.flags # {"syn", "ack"} BY <1>5
  <2> QED BY <2>1, <2>2, ClosedConnection DEF Heard, Replied
<1>6. CASE r.ack = k.nxt /\ "rst" \notin r.flags /\ "syn" \in r.flags
  <2> DEFINE e == [k EXCEPT !.state = "estab", !.una = k.nxt, !.rcv = Plus(r.seq, 1)]
  <2>1. HearSynSent(c, k, r) <=> k.state = "synsent" /\ Answering(c, e, Ack(c, e))
    BY <1>6 DEF HearSynSent
  <2>2. Plus(r.seq, 1) \in SeqNo BY ReplyFields, PlusIsSeqNo
  <2>3. e \in Connection /\ e.state = "estab" /\ e.data = k.data BY <1>1, <2>2 DEF Connection
  <2> HIDE DEF e
  <2>4. client'[c] = e /\ toServer'[c] = Append(toServer[c], Ack(c, e)) BY <2>1, Changed
  <2>5. Replied(c, e, toServer[c], toServer'[c]) BY <2>3, <2>4, AckReply
  <2>6. Heard(c, k, r, client'[c], toServer[c], toServer'[c])
    BY <1>2, <2>3, <2>4, <2>5 DEF Heard
  <2>7. FromClient(c, Ack(c, e)) /\ Ack(c, e) \notin Runnable BY <2>3, AckFrom
  <2> QED BY <2>4, <2>6, <2>7 DEF e, Established, AnswersQuietly
<1>7. CASE r.ack = k.nxt /\ "rst" \notin r.flags /\ "syn" \notin r.flags
  <2>1. client'[c] = k /\ toServer'[c] = toServer[c] BY <1>7, Changed DEF HearSynSent
  <2>2. r.flags # {"syn", "ack"} BY <1>7
  <2> QED BY <1>1, <2>1, <2>2 DEF Heard, Replied
<1> QED BY <1>3, <1>4, <1>5, <1>6, <1>7

LEMMA HearResetWays ==
  ASSUME Kept, NEW c \in Clients, NEW k, k = client[c], NEW r \in Reply,
         HearReset(c, k, r) \/ HearUnacceptable(c, k, r)
  PROVE  Heard(c, k, r, client'[c], toServer[c], toServer'[c])
<1>1. k \in Connection BY DEF Kept
<1>2. CASE HearReset(c, k, r)
  <2>1. client'[c] \in {k, Closed} /\ toServer'[c] = toServer[c] BY <1>2, Changed DEF HearReset
  <2> QED BY <1>1, <2>1, ClosedConnection DEF Heard, Replied
<1>3. CASE HearUnacceptable(c, k, r)
  <2>1. client'[c] = k /\ toServer'[c] = Append(toServer[c], Ack(c, k))
    BY <1>3, Changed DEF HearUnacceptable
  <2>2. Replied(c, client'[c], toServer[c], toServer'[c]) BY <1>1, <2>1, AckReply
  <2> QED BY <1>1, <2>1, <2>2 DEF Heard
<1> QED BY <1>2, <1>3

(* The connection with r taken in, and n more numbers received. *)
Counting(k, r, n) == [Acked(k, r) EXCEPT !.rcv = Plus(k.rcv, n)]

LEMMA CountingFacts ==
  ASSUME NEW k \in Connection, NEW r \in Reply, NEW n \in Nat
  PROVE  LET a == Counting(k, r, n)
         IN /\ a \in Connection /\ a.state = k.state /\ a.nxt = k.nxt /\ a.rcv = Plus(k.rcv, n)
            /\ a.data \in {k.data, NoData}
            /\ r.ack = k.nxt => a.data = NoData \/ (a.una = k.una /\ a.data = k.data)
<1> DEFINE b == Acked(k, r)
           a == Counting(k, r, n)
<1>1. /\ b \in Connection /\ b.state = k.state /\ b.nxt = k.nxt /\ b.data \in {k.data, NoData}
      /\ r.ack = k.nxt => b = k \/ b.data = NoData
  BY AckedFacts
<1>2. Plus(k.rcv, n) \in SeqNo BY ConnectionFields, PlusIsSeqNo
<1>3. a = [b EXCEPT !.rcv = Plus(k.rcv, n)] BY DEF Counting
<1> HIDE DEF b, a
<1>4. a \in Connection /\ a.state = k.state /\ a.nxt = k.nxt /\ a.rcv = Plus(k.rcv, n)
      /\ a.una = b.una /\ a.data = b.data
  BY <1>1, <1>2, <1>3 DEF Connection
<1> QED BY <1>1, <1>4 DEF a

(* The parts of Heard that an open or a closing client may come to. *)
LEMMA StaysHeard ==
  ASSUME NEW c, NEW k \in Connection, NEW r \in Reply, Synchronised(k), "rst" \notin r.flags,
         NEW k2 \in Connection, k2.state = k.state, k2.nxt = k.nxt, k2.data \in {k.data, NoData},
         r.ack = k.nxt => k2.data = NoData \/ (k2.una = k.una /\ k2.data = k.data),
         NEW up, NEW up2, Replied(c, k2, up, up2)
  PROVE  Heard(c, k, r, k2, up, up2)
<1>1. r \in Telling BY DEF Telling
<1>2. (Open(k) /\ Open(k2)) \/ (Closing(k) /\ Closing(k2))
  BY ConnectionFields DEF Synchronised, Open, Closing
<1> QED BY <1>1, <1>2 DEF Heard

LEMMA HearAheadWays ==
  ASSUME Kept, NEW c \in Clients, NEW k, k = client[c], NEW r \in Reply, HearAhead(c, k, r)
  PROVE  Heard(c, k, r, client'[c], toServer[c], toServer'[c])
<1>1. k \in Connection BY DEF Kept
<1>2. Synchronised(k) /\ "rst" \notin r.flags BY DEF HearAhead, Acceptable
<1>a. PICK a : a = Acked(k, r) OBVIOUS
<1>3. client'[c] = a /\ toServer'[c] = Append(toServer[c], Ack(c, k))
  BY <1>a, Changed DEF HearAhead
<1>4. /\ a \in Connection /\ a.state = k.state /\ a.nxt = k.nxt /\ a.data \in {k.data, NoData}
      /\ r.ack = k.nxt => a.data = NoData \/ (a.una = k.una /\ a.data = k.data)
  BY <1>1, <1>a, AckedFacts
<1>5. Replied(c, a, toServer[c], toServer'[c]) BY <1>1, <1>3, AckReply
<1>6. Heard(c, k, r, a, toServer[c], toServer'[c]) BY <1>1, <1>2, <1>4, <1>5, StaysHeard
<1> QED BY <1>3, <1>6

LEMMA HearInOrderWays ==
  ASSUME Kept, NEW c \in Clients, NEW k, k = client[c], NEW r \in Reply, HearInOrder(c, k, r)
  PROVE  /\ Heard(c, k, r, client'[c], toServer[c], toServer'[c])
         /\ k.state = "estab" => client'[c] = Counting(k, r, r.len)
         /\ k.state = "finwait" => client'[c].state = "finwait"
<1>1. k \in Connection BY DEF Kept
<1>2. Synchronised(k) /\ "rst" \notin r.flags /\ r.len \in Nat
  BY ReplyFields DEF HearInOrder, Acceptable
<1>3. Acked(k, r).rcv = k.rcv BY <1>1, AckedFacts
<1>a. PICK a : a = Counting(k, r, r.len) OBVIOUS
<1>4. IF a.state = "lastack" /\ Acknowledged(a) THEN Quietly(c, Closed)
      ELSE IF r.len > 0 THEN Answering(c, a, Ack(c, a)) ELSE Quietly(c, a)
  BY <1>3, <1>a DEF HearInOrder, Counting
<1>5. /\ a \in Connection /\ a.state = k.state /\ a.nxt = k.nxt /\ a.data \in {k.data, NoData}
      /\ r.ack = k.nxt => a.data = NoData \/ (a.una = k.una /\ a.data = k.data)
  BY <1>1, <1>2, <1>a, CountingFacts
<1>6. CASE Quietly(c, Closed) /\ a.state = "lastack"
  <2>1. client'[c] = Closed /\ toServer'[c] = toServer[c] BY <1>6, Changed
  <2> QED BY <1>5, <1>6, <2>1, ClosedConnection DEF Heard, Replied
<1>7. CASE Quietly(c, a)
  <2>1. client'[c] = a /\ toServer'[c] = toServer[c] BY <1>7, Changed
  <2>2. Replied(c, a, toServer[c], toServer'[c]) BY <2>1 DEF Replied
  <2>3. Heard(c, k, r, a, toServer[c], toServer'[c]) BY <1>1, <1>2, <1>5, <2>2, StaysHeard
  <2> QED BY <1>5, <1>a, <2>1, <2>3
<1>8. CASE Answering(c, a, Ack(c, a))
  <2>1. client'[c] = a /\ toServer'[c] = Append(toServer[c], Ack(c, a)) BY <1>8, Changed
  <2>2. Replied(c, a, toServer[c], toServer'[c]) BY <1>5, <2>1, AckReply
  <2>3. Heard(c, k, r, a, toServer[c], toServer'[c]) BY <1>1, <1>2, <1>5, <2>2, StaysHeard
  <2> QED BY <1>5, <1>a, <2>1, <2>3
<1> QED BY <1>4, <1>6, <1>7, <1>8

LEMMA HearFinWays ==
  ASSUME Kept, NEW c \in Clients, NEW k, k = client[c], NEW r \in Reply, HearFin(c, k, r)
  PROVE  Heard(c, k, r, client'[c], toServer[c], toServer'[c])
<1>1. k \in Connection BY DEF Kept
<1>2. /\ Synchronised(k) /\ "rst" \notin r.flags /\ r.len \in Nat /\ r.len + 1 \in Nat
      /\ r \in Telling /\ "fin" \in r.flags
  BY ReplyFields DEF HearFin, Acceptable, Telling
<1>a. PICK a : a = Counting(k, r, r.len + 1) OBVIOUS
<1> DEFINE l == [a EXCEPT !.state = "lastack", !.nxt = Plus(a.nxt, 1)]
           w == [a EXCEPT !.state = IF Closing(k) THEN "lastack" ELSE "closewait"]
<1>3. Acked(k, r).rcv = k.rcv BY <1>1, AckedFacts
<1>4. \/ k.state = "finwait" /\ Acknowledged(a) /\ Answering(c, Closed, Ack(c, a))
      \/ k.state = "estab" /\ Acknowledged(a) /\ Answering(c, l, Outstanding(c, l))
      \/ ~(k.state = "finwait" /\ Acknowledged(a)) /\ Answering(c, w, Ack(c, w))
  BY <1>3, <1>a DEF HearFin, Counting
<1>5. /\ a \in Connection /\ a.state = k.state /\ a.nxt = k.nxt /\ a.data \in {k.data, NoData}
      /\ r.ack = k.nxt => a.data = NoData \/ (a.una = k.una /\ a.data = k.data)
  BY <1>1, <1>2, <1>a, CountingFacts
<1>6. /\ l \in Connection /\ l.state = "lastack" /\ l.data = a.data
      /\ w \in Connection /\ w.nxt = k.nxt /\ w.data = a.data /\ w.una = a.una
      /\ w.state = IF Closing(k) THEN "lastack" ELSE "closewait"
  <2>1. Plus(a.nxt, 1) \in SeqNo BY <1>5, ConnectionFields, PlusIsSeqNo
  <2> QED BY <1>5, <2>1 DEF Connection
<1> HIDE DEF l, w
<1>7. CASE Answering(c, Closed, Ack(c, a))
  <2>1. client'[c] = Closed /\ toServer'[c] = Append(toServer[c], Ack(c, a)) BY <1>7, Changed
  <2>2. Replied(c, Closed, toServer[c], toServer'[c]) BY <1>5, <2>1, AckReply
  <2> QED BY <2>1, <2>2, ClosedConnection DEF Heard
<1>8. CASE k.state = "estab" /\ Answering(c, l, Outstanding(c, l))
  <2>1. client'[c] = l /\ toServer'[c] = Append(toServer[c], Outstanding(c, l)) BY <1>8, Changed
  <2> QED BY <1>2, <1>5, <1>6, <1>8, <2>1 DEF Heard, Open
<1>9. CASE Answering(c, w, Ack(c, w))
  <2>1. client'[c] = w /\ toServer'[c] = Append(toServer[c], Ack(c, w)) BY <1>9, Changed
  <2>2. Replied(c, w, toServer[c], toServer'[c]) BY <1>6, <2>1, AckReply
  <2>3. CASE Open(k)
    <3>1. ~Closing(k) /\ Open(w) BY <1>6, <2>3 DEF Open, Closing
    <3> QED BY <1>2, <1>5, <1>6, <2>1, <2>2, <2>3, <3>1 DEF Heard
  <2>4. CASE Closing(k)
    <3>1. Closing(w) BY <1>6, <2>4 DEF Closing
    <3> QED BY <1>2, <1>5, <1>6, <2>1, <2>2, <2>4, <3>1 DEF Heard
  <2> QED BY <1>1, <1>2, <2>3, <2>4, ConnectionFields DEF Synchronised, Open, Closing
<1> QED BY <1>4, <1>7, <1>8, <1>9

LEMMA HearWays ==
  ASSUME Kept, NEW c \in Clients, Hear(c)
  PROVE  /\ toClient[c] # <<>> /\ Head(toClient[c]) \in Reply
         /\ Heard(c, client[c], Head(toClient[c]), client'[c], toServer[c], toServer'[c])
<1>1. PICK k, r : k = client[c] /\ r = Head(toClient[c]) OBVIOUS
<1>2. toClient[c] # <<>> BY DEF Hear
<1>3. toClient[c] \in Seq(Reply) BY DEF Kept
<1>4. r \in Reply BY <1>1, <1>2, <1>3, TailPart
<1>5. \/ HearClosed(c, k, r) \/ HearSynSent(c, k, r) \/ HearReset(c, k, r)
      \/ HearUnacceptable(c, k, r) \/ HearAhead(c, k, r) \/ HearInOrder(c, k, r)
      \/ HearFin(c, k, r)
  BY <1>1 DEF Hear
<1>6. Heard(c, k, r, client'[c], toServer[c], toServer'[c])
  BY <1>1, <1>4, <1>5, HearClosedWays, HearSynSentWays, HearResetWays, HearAheadWays,
     HearInOrderWays, HearFinWays
<1> QED BY <1>1, <1>2, <1>4, <1>6

(* A reply that tells that a line has been run is the only one under way. *)
LEMMA ToldOnce ==
  ASSUME NEW c, NEW k, NEW up, NEW down, NEW run, Flow(c, k, up, down, run), Open(k),
         down # <<>>, Head(down) \in Telling
  PROVE  /\ k.data # NoData /\ k.data \in run /\ Head(down).ack = k.nxt
         /\ None(up, Runnable) /\ None(Tail(down), Telling)
<1>1. /\ Told(k, down, run) /\ Few(down, Telling) /\ down \in Seq(Reply)
      /\ None(up, Runnable) \/ None(down, Telling)
  BY DEF Flow, Line, Queues
<1>2. 1 \in DOMAIN down /\ Head(down) = down[1] BY <1>1, TailPart
<1>3. ~None(down, Telling) BY <1>2 DEF None
<1>4. None(Tail(down), Telling) BY <1>1, TailNone
<1> QED BY <1>1, <1>2, <1>3, <1>4 DEF Told

LEMMA HeardFlow ==
  ASSUME NEW c \in Clients, NEW k \in Connection, NEW up, NEW down, NEW run,
         Flow(c, k, up, down, run), down # <<>>, NEW k2, NEW up2,
         Heard(c, k, Head(down), k2, up, up2)
  PROVE  Flow(c, k2, up2, Tail(down), run)
<1> DEFINE r == Head(down)
           rest == Tail(down)
<1>1. up \in Seq(Segment) /\ down \in Seq(Reply) BY DEF Flow, Queues
<1>2. rest \in Seq(Reply) /\ Part(rest, down) /\ Len(rest) = Len(down) - 1 /\ Len(down) \in Nat
  BY <1>1, TailPart
<1>3. Flow(c, k, up, rest, run) BY <1>1, <1>2, FlowLess, WholePart
<1>4. k2 \in Connection /\ k2.data \in {k.data, NoData} BY DEF Heard
<1>5. ASSUME k.state = "synsent" PROVE Len(up) + Len(rest) = 0 /\ up = <<>> /\ rest = <<>>
  <2>1. Len(up) + Len(down) <= 1 BY <1>5 DEF Flow, Attempt
  <2>2. Len(up) \in Nat /\ Len(rest) \in Nat BY <1>1, <1>2, LenProperties
  <2>3. Len(up) = 0 /\ Len(rest) = 0 BY <1>2, <2>1, <2>2
  <2> HIDE DEF rest
  <2> QED BY <1>1, <1>2, <2>3, NoLength
<1> SUFFICES Flow(c, k2, up2, rest, run) OBVIOUS
<1> HIDE DEF r, rest
<1>6. ASSUME Flow(c, k2, up, rest, run), Replied(c, k2, up, up2), k2.state = "synsent" => k2 = k
      PROVE  Flow(c, k2, up2, rest, run)
  <2>1. CASE up2 = up BY <1>6, <2>1
  <2>2. CASE up2 # up
    <3>1. PICK s : Harmless(c, k2, s) /\ up2 = Append(up, s) BY <1>6, <2>2 DEF Replied
    <3>2. k2.state = "synsent" => Len(up) + Len(rest) = 0 BY <1>5, <1>6
    <3> QED BY <1>6, <3>1, <3>2, HarmlessFlow
  <2> QED BY <2>1, <2>2
<1>7. CASE k2 = k /\ Replied(c, k2, up, up2) BY <1>3, <1>6, <1>7
<1>8. CASE k2 = Closed /\ Replied(c, k2, up, up2)
  <2>1. Flow(c, Closed, up, rest, run) BY <1>3, <1>5, DoneFlow
  <2> QED BY <1>6, <1>8, <2>1, ClosedConnection
<1>9. CASE k.state = "synsent" /\ k2.state = "estab" /\ k2.data = k.data /\ Replied(c, k2, up, up2)
  <2>1. k.data = NoData BY <1>9 DEF Flow, Line
  <2>2. Flow(c, k2, <<>>, <<>>, run) BY <1>9, <2>1, ConnectedFlow DEF Open
  <2> QED BY <1>5, <1>6, <1>9, <2>2
<1>10. CASE /\ Open(k) /\ Open(k2) /\ r \in Telling /\ k2.nxt = k.nxt
            /\ r.ack = k.nxt => k2.data = NoData \/ (k2.una = k.una /\ k2.data = k.data)
            /\ Replied(c, k2, up, up2)
  <2>1. r.ack = k.nxt /\ None(up, Runnable) /\ None(rest, Telling)
    BY <1>10, ToldOnce DEF r, rest
  <2>2. Flow(c, k2, up, rest, run) BY <1>3, <1>10, <2>1, AckedFlow
  <2> QED BY <1>6, <1>10, <2>2 DEF Open
<1>11. CASE Closing(k) /\ Closing(k2) /\ Replied(c, k2, up, up2)
  <2>1. Flow(c, k2, up, rest, run) BY <1>3, <1>11, ClosingFlow
  <2> QED BY <1>6, <1>11, <2>1 DEF Closing
<1>12. CASE /\ Open(k) /\ r \in Telling /\ k2.state = "lastack"
            /\ up2 = Append(up, Outstanding(c, k2))
  <2>1. None(up, Runnable) BY <1>12, ToldOnce DEF r
  <2> QED BY <1>3, <1>4, <1>12, <2>1, FinFlow
<1> QED BY <1>7, <1>8, <1>9, <1>10, <1>11, <1>12 DEF Heard, r, rest

LEMMA HeardExact ==
  ASSUME NEW c \in Clients, NEW k \in Connection, NEW up, NEW down, NEW run,
         Flow(c, k, up, down, run), down # <<>>, NEW k2, NEW up2,
         Heard(c, k, Head(down), k2, up, up2), Exact(k, down)
  PROVE  Exact(k2, Tail(down))
<1>1. up \in Seq(Segment) /\ down \in Seq(Reply) BY DEF Flow, Queues
<1>2. Tail(down) \in Seq(Reply) /\ Part(Tail(down), down) /\ Len(Tail(down)) = Len(down) - 1
  BY <1>1, TailPart
<1>3. CASE k2 = k BY <1>2, <1>3, ExactLess
<1>4. CASE ~Open(k2) BY <1>4 DEF Exact
<1>5. CASE k.state = "synsent"
  <2>1. Len(up) + Len(down) <= 1 BY <1>5 DEF Flow, Attempt
  <2>2. Len(up) \in Nat /\ Len(Tail(down)) \in Nat /\ Len(down) \in Nat
    BY <1>1, <1>2, LenProperties
  <2>3. Len(Tail(down)) = 0 BY <1>2, <2>1, <2>2
  <2>4. Tail(down) = <<>> BY <1>2, <2>3, NoLength
  <2> QED BY <2>4 DEF Exact
<1>6. CASE Open(k) /\ Head(down) \in Telling
  <2>1. None(Tail(down), Telling) BY <1>6, ToldOnce
  <2> QED BY <2>1 DEF None, Exact
<1> QED BY <1>3, <1>4, <1>5, <1>6, ClosedConnection DEF Heard, Closing, Open

(* A line is forgotten, by a client that has not closed, when it has been    *)
(* run.                                                                      *)
LEMMA HeardRun ==
  ASSUME NEW c, NEW k \in Connection, NEW up, NEW down, NEW run,
         Flow(c, k, up, down, run), down # <<>>, NEW k2, NEW up2,
         Heard(c, k, Head(down), k2, up, up2),
         ~Closing(k), k.data # NoData, k2.data = NoData, k2.state # "closed"
  PROVE  k.data \in run
<1>1. Open(k) BY ConnectionFields DEF Flow, Line, Open, Closing
<1>2. k2 # k /\ k2 # Closed BY ClosedConnection
<1>3. Head(down) \in Telling BY <1>1, <1>2 DEF Heard, Open
<1> QED BY <1>1, <1>3, ToldOnce

-------------------------------------------------------------------------------
(* What the board does with a segment of a client. *)

LEMMA FromFields ==
  ASSUME NEW c \in Clients, NEW x, FromClient(c, x)
  PROVE  /\ x \in Segment /\ x.sum /\ x.local = ServedPort /\ c = <<x.host, x.port>>
         /\ FromOwner(x) <=> <<entry.src, entry.sport>> = c
BY ClientFields DEF FromClient, FromOwner

(* The reply, if there is one, is to the client. *)
LEMMA TakeReply ==
  ASSUME IInv, NEW c \in Clients, NEW x, FromClient(c, x), process_tcp4(x)
  PROVE  /\ tx = NoReply /\ IInv'
         /\ tx' = NoReply \/ (tx' \in Reply /\ <<tx'.host, tx'.port>> = c)
<1>1. tx = NoReply /\ x \in Segment /\ x.sum /\ x.local = ServedPort /\ c = <<x.host, x.port>>
  BY FromFields DEF process_tcp4
<1>2. IInv' BY <1>1, HandlerInv
<1>3. tx' \in Reply \cup {NoReply} BY <1>2 DEF IInv, TypeOK
<1>4. \/ tx' = NoReply \/ tx' = Rst(x)
      \/ \E e, flags, n : tx' = Numbered(e, x, flags, n)
  <2>1. CASE BadChecksum(x) \/ NotServed(x) \/ ResetReceived(x) \/ ConnectedPureAck(x) \/ CloseAck(x)
    BY <1>1, <2>1 DEF BadChecksum, NotServed, ResetReceived, ConnectedPureAck, CloseAck
  <2>2. CASE ListenOther(x) \/ ConnectedStranger(x) \/ ConnectedNonsense(x) \/ CloseOther(x)
    BY <2>2 DEF ListenOther, ConnectedStranger, ConnectedNonsense, CloseOther, Refused
  <2>3. CASE ListenSyn(x) BY <2>3 DEF ListenSyn, SynAck
  <2>4. CASE ConnectedSyn(x) BY <2>4 DEF ConnectedSyn, SynAck
  <2>5. CASE ConnectedFin(x) BY <2>5 DEF ConnectedFin, FinAck
  <2>6. CASE ConnectedData(x) BY <2>6 DEF ConnectedData
  <2>7. CASE ConnectedQuit(x) BY <2>7 DEF ConnectedQuit, FinAck
  <2>8. CASE CloseFin(x) BY <2>8 DEF CloseFin
  <2> QED BY <2>1, <2>2, <2>3, <2>4, <2>5, <2>6, <2>7, <2>8 DEF process_tcp4
<1>5. Rst(x).host = x.host /\ Rst(x).port = x.port BY DEF Rst
<1>6. \A e, flags, n : Numbered(e, x, flags, n).host = x.host /\ Numbered(e, x, flags, n).port = x.port
  BY DEF Numbered
<1>7. tx' # NoReply => tx'.host = x.host /\ tx'.port = x.port BY <1>4, <1>5, <1>6
<1> QED BY <1>1, <1>2, <1>3, <1>7

(* An ACK of the client that is served is taken, with the line it carries;   *)
(* that of another one is refused, or ends a goodbye.                        *)
LEMMA TakeAck ==
  ASSUME IInv, NEW c \in Clients, NEW x, FromClient(c, x), x.flags = {"ack"}, process_tcp4(x)
  PROVE  \/ /\ ~Serves(c) /\ ~Serves(c)' /\ ~ConnectedAck(x)
            /\ tx' \in {NoReply, Rst(x)}
         \/ /\ Serves(c) /\ x.data = NoData
            /\ entry' = entry /\ tx' = NoReply
         \/ /\ Serves(c) /\ x.data # NoData /\ ConnectedAck(x)
            /\ \E n \in Nat : /\ tx' = Numbered(Received(x), x, {"ack"}, n)
                              /\ entry' = [Received(x) EXCEPT !.lseq = Plus(Received(x).lseq, n)]
         \/ /\ Serves(c) /\ x.data # NoData /\ ConnectedAck(x)
            /\ tx' = FinAck([Received(x) EXCEPT !.state = "close"], x) /\ entry'.state = "close"
<1>1. /\ tx = NoReply /\ x \in Segment /\ x.sum /\ x.local = ServedPort
      /\ FromOwner(x) <=> <<entry.src, entry.sport>> = c
  BY FromFields DEF process_tcp4
<1>2. "ack" \in x.flags /\ "syn" \notin x.flags /\ "fin" \notin x.flags /\ "rst" \notin x.flags
  OBVIOUS
<1>3. entry \in Entry BY DEF IInv, TypeOK
<1>4. ConnectedAck(x) => Serves(c)
  BY <1>1 DEF ConnectedAck, FromOwnerWhile, InState, Serves
<1>5. \/ ListenOther(x) \/ ConnectedStranger(x) \/ ConnectedPureAck(x) \/ ConnectedData(x)
      \/ ConnectedQuit(x) \/ CloseAck(x)
  BY <1>1, <1>2 DEF process_tcp4, BadChecksum, NotServed, ResetReceived, ListenSyn,
     ConnectedNonsense, ConnectedSyn, ConnectedFin, CloseFin, CloseOther
<1>6. CASE ListenOther(x)
  <2>1. entry.state = "listen" /\ entry'.state = "listen" /\ tx' = Rst(x)
    BY <1>6 DEF ListenOther, InState, Refused, Listening
  <2> QED BY <1>4, <2>1 DEF Serves
<1>7. CASE ConnectedStranger(x)
  <2>1. ~FromOwner(x) /\ entry' = entry /\ tx' = Rst(x) BY <1>7 DEF ConnectedStranger
  <2> QED BY <1>1, <1>4, <2>1 DEF Serves
<1>8. CASE CloseAck(x)
  <2>1. entry.state = "close" /\ entry'.state = "listen" /\ tx' = NoReply
    BY <1>1, <1>8 DEF CloseAck, InState, Listening
  <2> QED BY <1>4, <2>1 DEF Serves
<1>9. CASE ConnectedPureAck(x)
  BY <1>1, <1>4, <1>9 DEF ConnectedPureAck
<1>10. CASE ConnectedData(x)
  BY <1>4, <1>10 DEF ConnectedData
<1>11. CASE ConnectedQuit(x)
  <2>1. ConnectedAck(x) /\ x.data # NoData BY <1>11 DEF ConnectedQuit
  <2>2. Received(x) \in Entry BY <1>1, <2>1, ReceivedIsEntry DEF IInv
  <2>3. tx' = FinAck([Received(x) EXCEPT !.state = "close"], x) /\ entry'.state = "close"
    BY <1>11, <2>2 DEF ConnectedQuit, Entry
  <2> QED BY <1>4, <2>1, <2>3
<1> QED BY <1>5, <1>6, <1>7, <1>8, <1>9, <1>10, <1>11

(* Anything else a client sends runs nothing, and makes it the one that is   *)
(* served only if it asks for that.                                          *)
LEMMA TakeOther ==
  ASSUME IInv, NEW c \in Clients, NEW x, FromClient(c, x), x.flags # {"ack"}, process_tcp4(x)
  PROVE  /\ ~ConnectedAck(x)
         /\ Serves(c)' => x.flags = {"syn"}
         /\ Serves(c)' /\ ~Serves(c) =>
              /\ tx' \in Reply /\ tx'.flags = {"syn", "ack"} /\ tx'.ack = Plus(x.seq, 1)
              /\ entry'.rseq = Plus(x.seq, 1) /\ entry'.lseq = Plus(tx'.seq, 1)
<1>1. /\ tx = NoReply /\ x \in Segment /\ x.sum /\ x.local = ServedPort
      /\ FromOwner(x) <=> <<entry.src, entry.sport>> = c
  BY FromFields DEF process_tcp4
<1>2. x.flags \in {{"syn"}, {"ack", "fin"}, {"rst"}} BY DEF FromClient
<1>3. entry \in Entry BY DEF IInv, TypeOK
<1>4. ~ConnectedAck(x) BY <1>2 DEF ConnectedAck
<1>5. CASE x.flags = {"rst"}
  <2>1. "rst" \in x.flags BY <1>5
  <2>2. ResetReceived(x)
    BY <1>1, <2>1 DEF process_tcp4, BadChecksum, NotServed, ListenOther, ListenSyn,
       ConnectedStranger, ConnectedNonsense, ConnectedSyn, ConnectedFin, ConnectedPureAck,
       ConnectedData, ConnectedQuit, CloseAck, CloseFin, CloseOther, ConnectedAck,
       FromOwnerWhile, InState
  <2>3. entry'.state = "listen" BY <2>2 DEF ResetReceived, Listening
  <2> QED BY <1>4, <2>3 DEF Serves
<1>6. CASE x.flags = {"ack", "fin"}
  <2>1. "ack" \in x.flags /\ "fin" \in x.flags /\ "syn" \notin x.flags /\ "rst" \notin x.flags BY <1>6
  <2>2. ListenOther(x) \/ ConnectedStranger(x) \/ ConnectedFin(x) \/ CloseFin(x)
    BY <1>1, <1>4, <2>1 DEF process_tcp4, BadChecksum, NotServed, ResetReceived, ListenSyn,
       ConnectedNonsense, ConnectedSyn, ConnectedPureAck, ConnectedData, ConnectedQuit,
       CloseAck, CloseOther
  <2>3. CASE ListenOther(x) \/ CloseFin(x)
    <3>1. entry'.state = "listen" BY <2>3 DEF ListenOther, CloseFin, Refused, Listening
    <3> QED BY <1>4, <3>1 DEF Serves
  <2>4. CASE ConnectedStranger(x)
    <3>1. ~FromOwner(x) /\ entry' = entry BY <2>4 DEF ConnectedStranger
    <3> QED BY <1>1, <1>4, <3>1 DEF Serves
  <2>5. CASE ConnectedFin(x)
    <3>1. entry'.state = "close" BY <1>3, <2>5 DEF ConnectedFin, Entry
    <3> QED BY <1>4, <3>1 DEF Serves
  <2> QED BY <2>2, <2>3, <2>4, <2>5
<1>7. CASE x.flags = {"syn"}
  <2>1. "syn" \in x.flags /\ "ack" \notin x.flags /\ "fin" \notin x.flags /\ "rst" \notin x.flags BY <1>7
  <2>2. ListenSyn(x) \/ ConnectedStranger(x) \/ ConnectedSyn(x) \/ CloseOther(x)
    BY <1>1, <1>4, <2>1 DEF process_tcp4, BadChecksum, NotServed, ResetReceived, ListenOther,
       ConnectedNonsense, ConnectedFin, ConnectedPureAck, ConnectedData, ConnectedQuit,
       CloseAck, CloseFin
  <2>3. CASE CloseOther(x)
    <3>1. entry'.state = "listen" BY <2>3 DEF CloseOther, Refused, Listening
    <3> QED BY <1>4, <1>7, <3>1 DEF Serves
  <2>4. CASE ConnectedStranger(x)
    <3>1. ~FromOwner(x) /\ entry' = entry BY <2>4 DEF ConnectedStranger
    <3> QED BY <1>1, <1>4, <1>7, <3>1 DEF Serves
  <2>5. CASE ConnectedSyn(x)
    <3>1. Serves(c) BY <1>1, <2>5 DEF ConnectedSyn, FromOwnerWhile, InState, Serves
    <3> QED BY <1>4, <1>7, <3>1
  <2>6. CASE ListenSyn(x)
    <3> DEFINE e == [entry EXCEPT !.state = "connected", !.sport = x.port,
                                  !.src = x.host, !.rseq = Plus(x.seq, 1)]
    <3>1. tx' = SynAck(e, x) /\ entry' = [e EXCEPT !.lseq = Plus(e.lseq, 1)]
      BY <2>6 DEF ListenSyn
    <3>2. e \in Entry /\ e.rseq = Plus(x.seq, 1)
      BY <1>1, <1>3, SegmentFields, PlusIsSeqNo DEF Entry
    <3> HIDE DEF e
    <3>3. tx' \in Reply BY <1>1, <3>1, <3>2, EmptyIsReply
    <3>4. /\ tx'.flags = {"syn", "ack"} /\ tx'.ack = e.rseq /\ tx'.seq = e.lseq
      BY <3>1 DEF SynAck, Numbered
    <3>5. entry'.rseq = e.rseq /\ entry'.lseq = Plus(e.lseq, 1) BY <3>1, <3>2 DEF Entry
    <3> QED BY <1>4, <1>7, <3>2, <3>3, <3>4, <3>5
  <2> QED BY <2>2, <2>3, <2>4, <2>5, <2>6
<1> QED BY <1>2, <1>5, <1>6, <1>7

(* A segment of c does nothing for another client, except ending what there  *)
(* is between the board and it.                                              *)
LEMMA TakeStranger ==
  ASSUME IInv, NEW c \in Clients, NEW x, FromClient(c, x), process_tcp4(x),
         NEW d \in Clients, d # c, Serves(d)'
  PROVE  entry' = entry /\ ~ConnectedAck(x)
<1>1. /\ tx = NoReply /\ x \in Segment /\ x.sum /\ x.local = ServedPort /\ c = <<x.host, x.port>>
      /\ FromOwner(x) <=> <<entry.src, entry.sport>> = c
  BY FromFields DEF process_tcp4
<1>2. entry \in Entry BY DEF IInv, TypeOK
<1>3. entry'.state = "connected" /\ <<entry'.src, entry'.sport>> = d BY DEF Serves
<1>4. CASE ConnectedStranger(x)
  BY <1>4 DEF ConnectedStranger, ConnectedAck, FromOwnerWhile
<1>5. CASE \/ ResetReceived(x) \/ ListenOther(x) \/ ConnectedNonsense(x)
           \/ CloseAck(x) \/ CloseFin(x) \/ CloseOther(x)
  <2>1. entry'.state = "listen"
    BY <1>5 DEF ResetReceived, ListenOther, ConnectedNonsense, CloseAck, CloseFin, CloseOther,
       Refused, Listening
  <2> QED BY <1>3, <2>1
<1>6. CASE ListenSyn(x)
  <2>1. entry'.src = x.host /\ entry'.sport = x.port BY <1>2, <1>6 DEF ListenSyn, Entry
  <2> QED BY <1>1, <1>3, <2>1
<1>7. CASE \/ ConnectedSyn(x) \/ ConnectedFin(x) \/ ConnectedPureAck(x)
           \/ ConnectedData(x) \/ ConnectedQuit(x)
  <2>1. FromOwner(x)
    BY <1>7 DEF ConnectedSyn, ConnectedFin, ConnectedPureAck, ConnectedData, ConnectedQuit,
       ConnectedAck, FromOwnerWhile
  <2>2. entry'.src = entry.src /\ entry'.sport = entry.sport
    BY <1>2, <1>7 DEF ConnectedSyn, ConnectedFin, ConnectedPureAck, ConnectedData,
       ConnectedQuit, Received, Entry
  <2> QED BY <1>1, <1>3, <2>1, <2>2
<1> QED BY <1>1, <1>4, <1>5, <1>6, <1>7 DEF process_tcp4, BadChecksum, NotServed

(* What is under way, when the board has taken the first segment. *)
LEMMA TakenFlow ==
  ASSUME NEW c, NEW k, NEW up, NEW down, NEW run, Flow(c, k, up, down, run), up # <<>>,
         NEW r \in Reply,
         Head(up).flags = {"ack"} /\ r \in Telling
           => /\ Head(up).data # NoData /\ Head(up).data \in run
              /\ r.ack = Plus(Head(up).seq, Size[Head(up).data])
  PROVE  Flow(c, k, Tail(up), Append(down, r), run)
<1> DEFINE x == Head(up)
           rest == Tail(up)
           more == Append(down, r)
<1>1. up \in Seq(Segment) /\ down \in Seq(Reply) /\ \A i \in DOMAIN up : FromClient(c, up[i])
  BY DEF Flow, Queues
<1>2. /\ rest \in Seq(Segment) /\ Part(rest, up) /\ Len(rest) = Len(up) - 1 /\ Len(up) \in Nat
      /\ x \in Segment /\ 1 \in DOMAIN up /\ x = up[1]
      /\ \A i \in DOMAIN rest : i + 1 \in DOMAIN up /\ rest[i] = up[i + 1]
  BY <1>1, TailPart
<1>3. more \in Seq(Reply) /\ Len(more) = Len(down) + 1 /\ Len(down) \in Nat BY <1>1, AppendPart
<1>4. Flow(c, k, rest, down, run) BY <1>1, <1>2, FlowLess, WholePart
<1>t. x.flags = {"ack"} /\ r \in Telling
           => x.data # NoData /\ x.data \in run /\ r.ack = Plus(x.seq, Size[x.data])
  OBVIOUS
<1>5. Queues(c, rest, more) BY <1>3, <1>4 DEF Flow, Queues
<1>6. Attempt(k, rest, more)
  <2>1. Attempt(k, rest, down) BY <1>4 DEF Flow
  <2>2. k.state = "synsent" => Len(up) + Len(down) <= 1 BY DEF Flow, Attempt
  <2>3. k.state = "synsent" => Len(rest) + Len(more) <= 1 BY <1>2, <1>3, <2>2
  <2> HIDE DEF rest, more
  <2> QED BY <2>1, <2>3 DEF Attempt
<1> SUFFICES Line(k, rest, more, run) BY <1>5, <1>6 DEF Flow
<1>7. Line(k, rest, down, run) /\ Line(k, up, down, run) BY <1>4 DEF Flow
<1> HIDE DEF x, rest
<1>8. CASE ~Open(k) BY <1>7, <1>8 DEF Line
<1>9. CASE Open(k) /\ r \notin Telling
  <2>1. Told(k, more, run)
    <3>1. Told(k, down, run) BY <1>7, <1>9 DEF Line
    <3> QED BY <1>1, <1>9, <3>1, AppendPart DEF Told
  <2>2. Few(more, Telling) BY <1>1, <1>7, <1>9, AppendFew DEF Line
  <2>3. None(down, Telling) => None(more, Telling) BY <1>1, <1>9, AppendNone
  <2> HIDE DEF more
  <2> QED BY <1>7, <1>9, <2>1, <2>2, <2>3 DEF Line
<1>10. CASE Open(k) /\ r \in Telling
  <2>1. /\ Asked(k, up) /\ Told(k, down, run) /\ Few(up, Runnable)
        /\ None(up, Runnable) \/ None(down, Telling)
    BY <1>7, <1>10 DEF Line
  <2>2. x.flags = {"ack"} BY <1>2, <2>1 DEF Asked
  <2>3. x.data # NoData /\ x.data \in run /\ r.ack = Plus(x.seq, Size[x.data])
    BY <1>t, <1>10, <2>2
  <2>4. x.data = k.data /\ x.seq = k.una /\ k.nxt = Plus(k.una, Size[k.data])
    BY <1>2, <2>1, <2>3 DEF Asked
  <2>5. x \in Runnable BY <1>2, <2>2, <2>3 DEF Runnable
  <2>6. None(rest, Runnable) BY <1>1, <2>1, <2>5, TailNone DEF x, rest
  <2>7. None(down, Telling) BY <1>2, <2>1, <2>5 DEF None
  <2>8. Few(more, Telling) BY <1>1, <2>7, AppendFew DEF None, Few
  <2>9. Told(k, more, run)
    <3>1. ASSUME NEW i \in DOMAIN more, more[i] \in Telling
          PROVE  k.data # NoData /\ k.data \in run /\ more[i].ack = k.nxt
      <4>1. CASE i \in DOMAIN down
        <5>1. more[i] = down[i] BY <1>1, <4>1, AppendPart
        <5> QED BY <2>7, <3>1, <4>1, <5>1 DEF None
      <4>2. CASE i = Len(down) + 1
        <5>1. more[i] = r BY <1>1, <4>2, AppendPart
        <5> QED BY <2>3, <2>4, <5>1
      <4> QED BY <1>1, <3>1, <4>1, <4>2, AppendPart
    <3> QED BY <3>1 DEF Told
  <2> HIDE DEF more
  <2> QED BY <1>7, <1>10, <2>6, <2>8, <2>9 DEF Line
<1> QED BY <1>8, <1>9, <1>10

-------------------------------------------------------------------------------
(* The client that is served, while nothing is lost: what the board takes.   *)

LEMMA TakenRest ==
  ASSUME NEW c, NEW k, NEW up, NEW down, NEW run, Flow(c, k, up, down, run), up # <<>>
  PROVE  /\ Tail(up) \in Seq(Segment) /\ down \in Seq(Reply) /\ Head(up) \in Segment
         /\ FromClient(c, Head(up)) /\ 1 \in DOMAIN up /\ up[1] = Head(up)
         /\ \A i \in DOMAIN Tail(up) : i + 1 \in DOMAIN up /\ Tail(up)[i] = up[i + 1]
         /\ \A i \in DOMAIN up : i = 1 \/ (i - 1 \in DOMAIN Tail(up) /\ Tail(up)[i - 1] = up[i])
<1>1. up \in Seq(Segment) /\ down \in Seq(Reply) /\ \A i \in DOMAIN up : FromClient(c, up[i])
  BY DEF Flow, Queues
<1>2. /\ Tail(up) \in Seq(Segment) /\ Head(up) \in Segment /\ 1 \in DOMAIN up /\ up[1] = Head(up)
      /\ \A i \in DOMAIN Tail(up) : i + 1 \in DOMAIN up /\ Tail(up)[i] = up[i + 1]
  BY <1>1, TailPart
<1> QED BY <1>1, <1>2, TailBut

(* An ACK without a line. *)
LEMMA TuneAck ==
  ASSUME NEW c, NEW k, NEW up, NEW down, NEW run, Flow(c, k, up, down, run), up # <<>>,
         Head(up).flags = {"ack"}, Head(up).data = NoData, NEW e, InTune(e, k, up, down, run)
  PROVE  InTune(e, k, Tail(up), down, run)
<1> DEFINE x == Head(up)
           rest == Tail(up)
<1>1. /\ x \in Segment /\ 1 \in DOMAIN up /\ up[1] = x
      /\ \A i \in DOMAIN rest : i + 1 \in DOMAIN up /\ rest[i] = up[i + 1]
      /\ \A i \in DOMAIN up : i = 1 \/ (i - 1 \in DOMAIN rest /\ rest[i - 1] = up[i])
  BY TakenRest
<1>x. x.flags = {"ack"} /\ x.data = NoData OBVIOUS
<1> SUFFICES InTune(e, k, rest, down, run) OBVIOUS
<1> HIDE DEF x, rest
<1>2. "fin" \notin x.flags /\ "rst" \notin x.flags /\ x \notin Runnable BY <1>x DEF Runnable
<1>3. None(rest, Runnable) => None(up, Runnable) BY <1>1, <1>2 DEF None
<1>4. k.state # "synsent" BY DEF InTune
<1>5. \A i \in DOMAIN rest : rest[i] \in Runnable => rest[i].data \notin run BY <1>1 DEF InTune
<1>6. k.state = "finwait" => \E i \in DOMAIN rest : "fin" \in rest[i].flags
  BY <1>1, <1>2 DEF InTune
<1>7. k.state = "closed" => \E i \in DOMAIN rest : "rst" \in rest[i].flags
  BY <1>1, <1>2 DEF InTune
<1> QED BY <1>3, <1>4, <1>5, <1>6, <1>7 DEF InTune

(* A line, and the answer to it. *)
LEMMA TuneData ==
  ASSUME NEW c, NEW k, NEW up, NEW down, NEW run, Flow(c, k, up, down, run), up # <<>>,
         Head(up).flags = {"ack"}, Head(up).data # NoData, NEW e, InTune(e, k, up, down, run),
         NEW r \in Reply, r.flags = {"ack"},
         NEW e2, e2.rseq = Plus(Head(up).seq, Size[Head(up).data]), e2.lseq = Plus(e.lseq, r.len)
  PROVE  InTune(e2, k, Tail(up), Append(down, r), run \cup {Head(up).data})
<1> DEFINE x == Head(up)
           rest == Tail(up)
           more == Append(down, r)
<1>1. /\ x \in Segment /\ 1 \in DOMAIN up /\ up[1] = x /\ down \in Seq(Reply)
      /\ \A i \in DOMAIN rest : i + 1 \in DOMAIN up /\ rest[i] = up[i + 1]
      /\ \A i \in DOMAIN up : i = 1 \/ (i - 1 \in DOMAIN rest /\ rest[i - 1] = up[i])
  BY TakenRest
<1>x. /\ x.flags = {"ack"} /\ x.data # NoData /\ e2.rseq = Plus(x.seq, Size[x.data])
  OBVIOUS
<1>2. "fin" \notin x.flags /\ "rst" \notin x.flags /\ x \in Runnable BY <1>1, <1>x DEF Runnable
<1>3. None(rest, Runnable)
  <2>1. Few(up, Runnable) /\ up \in Seq(Segment) BY DEF Flow, Line, Queues
  <2> QED BY <1>2, <2>1, TailNone
<1>4. ~None(up, Runnable) BY <1>1, <1>2 DEF None
<1> SUFFICES InTune(e2, k, rest, more, run \cup {x.data}) OBVIOUS
<1>5. /\ \A i \in DOMAIN down : i \in DOMAIN more /\ more[i] = down[i]
      /\ \A i \in DOMAIN more : i \in DOMAIN down \/ i = Len(down) + 1
      /\ Len(down) + 1 \in DOMAIN more /\ more[Len(down) + 1] = r
  BY <1>1, AppendPart
<1> DEFINE last == Len(down) + 1
<1> HIDE DEF x, rest, more, last
<1>6. k.state \in {"estab", "closed"}
  <2>1. k.state # "synsent" BY DEF InTune
  <2>2. k.state # "finwait" BY <1>4 DEF Flow, Line
  <2> QED BY <2>1, <2>2 DEF InTune
<1>7. \A i \in DOMAIN rest : rest[i] \notin Runnable BY <1>3 DEF None
<1>8. k.state = "closed" => \E i \in DOMAIN rest : "rst" \in rest[i].flags
  BY <1>1, <1>2 DEF InTune
<1>9. CASE k.state = "closed" BY <1>7, <1>8, <1>9 DEF InTune
<1>10. CASE k.state = "estab"
  <2>1. /\ Asked(k, up) /\ None(down, Telling)
    BY <1>4, <1>10 DEF Flow, Line, Open
  <2>2. x.data = k.data /\ x.seq = k.una /\ k.nxt = Plus(k.una, Size[k.data])
    BY <1>1, <1>x, <2>1 DEF Asked
  <2>3. e2.rseq = k.nxt BY <1>x, <2>2
  <2>4. e.lseq = k.rcv BY <1>10, <2>1 DEF InTune
  <2>5. r \in Telling /\ {"rst", "fin"} \cap r.flags = {} BY DEF Telling
  <2>6. \A i \in DOMAIN more : {"rst", "fin"} \cap more[i].flags = {}
    <3>1. \A i \in DOMAIN down : {"rst", "fin"} \cap down[i].flags = {} BY <1>10 DEF InTune
    <3>2. ASSUME NEW i \in DOMAIN more PROVE more[i] = r \/ (i \in DOMAIN down /\ more[i] = down[i])
      BY <1>5 DEF last
    <3> QED BY <2>5, <3>1, <3>2
  <2>7. ~None(more, Telling) BY <1>5, <2>5 DEF None
  <2>8. ASSUME NEW i \in DOMAIN more, more[i] \in Telling
        PROVE  e2.lseq = Plus(k.rcv, more[i].len)
    <3>1. more[i] = r BY <1>5, <2>1, <2>8 DEF None, last
    <3> QED BY <2>4, <3>1
  <2> QED BY <1>7, <1>10, <2>3, <2>6, <2>7, <2>8 DEF InTune
<1> QED BY <1>6, <1>9, <1>10

(* The attempt to connect, and the SYN/ACK. *)
LEMMA TuneSyn ==
  ASSUME NEW c, NEW k, NEW up, NEW down, NEW run, Flow(c, k, up, down, run), up # <<>>,
         Head(up).flags = {"syn"},
         NEW r \in Reply, r.flags = {"syn", "ack"}, r.ack = Plus(Head(up).seq, 1),
         NEW e2, e2.rseq = Plus(Head(up).seq, 1), e2.lseq = Plus(r.seq, 1)
  PROVE  InTune(e2, k, Tail(up), Append(down, r), run)
<1>1. /\ Head(up) \in Segment /\ 1 \in DOMAIN up /\ up[1] = Head(up)
      /\ up \in Seq(Segment) /\ down \in Seq(Reply)
  BY TakenRest DEF Flow, Queues
<1>2. "syn" \in up[1].flags BY <1>1
<1>3. k.state = "synsent" /\ Head(up).seq = k.una /\ k.nxt = Plus(k.una, 1) /\ Len(up) + Len(down) <= 1
  BY <1>1, <1>2 DEF Flow, Attempt
<1>4. /\ Tail(up) \in Seq(Segment) /\ Len(Tail(up)) = Len(up) - 1 /\ Len(up) \in Nat
      /\ Len(down) \in Nat /\ Len(Tail(up)) \in Nat
  BY <1>1, TailPart, LenProperties
<1>5. Len(Tail(up)) = 0 /\ Len(down) = 0 BY <1>3, <1>4
<1>6. Tail(up) = <<>> /\ down = <<>> BY <1>1, <1>4, <1>5, NoLength
<1>7. /\ Append(down, r) \in Seq(Reply) /\ Len(Append(down, r)) = 1 /\ Append(down, r)[1] = r
  BY <1>1, <1>5, AppendPart
<1>8. None(Tail(up), Runnable) /\ \A i \in DOMAIN Tail(up) : FALSE BY <1>6 DEF None
<1> QED BY <1>3, <1>6, <1>7, <1>8 DEF InTune

-------------------------------------------------------------------------------
(* The client that is served, while nothing is lost: what it does.           *)

(* It sends what carries nothing. *)
LEMMA TuneReply ==
  ASSUME NEW e, NEW k, NEW up \in Seq(Segment), NEW down, NEW run, InTune(e, k, up, down, run),
         k.state # "synsent", NEW s \in Segment, s \notin Runnable
  PROVE  InTune(e, k, Append(up, s), down, run)
<1> DEFINE more == Append(up, s)
           last == Len(up) + 1
<1>1. /\ \A i \in DOMAIN up : i \in DOMAIN more /\ more[i] = up[i]
      /\ \A i \in DOMAIN more : i \in DOMAIN up \/ i = last
      /\ more[last] = s
  BY AppendPart
<1> SUFFICES InTune(e, k, more, down, run) OBVIOUS
<1> HIDE DEF more, last
<1>2. None(more, Runnable) => None(up, Runnable) BY <1>1 DEF None
<1>3. \A i \in DOMAIN more : more[i] \in Runnable => more[i].data \notin run
  BY <1>1 DEF InTune
<1>4. k.state = "finwait" => \E i \in DOMAIN more : "fin" \in more[i].flags BY <1>1 DEF InTune
<1>5. k.state = "closed" => \E i \in DOMAIN more : "rst" \in more[i].flags BY <1>1 DEF InTune
<1> QED BY <1>2, <1>3, <1>4, <1>5 DEF InTune

(* It sends a line that has not been run. *)
LEMMA TuneType ==
  ASSUME NEW c \in Clients, NEW k \in Connection, NEW up, NEW down, NEW run,
         Flow(c, k, up, down, run), k.state = "estab", Acknowledged(k),
         NEW e, InTune(e, k, up, down, run), NEW d \in Payloads, d \notin run,
         NEW k2 \in Connection, k2.state = "estab", k2.data = d, k2.rcv = k.rcv
  PROVE  InTune(e, k2, Append(up, Outstanding(c, k2)), down, run)
<1> DEFINE s == Outstanding(c, k2)
           more == Append(up, s)
           last == Len(up) + 1
<1>1. FromClient(c, s) /\ s.data = d /\ s.flags = {"ack"} BY OutstandingFrom DEF Closing
<1>2. s \in Runnable
  <2>1. d # NoData /\ "fin" \notin s.flags BY <1>1, Tcp4Assumption
  <2> QED BY <1>1, <2>1 DEF Runnable, FromClient
<1>3. up \in Seq(Segment) /\ s \in Segment BY <1>1 DEF FromClient, Flow, Queues
<1>4. None(up, Runnable) /\ None(down, Telling) BY Settled DEF Open
<1> SUFFICES InTune(e, k2, more, down, run) OBVIOUS
<1> HIDE DEF s
<1>5. /\ \A i \in DOMAIN more : (i \in DOMAIN up /\ more[i] = up[i]) \/ more[i] = s
      /\ last \in DOMAIN more /\ more[last] = s
  BY <1>3, AppendPart
<1> HIDE DEF more, last
<1>6. ~None(more, Runnable) BY <1>2, <1>5 DEF None
<1>7. \A i \in DOMAIN more : more[i] \in Runnable => more[i].data \notin run
  BY <1>1, <1>4, <1>5 DEF None
<1>8. /\ \A i \in DOMAIN down : {"rst", "fin"} \cap down[i].flags = {}
      /\ e.lseq = k.rcv
      /\ \A i \in DOMAIN down : down[i] \notin Telling
  BY <1>4 DEF InTune, None
<1> QED BY <1>6, <1>7, <1>8 DEF InTune

(* It sends its FIN. *)
LEMMA TuneFin ==
  ASSUME NEW c \in Clients, NEW k \in Connection, NEW up, NEW down, NEW run,
         Flow(c, k, up, down, run), k.state = "estab",
         NEW e, InTune(e, k, up, down, run),
         NEW k2 \in Connection, k2.state = "finwait"
  PROVE  InTune(e, k2, Append(up, Outstanding(c, k2)), down, run)
<1> DEFINE s == Outstanding(c, k2)
           more == Append(up, s)
           last == Len(up) + 1
<1>1. FromClient(c, s) /\ s.flags = {"ack", "fin"} BY OutstandingFrom DEF Closing
<1>2. "fin" \in s.flags /\ s \notin Runnable BY <1>1 DEF Runnable
<1>3. up \in Seq(Segment) /\ s \in Segment BY <1>1 DEF FromClient, Flow, Queues
<1> SUFFICES InTune(e, k2, more, down, run) OBVIOUS
<1> HIDE DEF s
<1>5. /\ \A i \in DOMAIN more : (i \in DOMAIN up /\ more[i] = up[i]) \/ more[i] = s
      /\ last \in DOMAIN more /\ more[last] = s
  BY <1>3, AppendPart
<1> HIDE DEF more, last
<1>6. \A i \in DOMAIN more : more[i] \in Runnable => more[i].data \notin run
  BY <1>2, <1>5 DEF InTune
<1>7. \A i \in DOMAIN down : {"rst", "fin"} \cap down[i].flags = {} BY DEF InTune
<1> QED BY <1>2, <1>5, <1>6, <1>7 DEF InTune

(* It is killed. *)
LEMMA TuneAbort ==
  ASSUME NEW e, NEW k, NEW up \in Seq(Segment), NEW down, NEW run, InTune(e, k, up, down, run),
         NEW s \in Segment, s.flags = {"rst"}, s \notin Runnable
  PROVE  InTune(e, Closed, Append(up, s), down, run)
<1> DEFINE more == Append(up, s)
           last == Len(up) + 1
<1>1. "rst" \in s.flags OBVIOUS
<1> SUFFICES InTune(e, Closed, more, down, run) OBVIOUS
<1>2. /\ \A i \in DOMAIN more : (i \in DOMAIN up /\ more[i] = up[i]) \/ more[i] = s
      /\ last \in DOMAIN more /\ more[last] = s
  BY AppendPart
<1> HIDE DEF more, last
<1>3. \A i \in DOMAIN more : more[i] \in Runnable => more[i].data \notin run
  BY <1>2 DEF InTune
<1> QED BY <1>1, <1>2, <1>3, ClosedConnection DEF InTune

(* With nothing on its way it is connected; it may repeat a line that has    *)
(* not been run.                                                             *)
LEMMA TuneIdle ==
  ASSUME NEW c \in Clients, NEW k \in Connection, NEW run, NEW e, InTune(e, k, <<>>, <<>>, run)
  PROVE  /\ k.state = "estab"
         /\ InTune(e, k, Append(<<>>, Outstanding(c, k)), <<>>, run)
<1>1. DOMAIN <<>> = {} /\ Len(<<>>) = 0 OBVIOUS
<1>2. k.state = "estab" BY <1>1 DEF InTune
<1> DEFINE s == Outstanding(c, k)
           more == Append(<<>>, s)
<1>3. FromClient(c, s) /\ s.data = k.data /\ s.flags = {"ack"}
  BY <1>2, OutstandingFrom DEF Closing
<1>4. DOMAIN more = {1} /\ more[1] = s BY <1>3, QueuesFirst
<1>5. None(<<>>, Runnable) /\ None(<<>>, Telling) BY <1>1 DEF None
<1> HIDE DEF s, more
<1>6. e.rseq = k.nxt /\ e.lseq = k.rcv /\ (k.data # NoData => k.data \notin run)
  BY <1>2, <1>5 DEF InTune
<1>7. more[1] \in Runnable => more[1].data \notin run BY <1>3, <1>4, <1>6 DEF Runnable
<1>8. InTune(e, k, more, <<>>, run) BY <1>1, <1>2, <1>4, <1>6, <1>7 DEF InTune
<1> QED BY <1>2, <1>8 DEF s, more

(* It hears a reply: each of the states it can be in.                        *)

LEMMA TuneHearSynSent ==
  ASSUME Kept, NEW c \in Clients, Hear(c), client[c].state = "synsent",
         NEW down, down # <<>>, Head(down) = Head(toClient[c]), NEW run,
         Flow(c, client[c], toServer[c], down, run),
         NEW e, InTune(e, client[c], toServer[c], down, run)
  PROVE  InTune(e, client'[c], toServer'[c], Tail(down), run)
<1>1. PICK k, r, up, rest : k = client[c] /\ r = Head(down) /\ up = toServer[c] /\ rest = Tail(down)
  OBVIOUS
<1>2. k.state = "synsent" /\ k \in Connection BY <1>1 DEF Kept
<1>3. down \in Seq(Reply) BY DEF Flow, Queues
<1>4. /\ r \in Reply /\ r = down[1] /\ rest \in Seq(Reply) /\ Len(rest) = Len(down) - 1
  BY <1>1, <1>3, TailPart
<1>5. /\ up = <<>> /\ Len(down) = 1 /\ r.flags = {"syn", "ack"} /\ r.ack = k.nxt
      /\ e.rseq = k.nxt /\ e.lseq = Plus(r.seq, 1)
  BY <1>1, <1>2, <1>4 DEF InTune
<1>6. rest = <<>>
  <2>1. Len(rest) = 0 BY <1>4, <1>5
  <2> QED BY <1>4, <2>1, NoLength
<1>7. HearSynSent(c, k, r)
  BY <1>1, <1>2 DEF Hear, HearClosed, HearReset, HearUnacceptable, HearAhead, HearInOrder,
     HearFin, Acceptable, Synchronised
<1>8. client'[c] = Established(k, r) /\ AnswersQuietly(c, toServer[c], toServer'[c])
  <2>1. k = client[c] /\ r \in Reply /\ HearSynSent(c, k, r) BY <1>1, <1>4, <1>7
  <2>2. /\ Heard(c, k, r, client'[c], toServer[c], toServer'[c])
        /\ r.ack = k.nxt /\ r.flags = {"syn", "ack"}
             => client'[c] = Established(k, r) /\ AnswersQuietly(c, toServer[c], toServer'[c])
    BY <2>1, HearSynSentWays
  <2> QED BY <1>5, <2>2, Zenon
<1>9. PICK s : FromClient(c, s) /\ s \notin Runnable /\ toServer'[c] = Append(up, s)
  BY <1>1, <1>8 DEF AnswersQuietly
<1>10. PICK k2, up2 : k2 = client'[c] /\ up2 = toServer'[c] OBVIOUS
<1>11. k.data = NoData BY <1>1, <1>2 DEF Flow, Line
<1>12. k2.state = "estab" /\ k2.nxt = k.nxt /\ k2.rcv = Plus(r.seq, 1) /\ k2.data = NoData
  BY <1>2, <1>8, <1>10, <1>11 DEF Connection, Established
<1>13. DOMAIN up2 = {1} /\ up2[1] = s BY <1>5, <1>9, <1>10, QueuesFirst
<1>14. DOMAIN rest = {} BY <1>6
<1>15. InTune(e, k2, up2, rest, run) BY <1>5, <1>9, <1>12, <1>13, <1>14 DEF InTune
<1> QED BY <1>1, <1>10, <1>15

LEMMA TuneHearEstab ==
  ASSUME Kept, NEW c \in Clients, Hear(c), client[c].state = "estab",
         NEW down, down # <<>>, Head(down) = Head(toClient[c]), NEW run,
         Flow(c, client[c], toServer[c], down, run), Exact(client[c], down),
         NEW e, InTune(e, client[c], toServer[c], down, run)
  PROVE  InTune(e, client'[c], toServer'[c], Tail(down), run)
<1>1. PICK k, r, up, rest : k = client[c] /\ r = Head(down) /\ up = toServer[c] /\ rest = Tail(down)
  OBVIOUS
<1>2. k.state = "estab" /\ k \in Connection /\ Open(k) BY <1>1 DEF Kept, Open
<1>3. down \in Seq(Reply) /\ up \in Seq(Segment) BY <1>1 DEF Flow, Queues
<1>4. /\ r \in Reply /\ r = down[1] /\ 1 \in DOMAIN down /\ rest \in Seq(Reply)
      /\ \A i \in DOMAIN rest : i + 1 \in DOMAIN down /\ rest[i] = down[i + 1]
  BY <1>1, <1>3, TailPart
<1>5. "rst" \notin r.flags /\ "fin" \notin r.flags /\ r \in Telling
  BY <1>1, <1>2, <1>4 DEF InTune, Telling
<1>6. k.data # NoData /\ r.ack = k.nxt /\ None(up, Runnable) /\ None(rest, Telling)
  BY <1>1, <1>2, <1>5, ToldOnce
<1>7. r.seq = k.rcv /\ "syn" \notin r.flags BY <1>1, <1>2, <1>4, <1>5 DEF Exact
<1>8. k.nxt = Plus(k.una, Size[k.data]) BY <1>1, <1>2, <1>6 DEF Flow, Line, Asked
<1>9. k.data \in Payloads /\ k.una \in SeqNo /\ k.nxt \in SeqNo /\ k.rcv \in SeqNo
  BY <1>2, <1>6, ConnectionFields
<1>10. /\ ~Behind(k.nxt, k.una) /\ ~Behind(k.nxt, k.nxt) /\ ~Behind(k.rcv, k.rcv)
       /\ (k.nxt - k.nxt) % SeqMod = 0
  BY <1>8, <1>9, PlusMoves
<1>11. HearInOrder(c, k, r)
  BY <1>1, <1>2, <1>5, <1>6, <1>7, <1>10
     DEF Hear, HearClosed, HearSynSent, HearReset, HearUnacceptable, HearAhead, HearFin,
         Unacceptable
<1>12. /\ Heard(c, k, r, client'[c], toServer[c], toServer'[c])
       /\ client'[c] = Counting(k, r, r.len)
  BY <1>1, <1>2, <1>4, <1>11, HearInOrderWays
<1>13. PICK k2, up2 : k2 = client'[c] /\ up2 = toServer'[c] OBVIOUS
<1>14. k2.state = "estab" /\ k2.nxt = k.nxt /\ k2.rcv = Plus(k.rcv, r.len)
  <2>1. r.len \in Nat BY <1>4, ReplyFields
  <2> QED BY <1>2, <1>4, <1>12, <1>13, <2>1, CountingFacts
<1>15. k2.data = NoData
  <2>1. Acked(k, r) = [k EXCEPT !.una = r.ack, !.data = NoData]
    <3>1. (k.nxt - r.ack) % SeqMod <= (IF Closing(k) THEN 1 ELSE 0) BY <1>6, <1>10
    <3> QED BY <1>6, <1>10, <3>1 DEF Acked
  <2>2. Acked(k, r).data = NoData BY <1>2, <2>1 DEF Connection
  <2>3. Acked(k, r) \in Connection BY <1>2, <1>4, AckedFacts
  <2>4. Counting(k, r, r.len).data = Acked(k, r).data BY <2>3 DEF Counting, Connection
  <2> QED BY <1>12, <1>13, <2>2, <2>4
<1>16. e.lseq = Plus(k.rcv, r.len) /\ e.rseq = k.nxt
  BY <1>1, <1>2, <1>4, <1>5, <1>6 DEF InTune
<1>17. InTune(e, k2, up, rest, run)
  <2>1. \A i \in DOMAIN rest : {"rst", "fin"} \cap rest[i].flags = {}
    BY <1>1, <1>2, <1>4 DEF InTune
  <2>2. \A i \in DOMAIN rest : rest[i] \notin Telling BY <1>6 DEF None
  <2>3. \A i \in DOMAIN up : up[i] \notin Runnable BY <1>6 DEF None
  <2> QED BY <1>14, <1>15, <1>16, <2>1, <2>2, <2>3 DEF InTune
<1>18. Replied(c, k2, up, up2)
  BY <1>1, <1>2, <1>12, <1>13, <1>14 DEF Heard, Closing, Open, Closed
<1>19. InTune(e, k2, up2, rest, run)
  <2>1. k2.state # "synsent" BY <1>14
  <2>2. CASE up2 = up BY <1>17, <2>2
  <2>3. CASE up2 # up
    <3>1. PICK s : Harmless(c, k2, s) /\ up2 = Append(up, s) BY <1>18, <2>3 DEF Replied
    <3>2. s \in Segment /\ s \notin Runnable BY <3>1 DEF Harmless, FromClient
    <3> QED BY <1>3, <1>17, <2>1, <3>1, <3>2, TuneReply
  <2> QED BY <2>2, <2>3
<1> QED BY <1>1, <1>13, <1>19

LEMMA TuneHearClosed ==
  ASSUME Kept, NEW c \in Clients, Hear(c), client[c].state = "closed",
         NEW down, down # <<>>, Head(down) = Head(toClient[c]), NEW run,
         Flow(c, client[c], toServer[c], down, run),
         NEW e, InTune(e, client[c], toServer[c], down, run)
  PROVE  InTune(e, client'[c], toServer'[c], Tail(down), run)
<1>1. PICK k, r, up, rest : k = client[c] /\ r = Head(down) /\ up = toServer[c] /\ rest = Tail(down)
  OBVIOUS
<1>2. k.state = "closed" /\ k \in Connection /\ ~Open(k) BY <1>1 DEF Kept, Open
<1>3. up \in Seq(Segment) /\ down \in Seq(Reply) BY <1>1 DEF Flow, Queues
<1>4. r \in Reply BY <1>1, <1>3, TailPart
<1>5. r.ack \in SeqNo BY <1>4, ReplyFields
<1>6. HearClosed(c, k, r)
  BY <1>1, <1>2 DEF Hear, HearSynSent, HearReset, HearUnacceptable, HearAhead, HearInOrder,
     HearFin, Acceptable, Synchronised
<1>7. InTune(e, k, up, rest, run) BY <1>1, <1>2 DEF InTune
<1>8. CASE "rst" \in r.flags
  <2>1. client'[c] = k /\ toServer'[c] = up BY <1>1, <1>6, <1>8, Changed DEF HearClosed
  <2> QED BY <1>1, <1>7, <2>1
<1>9. CASE "rst" \notin r.flags
  <2>1. client'[c] = k /\ toServer'[c] = Append(up, Reset(c, r.ack))
    BY <1>1, <1>6, <1>9, Changed DEF HearClosed
  <2>2. Reset(c, r.ack) \in Segment /\ Reset(c, r.ack) \notin Runnable
    BY <1>5, ResetFrom DEF FromClient
  <2>3. InTune(e, k, Append(up, Reset(c, r.ack)), rest, run)
    BY <1>2, <1>3, <1>7, <2>2, TuneReply
  <2> QED BY <1>1, <2>1, <2>3
<1> QED BY <1>8, <1>9

LEMMA TuneHearFinwait ==
  ASSUME Kept, NEW c \in Clients, Hear(c), client[c].state = "finwait",
         NEW down, down # <<>>, Head(down) = Head(toClient[c]), NEW run,
         Flow(c, client[c], toServer[c], down, run),
         NEW e, InTune(e, client[c], toServer[c], down, run)
  PROVE  InTune(e, client'[c], toServer'[c], Tail(down), run)
<1>1. PICK k, r, up, rest : k = client[c] /\ r = Head(down) /\ up = toServer[c] /\ rest = Tail(down)
  OBVIOUS
<1>2. k.state = "finwait" /\ k \in Connection /\ Closing(k) BY <1>1 DEF Kept, Closing
<1>3. down \in Seq(Reply) /\ up \in Seq(Segment) BY <1>1 DEF Flow, Queues
<1>4. /\ r \in Reply /\ r = down[1] /\ 1 \in DOMAIN down /\ rest \in Seq(Reply)
      /\ \A i \in DOMAIN rest : i + 1 \in DOMAIN down /\ rest[i] = down[i + 1]
  BY <1>1, <1>3, TailPart
<1>5. "rst" \notin r.flags /\ "fin" \notin r.flags BY <1>1, <1>2, <1>4 DEF InTune
<1>6. HearUnacceptable(c, k, r) \/ HearAhead(c, k, r) \/ HearInOrder(c, k, r)
  BY <1>1, <1>2, <1>5 DEF Hear, HearClosed, HearSynSent, HearReset, HearFin
<1>7. Heard(c, k, r, client'[c], toServer[c], toServer'[c])
  BY <1>1, <1>4, <1>6, HearResetWays, HearAheadWays, HearInOrderWays
<1>8. PICK k2, up2 : k2 = client'[c] /\ up2 = toServer'[c] OBVIOUS
<1>9. k2.state = "finwait"
  <2>1. CASE HearUnacceptable(c, k, r)
    <3>1. client'[c] = k BY <1>1, <2>1, Changed DEF HearUnacceptable
    <3> QED BY <1>2, <1>8, <3>1
  <2>2. CASE HearAhead(c, k, r)
    <3>1. client'[c] = Acked(k, r) BY <1>1, <2>2, Changed DEF HearAhead
    <3>2. Acked(k, r).state = k.state BY <1>2, <1>4, AckedFacts
    <3> QED BY <1>2, <1>8, <3>1, <3>2
  <2>3. CASE HearInOrder(c, k, r) BY <1>1, <1>2, <1>4, <1>8, <2>3, HearInOrderWays
  <2> QED BY <1>6, <2>1, <2>2, <2>3
<1>10. Replied(c, k2, up, up2)
  BY <1>1, <1>2, <1>7, <1>8, <1>9 DEF Heard, Closing, Open
<1>11. InTune(e, k2, up, rest, run)
  <2>1. \A i \in DOMAIN rest : {"rst", "fin"} \cap rest[i].flags = {}
    BY <1>1, <1>2, <1>4 DEF InTune
  <2> QED BY <1>1, <1>2, <1>9, <2>1 DEF InTune
<1>12. InTune(e, k2, up2, rest, run)
  <2>1. k2.state # "synsent" BY <1>9
  <2>2. CASE up2 = up BY <1>11, <2>2
  <2>3. CASE up2 # up
    <3>1. PICK s : Harmless(c, k2, s) /\ up2 = Append(up, s) BY <1>10, <2>3 DEF Replied
    <3>2. s \in Segment /\ s \notin Runnable BY <3>1 DEF Harmless, FromClient
    <3> QED BY <1>3, <1>11, <2>1, <3>1, <3>2, TuneReply
  <2> QED BY <2>2, <2>3
<1> QED BY <1>1, <1>8, <1>12

LEMMA TuneHear ==
  ASSUME Kept, NEW c \in Clients, Hear(c),
         NEW down, down # <<>>, Head(down) = Head(toClient[c]), NEW run,
         Flow(c, client[c], toServer[c], down, run), Exact(client[c], down),
         NEW e, InTune(e, client[c], toServer[c], down, run)
  PROVE  InTune(e, client'[c], toServer'[c], Tail(down), run)
<1>1. client[c].state \in {"synsent", "estab", "finwait", "closed"} BY DEF InTune
<1> QED BY <1>1, TuneHearSynSent, TuneHearEstab, TuneHearFinwait, TuneHearClosed

(* What is exact stays exact when the board answers. *)
LEMMA TakenExact ==
  ASSUME NEW c, NEW k, NEW up, NEW down, NEW run, Flow(c, k, up, down, run), up # <<>>,
         Exact(k, down), NEW r \in Reply,
         NEW e, Head(up).flags = {"ack"} /\ r \in Telling
                  => Head(up).data # NoData /\ InTune(e, k, up, down, run)
                     /\ r.seq = e.lseq /\ "syn" \notin r.flags
  PROVE  Exact(k, Append(down, r))
<1> DEFINE x == Head(up)
           more == Append(down, r)
<1>1. x \in Segment /\ 1 \in DOMAIN up /\ up[1] = x /\ down \in Seq(Reply) BY TakenRest
<1>2. \A i \in DOMAIN more : (i \in DOMAIN down /\ more[i] = down[i]) \/ more[i] = r
  BY <1>1, AppendPart
<1>3. SUFFICES ASSUME Open(k), r \in Telling PROVE r.seq = k.rcv /\ "syn" \notin r.flags
  <2> HIDE DEF more
  <2> QED BY <1>2 DEF Exact
<1>4. Line(k, up, down, run) /\ Asked(k, up) BY <1>3 DEF Flow, Line
<1>5. x.flags = {"ack"} BY <1>1, <1>4 DEF Asked
<1>6. x.data # NoData /\ InTune(e, k, up, down, run) /\ r.seq = e.lseq /\ "syn" \notin r.flags
  BY <1>3, <1>5
<1>7. x \in Runnable
  <2>1. "fin" \notin x.flags BY <1>5
  <2> QED BY <1>1, <1>6, <2>1 DEF Runnable
<1>8. None(down, Telling) BY <1>1, <1>3, <1>4, <1>7 DEF Line, None
<1>9. k.state = "estab" BY <1>3, <1>6 DEF InTune, Open
<1>10. e.lseq = k.rcv BY <1>6, <1>8, <1>9 DEF InTune
<1> QED BY <1>6, <1>10

-------------------------------------------------------------------------------
(* The replies that a client has not heard, from one state to the next.      *)

LEMMA AppendTail ==
  ASSUME NEW S, NEW q \in Seq(S), q # <<>>, NEW x \in S
  PROVE  Tail(Append(q, x)) = Append(Tail(q), x) /\ Head(Append(q, x)) = Head(q)
<1> DEFINE a == Append(q, x)
           t == Tail(q)
<1>1. /\ a \in Seq(S) /\ a # <<>> /\ Len(a) = Len(q) + 1 /\ Len(q) \in Nat
      /\ \A i \in DOMAIN q : a[i] = q[i]
      /\ a[Len(q) + 1] = x
  BY AppendPart
<1>2. /\ t \in Seq(S) /\ Len(t) = Len(q) - 1 /\ 1 \in DOMAIN q /\ Head(q) = q[1]
      /\ \A i \in DOMAIN t : i + 1 \in DOMAIN q /\ t[i] = q[i + 1]
  BY TailPart
<1>3. /\ Tail(a) \in Seq(S) /\ Len(Tail(a)) = Len(a) - 1 /\ Head(a) = a[1]
      /\ \A i \in DOMAIN Tail(a) : Tail(a)[i] = a[i + 1]
  BY <1>1, TailPart
<1>4. /\ Append(t, x) \in Seq(S) /\ Len(Append(t, x)) = Len(t) + 1
      /\ \A i \in DOMAIN t : Append(t, x)[i] = t[i]
      /\ Append(t, x)[Len(t) + 1] = x
  BY <1>2, AppendPart
<1>5. Head(a) = Head(q) BY <1>1, <1>2, <1>3
<1>6. Tail(a) = Append(t, x)
  <2>1. Len(Tail(a)) = Len(q) /\ Len(Append(t, x)) = Len(q) BY <1>1, <1>2, <1>3, <1>4
  <2>2. DOMAIN t = 1 .. Len(q) - 1 /\ DOMAIN Tail(a) = 1 .. Len(q) /\ DOMAIN q = 1 .. Len(q)
    BY <1>1, <1>2, <1>3, <2>1, LenProperties
  <2> HIDE DEF a, t
  <2>3. ASSUME NEW i \in 1 .. Len(q) PROVE Tail(a)[i] = Append(t, x)[i]
    <3>1. CASE i = Len(q) BY <1>1, <1>2, <1>3, <1>4, <2>2, <3>1
    <3>2. CASE i # Len(q)
      <4>1. Len(q) \in Nat BY <1>1
      <4>2. i \in 1 .. Len(q) - 1 /\ i + 1 \in 1 .. Len(q) BY <3>2, <4>1
      <4> QED BY <1>1, <1>2, <1>3, <1>4, <2>2, <4>2
    <3> QED BY <3>1, <3>2
  <2> QED BY <1>3, <1>4, <2>1, <2>3, SeqEqual
<1> QED BY <1>5, <1>6

LEMMA DownType ==
  ASSUME Kept, NEW c \in Clients
  PROVE  /\ Down(c) \in Seq(Reply) /\ toClient[c] \in Seq(Reply)
         /\ tx # NoReply => tx \in Reply
<1>1. toClient[c] \in Seq(Reply) /\ (tx # NoReply => tx \in Reply) BY DEF Kept, IInv, TypeOK
<1> QED BY <1>1, AppendPart DEF Down, Mine

(* Nothing has happened to them. *)
LEMMA DownSame ==
  ASSUME NEW c, tx' = tx, toClient'[c] = toClient[c]
  PROVE  Down(c)' = Down(c)
BY DEF Down, Mine

(* The first one is gone. *)
LEMMA DownTail ==
  ASSUME Kept, NEW c \in Clients, toClient[c] # <<>>, tx' = tx, toClient'[c] = Tail(toClient[c])
  PROVE  /\ Down(c) # <<>> /\ Head(Down(c)) = Head(toClient[c]) /\ Down(c)' = Tail(Down(c))
<1>1. toClient[c] \in Seq(Reply) /\ (tx # NoReply => tx \in Reply) BY DownType
<1>2. CASE Mine(c)
  <2>1. Down(c) = Append(toClient[c], tx) /\ Down(c)' = Append(Tail(toClient[c]), tx)
    BY <1>2 DEF Down, Mine
  <2>2. tx \in Reply BY <1>1, <1>2 DEF Mine
  <2> QED BY <1>1, <2>1, <2>2, AppendTail, AppendPart
<1>3. CASE ~Mine(c) BY <1>3 DEF Down, Mine
<1> QED BY <1>2, <1>3

(* The reply has left. *)
LEMMA DownDeliver ==
  ASSUME Kept, Deliver, NEW c \in Clients
  PROVE  Down(c)' = Down(c)
<1>1. /\ tx # NoReply /\ tx' = NoReply
      /\ toClient' = [toClient EXCEPT ![<<tx.host, tx.port>>] = Append(@, tx)]
  BY DEF Deliver, Transmit
<1>2. Down(c)' = toClient'[c] BY <1>1 DEF Down, Mine
<1>3. c \in DOMAIN toClient BY DEF Kept
<1> QED BY <1>1, <1>2, <1>3 DEF Down, Mine

(* The board answers a segment of client c, or does not. *)
LEMMA DownReceive ==
  ASSUME tx = NoReply, toClient' = toClient, NEW c, NEW d,
         tx' # NoReply => <<tx'.host, tx'.port>> = c
  PROVE  /\ d # c \/ tx' = NoReply => Down(d)' = Down(d)
         /\ tx' # NoReply => Down(c)' = Append(Down(c), tx')
BY DEF Down, Mine

(* The board forgets the reply. *)
LEMMA DownReboot ==
  ASSUME Kept, tx' = NoReply, toClient' = toClient, NEW c \in Clients
  PROVE  Down(c)' \in Seq(Reply) /\ Part(Down(c)', Down(c))
<1>1. toClient[c] \in Seq(Reply) /\ (tx # NoReply => tx \in Reply) BY DownType
<1>2. Down(c)' = toClient[c] BY DEF Down, Mine
<1>3. Part(toClient[c], Down(c)) BY <1>1, AppendPart, WholePart DEF Down, Mine
<1> QED BY <1>1, <1>2, <1>3

LEMMA DownIdle ==
  ASSUME NEW c, Idle(c)
  PROVE  Down(c) = <<>> /\ toServer[c] = <<>>
BY DEF Idle, Down, Mine

-------------------------------------------------------------------------------
(* The steps of a client. *)

(* Only client c, and what is under way between it and the board, changes. *)
Others(c) ==
  /\ client' \in [Clients -> Connection]
  /\ toServer' \in [Clients -> Seq(Segment)] /\ toClient' \in [Clients -> Seq(Reply)]
  /\ \A d \in Clients \ {c} : /\ client'[d] = client[d] /\ toServer'[d] = toServer[d]
                              /\ toClient'[d] = toClient[d]

(* What client c has under way has been typed, when `lines` have been. *)
Typed(k, up, lines) ==
  /\ k.data \in lines \cup {NoData}
  /\ \A i \in DOMAIN up : up[i].data \in lines \cup {NoData}

LEMMA OwnStep ==
  ASSUME SInv, NEW c \in Clients, entry' = entry, tx' = tx, ran' = ran, losses' = losses,
         typed \subseteq typed', typed' \subseteq Payloads, Others(c),
         NEW down, down = Down(c)',
         Flow(c, client'[c], toServer'[c], down, Range(ran)),
         Typed(client'[c], toServer'[c], typed'),
         losses = 0 =>
           /\ Exact(client'[c], down)
           /\ Serves(c) => InTune(entry, client'[c], toServer'[c], down, Range(ran))
  PROVE  SInv'
<1>1. Kept'
  <2>1. IInv' BY SameInv DEF SInv, Kept, IInv, TypeOK
  <2> QED BY <2>1 DEF SInv, Kept, Others
<1>2. Owned'
  <2>1. Range(ran)' \subseteq typed' BY DEF SInv, Owned
  <2>2. ASSUME NEW d \in Clients PROVE Typed(client'[d], toServer'[d], typed')
    <3>1. CASE d # c
      <4>1. client'[d] = client[d] /\ toServer'[d] = toServer[d] BY <3>1 DEF Others
      <4>2. Typed(client[d], toServer[d], typed) BY DEF SInv, Owned, Typed
      <4> QED BY <4>1, <4>2 DEF Typed
    <3> QED BY <3>1
  <2> QED BY <2>1, <2>2 DEF Owned, Typed
<1>3. ASSUME NEW d \in Clients, d # c
      PROVE  client'[d] = client[d] /\ toServer'[d] = toServer[d] /\ Down(d)' = Down(d)
  BY <1>3, DownSame DEF Others
<1>4. Flows'
  <2>1. ASSUME NEW d \in Clients PROVE Flow(d, client[d], toServer[d], Down(d), Range(ran))'
    <3>1. CASE d # c
      <4>1. Flow(d, client[d], toServer[d], Down(d), Range(ran)) BY DEF SInv, Flows
      <4> QED BY <1>3, <3>1, <4>1
    <3> QED BY <3>1
  <2> QED BY <2>1 DEF Flows
<1>5. Tuned'
  <2>1. SUFFICES ASSUME losses = 0
                 PROVE  /\ IsInjective(ran)'
                        /\ \A d \in Clients :
                             /\ Exact(client[d], Down(d))'
                             /\ Serves(d)' => InTune(entry, client[d], toServer[d], Down(d), Range(ran))'
    BY DEF Tuned
  <2>2. /\ IsInjective(ran)
        /\ \A d \in Clients :
             /\ Exact(client[d], Down(d))
             /\ Serves(d) => InTune(entry, client[d], toServer[d], Down(d), Range(ran))
    BY <2>1 DEF SInv, Tuned
  <2>3. \A d \in Clients : Serves(d)' => Serves(d) BY DEF Serves
  <2>4. ASSUME NEW d \in Clients
        PROVE  /\ Exact(client[d], Down(d))'
               /\ Serves(d)' => InTune(entry, client[d], toServer[d], Down(d), Range(ran))'
    <3>1. CASE d # c BY <1>3, <2>2, <2>3, <3>1
    <3>2. CASE d = c BY <2>1, <2>3, <3>2
    <3> QED BY <3>1, <3>2
  <2> QED BY <2>2, <2>4
<1> QED BY <1>1, <1>2, <1>4, <1>5 DEF SInv

(* What the invariant says of one client. *)
LEMMA ClientInv ==
  ASSUME SInv, NEW c \in Clients
  PROVE  /\ Kept /\ client[c] \in Connection /\ toServer[c] \in Seq(Segment)
         /\ Flow(c, client[c], toServer[c], Down(c), Range(ran))
         /\ Typed(client[c], toServer[c], typed)
         /\ losses = 0 => /\ Exact(client[c], Down(c))
                          /\ Serves(c) => InTune(entry, client[c], toServer[c], Down(c), Range(ran))
BY DEF SInv, Kept, Owned, Flows, Tuned, Typed

LEMMA TypedSend ==
  ASSUME NEW up \in Seq(Segment), NEW k, NEW lines, Typed(k, up, lines), NEW more, lines \subseteq more,
         NEW k2, k2.data \in more \cup {NoData},
         NEW s \in Segment, s.data \in more \cup {NoData}
  PROVE  Typed(k2, Append(up, s), more)
BY AppendPart DEF Typed

LEMMA Starting ==
  ASSUME Kept, NEW c \in Clients, NEW k2 \in Connection, Start(c, k2),
         k2.state = "synsent" => k2.data = NoData
  PROVE  /\ Others(c) /\ Down(c)' = Down(c)
         /\ client'[c] = k2 /\ toServer'[c] = Append(toServer[c], Outstanding(c, k2))
         /\ entry' = entry /\ tx' = tx /\ ran' = ran /\ losses' = losses
         /\ Outstanding(c, k2) \in Segment /\ Outstanding(c, k2).data = k2.data
<1>1. FromClient(c, Outstanding(c, k2)) /\ Outstanding(c, k2).data = k2.data BY OutstandingFrom
<1>2. PICK s : s = Outstanding(c, k2) OBVIOUS
<1>3. s \in Segment BY <1>1, <1>2 DEF FromClient
<1>4. /\ client' = [client EXCEPT ![c] = k2]
      /\ toServer' = [toServer EXCEPT ![c] = Append(@, s)]
      /\ toClient' = toClient /\ tx' = tx
      /\ entry' = entry /\ ran' = ran /\ losses' = losses
  BY <1>2 DEF Start, Become, Send
<1>5. Append(toServer[c], s) \in Seq(Segment) BY <1>3, AppendPart DEF Kept
<1>6. Others(c) /\ client'[c] = k2 /\ toServer'[c] = Append(toServer[c], s)
  BY <1>4, <1>5 DEF Kept, Others
<1>7. Down(c)' = Down(c) BY <1>4, DownSame
<1> QED BY <1>1, <1>2, <1>3, <1>4, <1>6, <1>7

LEMMA ConnectStep ==
  ASSUME SInv, NEW c \in Clients, Connect(c)
  PROVE  SInv'
<1>1. PICK iss \in Iss :
        Start(c, [Closed EXCEPT !.state = "synsent", !.una = iss, !.nxt = Plus(iss, 1)])
  BY DEF Connect
<1>2. PICK k2 : k2 = [Closed EXCEPT !.state = "synsent", !.una = iss, !.nxt = Plus(iss, 1)] OBVIOUS
<1>3. /\ k2 \in Connection /\ k2.state = "synsent" /\ k2.data = NoData /\ k2.nxt = Plus(k2.una, 1)
  <2>1. iss \in SeqNo /\ Plus(iss, 1) \in SeqNo BY SessionAssumption, PlusIsSeqNo
  <2>2. Closed \in Connection /\ Closed.data = NoData BY ClosedConnection
  <2> QED BY <1>2, <2>1, <2>2 DEF Connection
<1>4. Down(c) = <<>> /\ toServer[c] = <<>> /\ typed' = typed /\ client[c].state = "closed"
  BY DownIdle DEF Connect
<1>5. Start(c, k2) BY <1>1, <1>2
<1>6. Kept BY DEF SInv
<1>7. /\ Others(c) /\ Down(c)' = Down(c)
      /\ client'[c] = k2 /\ toServer'[c] = Append(<<>>, Outstanding(c, k2))
      /\ entry' = entry /\ tx' = tx /\ ran' = ran /\ losses' = losses
      /\ Outstanding(c, k2) \in Segment /\ Outstanding(c, k2).data = k2.data
  BY <1>3, <1>4, <1>5, <1>6, Starting
<1>8. Flow(c, client'[c], toServer'[c], <<>>, Range(ran)) BY <1>3, <1>7, ConnectFlow
<1>9. Typed(client'[c], toServer'[c], typed')
  <2>1. Typed(client[c], <<>>, typed) /\ <<>> \in Seq(Segment) BY <1>4, ClientInv
  <2> QED BY <1>3, <1>4, <1>7, <2>1, TypedSend
<1>10. Exact(client'[c], <<>>) BY <1>3, <1>7 DEF Exact, Open
<1>11. losses = 0 => ~Serves(c)
  <2>1. SUFFICES ASSUME losses = 0, Serves(c) PROVE FALSE OBVIOUS
  <2>2. InTune(entry, client[c], <<>>, <<>>, Range(ran)) /\ client[c] \in Connection
    BY <1>4, <2>1, ClientInv
  <2> QED BY <1>4, <2>2, TuneIdle
<1>12. typed \in SUBSET Payloads BY <1>6 DEF Kept
<1> QED BY <1>4, <1>7, <1>8, <1>9, <1>10, <1>11, <1>12, OwnStep

LEMMA TypeStep ==
  ASSUME SInv, NEW c \in Clients, Type(c)
  PROVE  SInv'
<1>1. PICK k, up, down, run : /\ k = client[c] /\ up = toServer[c] /\ down = Down(c)
                              /\ run = Range(ran)
  OBVIOUS
<1>2. /\ Kept /\ k \in Connection /\ up \in Seq(Segment) /\ Flow(c, k, up, down, run)
      /\ Typed(k, up, typed)
      /\ losses = 0 => Exact(k, down) /\ (Serves(c) => InTune(entry, k, up, down, run))
  BY <1>1, ClientInv
<1>3. k.state = "estab" /\ Acknowledged(k) BY <1>1 DEF Type
<1>4. PICK d \in Payloads \ typed :
        /\ Start(c, [k EXCEPT !.data = d, !.nxt = Plus(@, Size[d])])
        /\ typed' = typed \cup {d}
  BY <1>1 DEF Type
<1>5. PICK k2 : k2 = [k EXCEPT !.data = d, !.nxt = Plus(k.nxt, Size[d])] OBVIOUS
<1>6. /\ k2 \in Connection /\ k2.state = "estab" /\ k2.data = d /\ k2.una = k.una
      /\ k2.nxt = Plus(k.nxt, Size[d]) /\ k2.rcv = k.rcv
  <2>1. Size[d] \in Nat BY Tcp4Assumption
  <2>2. Plus(k.nxt, Size[d]) \in SeqNo BY <1>2, <2>1, ConnectionFields, PlusIsSeqNo
  <2> QED BY <1>2, <1>3, <1>5, <2>2 DEF Connection
<1>7. Start(c, k2) BY <1>4, <1>5
<1>8. /\ Others(c) /\ Down(c)' = down
      /\ client'[c] = k2 /\ toServer'[c] = Append(up, Outstanding(c, k2))
      /\ entry' = entry /\ tx' = tx /\ ran' = ran /\ losses' = losses
      /\ Outstanding(c, k2) \in Segment /\ Outstanding(c, k2).data = k2.data
  BY <1>1, <1>2, <1>6, <1>7, Starting
<1>9. Flow(c, client'[c], toServer'[c], down, run) BY <1>2, <1>3, <1>6, <1>8, TypeFlow
<1>10. Typed(client'[c], toServer'[c], typed') BY <1>2, <1>4, <1>6, <1>8, TypedSend
<1>11. None(down, Telling) BY <1>2, <1>3, Settled DEF Open
<1>12. Exact(client'[c], down) BY <1>11 DEF Exact, None
<1>13. d \notin run BY <1>1, <1>4 DEF SInv, Owned
<1>14. losses = 0 /\ Serves(c) => InTune(entry, client'[c], toServer'[c], down, run)
  BY <1>2, <1>3, <1>6, <1>8, <1>13, TuneType
<1>15. typed \subseteq typed' /\ typed' \subseteq Payloads BY <1>2, <1>4 DEF Kept
<1> QED BY <1>1, <1>8, <1>9, <1>10, <1>12, <1>14, <1>15, OwnStep

(* The FIN of a client that has nothing outstanding, with a line or without. *)
LEMMA FinStep ==
  ASSUME SInv, NEW c \in Clients, NEW k, k = client[c], Open(k), Acknowledged(k),
         NEW k2 \in Connection, Start(c, k2), k2.state \in {"finwait", "lastack"},
         k.state = "estab" => k2.state = "finwait",
         typed \subseteq typed', typed' \subseteq Payloads, k2.data \in typed' \cup {NoData}
  PROVE  SInv'
<1>1. PICK up, down, run : up = toServer[c] /\ down = Down(c) /\ run = Range(ran) OBVIOUS
<1>2. /\ Kept /\ k \in Connection /\ up \in Seq(Segment) /\ Flow(c, k, up, down, run)
      /\ Typed(k, up, typed)
      /\ losses = 0 => Exact(k, down) /\ (Serves(c) => InTune(entry, k, up, down, run))
  BY <1>1, ClientInv
<1>3. /\ Others(c) /\ Down(c)' = down
      /\ client'[c] = k2 /\ toServer'[c] = Append(up, Outstanding(c, k2))
      /\ entry' = entry /\ tx' = tx /\ ran' = ran /\ losses' = losses
      /\ Outstanding(c, k2) \in Segment /\ Outstanding(c, k2).data = k2.data
  BY <1>1, <1>2, Starting
<1>4. None(up, Runnable) BY <1>2, Settled
<1>5. Flow(c, client'[c], toServer'[c], down, run) BY <1>2, <1>3, <1>4, FinFlow
<1>6. Typed(client'[c], toServer'[c], typed') BY <1>2, <1>3, TypedSend
<1>7. Exact(client'[c], down) BY <1>3 DEF Exact, Open
<1>8. ASSUME losses = 0, Serves(c) PROVE InTune(entry, client'[c], toServer'[c], down, run)
  <2>1. InTune(entry, k, up, down, run) BY <1>2, <1>8
  <2>2. k.state = "estab" /\ k2.state = "finwait" BY <2>1 DEF InTune, Open
  <2>3. InTune(entry, k2, Append(up, Outstanding(c, k2)), down, run)
    BY <1>2, <2>1, <2>2, TuneFin
  <2> QED BY <1>3, <2>3
<1> QED BY <1>1, <1>3, <1>5, <1>6, <1>7, <1>8, OwnStep

LEMMA TypeLastStep ==
  ASSUME SInv, NEW c \in Clients, TypeLast(c)
  PROVE  SInv'
<1>1. PICK k : k = client[c] OBVIOUS
<1>2. Kept /\ k \in Connection BY <1>1, ClientInv
<1>3. k.state = "estab" /\ Acknowledged(k) /\ Open(k) BY <1>1 DEF TypeLast, Open
<1>4. PICK d \in Payloads \ typed :
        /\ Start(c, [k EXCEPT !.data = d, !.nxt = Plus(@, Size[d] + 1), !.state = "finwait"])
        /\ typed' = typed \cup {d}
  BY <1>1 DEF TypeLast
<1>5. PICK k2 : k2 = [k EXCEPT !.data = d, !.nxt = Plus(k.nxt, Size[d] + 1), !.state = "finwait"]
  OBVIOUS
<1>6. k2 \in Connection /\ k2.state = "finwait" /\ k2.data = d
  <2>1. Size[d] + 1 \in Nat BY Tcp4Assumption
  <2>2. Plus(k.nxt, Size[d] + 1) \in SeqNo BY <1>2, <2>1, ConnectionFields, PlusIsSeqNo
  <2> QED BY <1>2, <1>5, <2>2 DEF Connection
<1>7. Start(c, k2) BY <1>4, <1>5
<1>8. typed \subseteq typed' /\ typed' \subseteq Payloads /\ k2.data \in typed' \cup {NoData}
  BY <1>2, <1>4, <1>6 DEF Kept
<1> QED BY <1>1, <1>3, <1>6, <1>7, <1>8, FinStep

LEMMA CloseStep ==
  ASSUME SInv, NEW c \in Clients, Close(c)
  PROVE  SInv'
<1>1. PICK k : k = client[c] OBVIOUS
<1>2. Kept /\ k \in Connection /\ Typed(k, toServer[c], typed) BY <1>1, ClientInv
<1>3. Open(k) /\ Acknowledged(k) /\ typed' = typed BY <1>1 DEF Close, Open
<1>4. PICK k2 : k2 = [k EXCEPT !.nxt = Plus(k.nxt, 1),
                        !.state = IF k.state = "estab" THEN "finwait" ELSE "lastack"]
  OBVIOUS
<1>5. /\ k2 \in Connection /\ k2.state \in {"finwait", "lastack"} /\ k2.data = k.data
      /\ k.state = "estab" => k2.state = "finwait"
  <2>1. Plus(k.nxt, 1) \in SeqNo BY <1>2, ConnectionFields, PlusIsSeqNo
  <2> QED BY <1>2, <1>4, <2>1 DEF Connection
<1>6. Start(c, k2) BY <1>1, <1>4 DEF Close
<1>7. typed \subseteq typed' /\ typed' \subseteq Payloads /\ k2.data \in typed' \cup {NoData}
  BY <1>2, <1>3, <1>5 DEF Kept, Typed
<1> QED BY <1>1, <1>3, <1>5, <1>6, <1>7, FinStep

LEMMA RetransmitStep ==
  ASSUME SInv, NEW c \in Clients, Retransmit(c)
  PROVE  SInv'
<1>1. PICK k, run : k = client[c] /\ run = Range(ran) OBVIOUS
<1>2. Down(c) = <<>> /\ toServer[c] = <<>> /\ typed' = typed /\ Start(c, k)
  BY <1>1, DownIdle DEF Retransmit
<1>3. /\ Kept /\ k \in Connection /\ <<>> \in Seq(Segment) /\ Flow(c, k, <<>>, <<>>, run)
      /\ Typed(k, <<>>, typed)
      /\ losses = 0 => Exact(k, <<>>) /\ (Serves(c) => InTune(entry, k, <<>>, <<>>, run))
  BY <1>1, <1>2, ClientInv
<1>4. k.state = "synsent" => k.data = NoData BY <1>3 DEF Flow, Line
<1>5. /\ Others(c) /\ Down(c)' = <<>>
      /\ client'[c] = k /\ toServer'[c] = Append(<<>>, Outstanding(c, k))
      /\ entry' = entry /\ tx' = tx /\ ran' = ran /\ losses' = losses
      /\ Outstanding(c, k) \in Segment /\ Outstanding(c, k).data = k.data
  BY <1>2, <1>3, <1>4, Starting
<1>6. Flow(c, client'[c], toServer'[c], <<>>, run) BY <1>3, <1>5, AgainFlow
<1>7. Typed(client'[c], toServer'[c], typed')
  <2>1. k.data \in typed \cup {NoData} BY <1>3 DEF Typed
  <2> QED BY <1>2, <1>3, <1>5, <2>1, TypedSend
<1>8. losses = 0 => /\ Exact(client'[c], <<>>)
                    /\ Serves(c) => InTune(entry, client'[c], toServer'[c], <<>>, run)
  BY <1>3, <1>5, TuneIdle
<1>9. typed \subseteq typed' /\ typed' \subseteq Payloads BY <1>2, <1>3 DEF Kept
<1> QED BY <1>1, <1>5, <1>6, <1>7, <1>8, <1>9, OwnStep

LEMMA AbortStep ==
  ASSUME SInv, NEW c \in Clients, Abort(c)
  PROVE  SInv'
<1>1. PICK k, up, down, run, s : /\ k = client[c] /\ up = toServer[c] /\ down = Down(c)
                                 /\ run = Range(ran) /\ s = Reset(c, k.nxt)
  OBVIOUS
<1>2. /\ Kept /\ k \in Connection /\ up \in Seq(Segment) /\ Flow(c, k, up, down, run)
      /\ Typed(k, up, typed)
      /\ losses = 0 => Exact(k, down) /\ (Serves(c) => InTune(entry, k, up, down, run))
  BY <1>1, ClientInv
<1>3. Open(k) /\ k.state # "synsent" BY <1>1 DEF Abort, Open
<1>4. FromClient(c, s) /\ s.flags = {"rst"} /\ s.data = NoData /\ s \notin Runnable /\ s \in Segment
  BY <1>1, <1>2, ConnectionFields, ResetFrom DEF FromClient
<1>5. /\ client' = [client EXCEPT ![c] = Closed]
      /\ toServer' = [toServer EXCEPT ![c] = Append(@, s)]
      /\ toClient' = toClient /\ entry' = entry /\ tx' = tx /\ ran' = ran /\ losses' = losses
      /\ typed' = typed
  BY <1>1 DEF Abort, Become, Send
<1>6. Append(up, s) \in Seq(Segment) BY <1>2, <1>4, AppendPart
<1>7. Others(c) /\ client'[c] = Closed /\ toServer'[c] = Append(up, s)
  BY <1>1, <1>2, <1>5, <1>6, ClosedConnection DEF Kept, Others
<1>8. Down(c)' = down BY <1>1, <1>5, DownSame
<1>9. Flow(c, Closed, Append(up, s), down, run)
  <2>1. Flow(c, Closed, up, down, run) BY <1>2, <1>3, DoneFlow
  <2>2. Harmless(c, Closed, s)
    <3>1. "syn" \notin s.flags BY <1>4
    <3> QED BY <1>4, <3>1, ClosedConnection DEF Harmless, Open
  <2> QED BY <2>1, <2>2, ClosedConnection, HarmlessFlow
<1>10. Typed(Closed, Append(up, s), typed) BY <1>2, <1>4, ClosedConnection, TypedSend
<1>11. Exact(Closed, down) BY ClosedConnection DEF Exact, Open
<1>12. losses = 0 /\ Serves(c) => InTune(entry, Closed, Append(up, s), down, run)
  BY <1>2, <1>4, TuneAbort
<1>13. typed \subseteq typed' /\ typed' \subseteq Payloads BY <1>2, <1>5 DEF Kept
<1> QED BY <1>1, <1>5, <1>7, <1>8, <1>9, <1>10, <1>11, <1>12, <1>13, OwnStep

LEMMA GiveUpStep ==
  ASSUME SInv, NEW c \in Clients, GiveUp(c)
  PROVE  SInv'
<1>1. PICK k, run : k = client[c] /\ run = Range(ran) OBVIOUS
<1>2. Down(c) = <<>> /\ toServer[c] = <<>> /\ k.state = "finwait" BY <1>1, DownIdle DEF GiveUp
<1>3. /\ Kept /\ k \in Connection /\ <<>> \in Seq(Segment) /\ Flow(c, k, <<>>, <<>>, run)
      /\ Typed(k, <<>>, typed)
      /\ losses = 0 => Exact(k, <<>>) /\ (Serves(c) => InTune(entry, k, <<>>, <<>>, run))
  BY <1>1, <1>2, ClientInv
<1>4. /\ client' = [client EXCEPT ![c] = Closed] /\ toServer' = toServer /\ toClient' = toClient
      /\ entry' = entry /\ tx' = tx /\ ran' = ran /\ losses' = losses /\ typed' = typed
  BY DEF GiveUp, Become, wire
<1>5. Others(c) /\ client'[c] = Closed /\ toServer'[c] = <<>>
  BY <1>2, <1>3, <1>4, ClosedConnection DEF Kept, Others
<1>6. Down(c)' = <<>> BY <1>2, <1>4, DownSame
<1>7. Flow(c, Closed, <<>>, <<>>, run) BY <1>2, <1>3, DoneFlow
<1>8. Typed(Closed, <<>>, typed) BY <1>3, ClosedConnection DEF Typed
<1>9. Exact(Closed, <<>>) BY ClosedConnection DEF Exact, Open
<1>10. losses = 0 => ~Serves(c) BY <1>2, <1>3, TuneIdle
<1>11. typed \subseteq typed' /\ typed' \subseteq Payloads BY <1>3, <1>4 DEF Kept
<1> QED BY <1>1, <1>4, <1>5, <1>6, <1>7, <1>8, <1>9, <1>10, <1>11, OwnStep

LEMMA HeardTyped ==
  ASSUME NEW c \in Clients, NEW k \in Connection, NEW up \in Seq(Segment), NEW lines,
         Typed(k, up, lines),
         NEW r, NEW k2, NEW up2, Heard(c, k, r, k2, up, up2)
  PROVE  Typed(k2, up2, lines) /\ k2 \in Connection /\ up2 \in Seq(Segment)
<1>1. k2 \in Connection /\ k2.data \in {k.data, NoData} /\ k2.data \in lines \cup {NoData}
  BY DEF Heard, Typed
<1>2. CASE up2 = up BY <1>1, <1>2 DEF Typed
<1>3. CASE up2 # up
  <2>1. PICK s \in Segment : s.data \in lines \cup {NoData} /\ up2 = Append(up, s)
    <3>1. CASE Replied(c, k2, up, up2) BY <1>3, <3>1 DEF Replied, Harmless, FromClient
    <3>2. CASE k2.state = "lastack" /\ up2 = Append(up, Outstanding(c, k2))
      <4>1. FromClient(c, Outstanding(c, k2)) /\ Outstanding(c, k2).data = k2.data
        BY <1>1, <3>2, OutstandingFrom
      <4> QED BY <1>1, <3>2, <4>1 DEF FromClient
    <3> QED BY <3>1, <3>2 DEF Heard
  <2>2. Typed(k2, Append(up, s), lines) BY <1>1, <2>1, TypedSend
  <2> QED BY <1>1, <2>1, <2>2, AppendPart
<1> QED BY <1>2, <1>3

LEMMA HearStep ==
  ASSUME SInv, NEW c \in Clients, Hear(c)
  PROVE  SInv'
<1>1. PICK k, up, down, run : /\ k = client[c] /\ up = toServer[c] /\ down = Down(c)
                              /\ run = Range(ran)
  OBVIOUS
<1>2. /\ Kept /\ k \in Connection /\ up \in Seq(Segment) /\ Flow(c, k, up, down, run)
      /\ Typed(k, up, typed)
      /\ losses = 0 => Exact(k, down) /\ (Serves(c) => InTune(entry, k, up, down, run))
  BY <1>1, ClientInv
<1>3. /\ toClient[c] # <<>> /\ toClient' = [toClient EXCEPT ![c] = Tail(@)]
      /\ entry' = entry /\ tx' = tx /\ ran' = ran /\ losses' = losses /\ typed' = typed
  BY DEF Hear
<1>4. toClient[c] \in Seq(Reply) /\ Tail(toClient[c]) \in Seq(Reply) BY <1>2, <1>3, DownType, TailPart
<1>5. toClient'[c] = Tail(toClient[c]) /\ toClient' \in [Clients -> Seq(Reply)]
  BY <1>2, <1>3, <1>4 DEF Kept
<1>6. down # <<>> /\ Head(down) = Head(toClient[c]) /\ Down(c)' = Tail(down)
  BY <1>1, <1>2, <1>3, <1>5, DownTail
<1>7. Heard(c, k, Head(down), client'[c], up, toServer'[c])
  BY <1>1, <1>2, <1>6, HearWays
<1>8. PICK k2, up2 : k2 = client'[c] /\ up2 = toServer'[c] OBVIOUS
<1>9. Typed(k2, up2, typed) /\ k2 \in Connection /\ up2 \in Seq(Segment)
  BY <1>2, <1>7, <1>8, HeardTyped
<1>10. Others(c)
  <2>1. \E x : client' = [client EXCEPT ![c] = x]
    BY DEF Hear, HearClosed, HearSynSent, HearReset, HearUnacceptable, HearAhead, HearInOrder,
       HearFin, Answering, Quietly, Become
  <2>2. toServer' = toServer \/ \E x : toServer' = [toServer EXCEPT ![c] = x]
    BY DEF Hear, HearClosed, HearSynSent, HearReset, HearUnacceptable, HearAhead, HearInOrder,
       HearFin, Answering, Quietly, Send
  <2>3. client' \in [Clients -> Connection] /\ \A d \in Clients \ {c} : client'[d] = client[d]
    BY <1>2, <1>8, <1>9, <2>1 DEF Kept
  <2>4. toServer' \in [Clients -> Seq(Segment)] /\ \A d \in Clients \ {c} : toServer'[d] = toServer[d]
    BY <1>2, <1>8, <1>9, <2>2 DEF Kept
  <2> QED BY <1>3, <1>5, <2>3, <2>4 DEF Others, Kept
<1>11. Flow(c, k2, up2, Tail(down), run) BY <1>2, <1>6, <1>7, <1>8, HeardFlow
<1>12. losses = 0 => Exact(k2, Tail(down)) BY <1>2, <1>6, <1>7, <1>8, HeardExact
<1>13. losses = 0 /\ Serves(c) => InTune(entry, k2, up2, Tail(down), run)
  BY <1>1, <1>2, <1>6, <1>8, TuneHear
<1>14. typed \subseteq typed' /\ typed' \subseteq Payloads BY <1>2, <1>3 DEF Kept
<1> QED BY <1>1, <1>3, <1>6, <1>8, <1>9, <1>10, <1>11, <1>12, <1>13, <1>14, OwnStep

-------------------------------------------------------------------------------
(* The steps of the wire. *)

(* Segments and replies get lost, or are forgotten, and nothing else changes *)
(* but the entry and the reply of the board.                                 *)
LEMMA LessStep ==
  ASSUME SInv, IInv', client' = client, typed' = typed, ran' = ran, losses' \in Nat,
         toServer' \in [Clients -> Seq(Segment)], toClient' \in [Clients -> Seq(Reply)],
         \A c \in Clients : /\ Part(toServer'[c], toServer[c])
                            /\ Down(c)' \in Seq(Reply) /\ Part(Down(c)', Down(c)),
         Tuned'
  PROVE  SInv'
<1>1. Kept' BY DEF SInv, Kept
<1>2. Owned'
  <2>1. ASSUME NEW c \in Clients PROVE Typed(client[c], toServer'[c], typed)
    <3>1. Typed(client[c], toServer[c], typed) BY ClientInv
    <3> QED BY <3>1 DEF Typed, Part
  <2> QED BY <2>1 DEF SInv, Owned, Typed
<1>3. Flows'
  <2>1. ASSUME NEW c \in Clients PROVE Flow(c, client[c], toServer[c], Down(c), Range(ran))'
    <3>1. Flow(c, client[c], toServer[c], Down(c), Range(ran)) BY ClientInv
    <3>2. PICK up2, down2 : up2 = toServer'[c] /\ down2 = Down(c)' OBVIOUS
    <3>3. /\ up2 \in Seq(Segment) /\ Part(up2, toServer[c])
          /\ down2 \in Seq(Reply) /\ Part(down2, Down(c))
      BY <3>2
    <3>4. Flow(c, client[c], up2, down2, Range(ran)) BY <3>1, <3>3, FlowLess
    <3> QED BY <3>2, <3>4
  <2> QED BY <2>1 DEF Flows
<1> QED BY <1>1, <1>2, <1>3 DEF SInv

LEMMA LoseToServerStep ==
  ASSUME SInv, NEW c \in Clients, LoseToServer(c)
  PROVE  SInv'
<1>1. /\ Kept /\ toServer[c] # <<>> /\ toServer' = [toServer EXCEPT ![c] = Tail(@)]
      /\ losses' = losses + 1 /\ losses \in Nat
      /\ entry' = entry /\ tx' = tx /\ client' = client /\ toClient' = toClient
      /\ typed' = typed /\ ran' = ran
  BY DEF LoseToServer, SInv, Kept
<1>2. losses' \in Nat /\ losses' # 0 BY <1>1
<1>3. toServer[c] \in Seq(Segment) /\ Tail(toServer[c]) \in Seq(Segment)
      /\ Part(Tail(toServer[c]), toServer[c])
  BY <1>1, ClientInv, TailPart
<1>4. IInv' BY <1>1, SameInv DEF Kept, IInv, TypeOK
<1>5. toServer' \in [Clients -> Seq(Segment)] BY <1>1, <1>3 DEF Kept
<1>6. ASSUME NEW d \in Clients
      PROVE  /\ Part(toServer'[d], toServer[d])
             /\ Down(d)' \in Seq(Reply) /\ Part(Down(d)', Down(d))
  <2>1. Down(d)' = Down(d) /\ Down(d) \in Seq(Reply) BY <1>1, DownSame, DownType
  <2>2. Part(Down(d), Down(d)) BY <2>1, WholePart
  <2>3. Part(toServer[d], toServer[d]) BY ClientInv, WholePart
  <2>4. toServer'[d] = IF d = c THEN Tail(toServer[c]) ELSE toServer[d] BY <1>1 DEF Kept
  <2> QED BY <1>3, <2>1, <2>2, <2>3, <2>4
<1>7. Tuned' BY <1>2 DEF Tuned
<1>8. toClient' \in [Clients -> Seq(Reply)] BY <1>1 DEF Kept
<1> QED BY <1>1, <1>2, <1>4, <1>5, <1>6, <1>7, <1>8, LessStep

LEMMA LoseToClientStep ==
  ASSUME SInv, NEW c \in Clients, LoseToClient(c)
  PROVE  SInv'
<1>1. /\ Kept /\ toClient[c] # <<>> /\ toClient' = [toClient EXCEPT ![c] = Tail(@)]
      /\ losses' = losses + 1 /\ losses \in Nat
      /\ entry' = entry /\ tx' = tx /\ client' = client /\ toServer' = toServer
      /\ typed' = typed /\ ran' = ran
  BY DEF LoseToClient, SInv, Kept
<1>2. losses' \in Nat /\ losses' # 0 BY <1>1
<1>3. toClient[c] \in Seq(Reply) /\ Tail(toClient[c]) \in Seq(Reply)
  BY <1>1, DownType, TailPart
<1>4. IInv' BY <1>1, SameInv DEF Kept, IInv, TypeOK
<1>5. toClient' \in [Clients -> Seq(Reply)] BY <1>1, <1>3 DEF Kept
<1>6. ASSUME NEW d \in Clients
      PROVE  /\ Part(toServer'[d], toServer[d])
             /\ Down(d)' \in Seq(Reply) /\ Part(Down(d)', Down(d))
  <2>1. Part(toServer[d], toServer[d]) BY ClientInv, WholePart
  <2>2. Down(d) \in Seq(Reply) BY <1>1, DownType
  <2>3. CASE d = c
    <3>1. toClient'[c] = Tail(toClient[c]) BY <1>1 DEF Kept
    <3>2. Down(c) # <<>> /\ Down(c)' = Tail(Down(c)) BY <1>1, <3>1, DownTail
    <3> QED BY <1>1, <2>1, <2>2, <2>3, <3>2, TailPart
  <2>4. CASE d # c
    <3>1. toClient'[d] = toClient[d] BY <1>1, <2>4 DEF Kept
    <3>2. Down(d)' = Down(d) BY <1>1, <3>1, DownSame
    <3> QED BY <1>1, <2>1, <2>2, <3>2, WholePart
  <2> QED BY <2>3, <2>4
<1>7. Tuned' BY <1>2 DEF Tuned
<1>8. toServer' \in [Clients -> Seq(Segment)] BY <1>1 DEF Kept
<1> QED BY <1>1, <1>2, <1>4, <1>5, <1>6, <1>7, <1>8, LessStep

LEMMA DeliverStep ==
  ASSUME SInv, Deliver
  PROVE  SInv'
<1>1. /\ Kept /\ tx # NoReply /\ tx' = NoReply
      /\ toClient' = [toClient EXCEPT ![<<tx.host, tx.port>>] = Append(@, tx)]
      /\ entry' = entry /\ client' = client /\ toServer' = toServer
      /\ typed' = typed /\ ran' = ran /\ losses' = losses
  BY DEF Deliver, Transmit, SInv
<1>2. IInv' BY <1>1, SameInv DEF Kept
<1>3. toClient' \in [Clients -> Seq(Reply)]
  <2>1. tx \in Reply BY <1>1 DEF Kept, IInv, TypeOK
  <2>2. <<tx.host, tx.port>> \in Clients BY <2>1 DEF Reply, Clients
  <2>3. PICK d \in Clients : d = <<tx.host, tx.port>> BY <2>2
  <2>4. Append(toClient[d], tx) \in Seq(Reply) BY <2>1, AppendPart, <1>1 DEF Kept
  <2> QED BY <1>1, <2>3, <2>4 DEF Kept
<1>4. ASSUME NEW d \in Clients
      PROVE  /\ Part(toServer'[d], toServer[d]) /\ Down(d)' = Down(d)
             /\ Down(d)' \in Seq(Reply) /\ Part(Down(d)', Down(d))
  <2>1. Down(d)' = Down(d) /\ Down(d) \in Seq(Reply) BY <1>1, DownDeliver, DownType
  <2>2. Part(Down(d), Down(d)) BY <2>1, WholePart
  <2>3. Part(toServer[d], toServer[d]) BY ClientInv, WholePart
  <2> QED BY <1>1, <2>1, <2>2, <2>3
<1>5. Tuned'
  <2>1. \A d \in Clients : Serves(d)' <=> Serves(d) BY <1>1 DEF Serves
  <2> QED BY <1>1, <1>4, <2>1 DEF SInv, Tuned
<1>6. losses' \in Nat /\ toServer' \in [Clients -> Seq(Segment)] BY <1>1 DEF Kept
<1> QED BY <1>1, <1>2, <1>3, <1>4, <1>5, <1>6, LessStep

LEMMA RebootStep ==
  ASSUME SInv, Reboot
  PROVE  SInv'
<1>1. /\ Kept /\ entry' = Listening /\ tx' = NoReply /\ client' = client
      /\ toServer' = toServer /\ toClient' = toClient
      /\ typed' = typed /\ ran' = ran /\ losses' = losses
  BY DEF Reboot, wire, SInv
<1>2. IInv' BY <1>1, BlankInv
<1>3. ASSUME NEW d \in Clients
      PROVE  /\ Part(toServer'[d], toServer[d])
             /\ Down(d)' \in Seq(Reply) /\ Part(Down(d)', Down(d))
  <2>1. Down(d)' \in Seq(Reply) /\ Part(Down(d)', Down(d)) BY <1>1, DownReboot
  <2>2. Part(toServer[d], toServer[d]) BY ClientInv, WholePart
  <2> QED BY <1>1, <2>1, <2>2
<1>4. Tuned'
  <2>1. \A d \in Clients : ~Serves(d)' BY <1>1 DEF Serves, Listening
  <2>2. ASSUME losses = 0, NEW d \in Clients PROVE Exact(client[d], Down(d))'
    <3>1. Exact(client[d], Down(d)) BY <2>2, ClientInv
    <3>2. PICK down2 : down2 = Down(d)' OBVIOUS
    <3>3. Exact(client[d], down2) BY <1>3, <3>1, <3>2, ExactLess
    <3> QED BY <1>1, <3>2, <3>3
  <2> QED BY <1>1, <2>1, <2>2 DEF SInv, Tuned
<1>5. /\ losses' \in Nat /\ toServer' \in [Clients -> Seq(Segment)]
      /\ toClient' \in [Clients -> Seq(Reply)]
  BY <1>1 DEF Kept
<1> QED BY <1>1, <1>2, <1>3, <1>4, <1>5, LessStep

-------------------------------------------------------------------------------
(* The board receives. *)

LEMMA AppendRange ==
  ASSUME NEW S, NEW q \in Seq(S), NEW x \in S
  PROVE  /\ Range(Append(q, x)) = Range(q) \cup {x}
         /\ x \notin Range(q) /\ IsInjective(q) => IsInjective(Append(q, x))
<1> DEFINE a == Append(q, x)
           last == Len(q) + 1
<1>1. /\ \A i \in DOMAIN q : i \in DOMAIN a /\ a[i] = q[i]
      /\ \A i \in DOMAIN a : i \in DOMAIN q \/ i = last
      /\ last \in DOMAIN a /\ a[last] = x
  BY AppendPart
<1> HIDE DEF a, last
<1>2. Range(a) = Range(q) \cup {x} BY <1>1 DEF Range
<1>3. ASSUME x \notin Range(q), IsInjective(q) PROVE IsInjective(a)
  <2>1. \A i \in DOMAIN q : q[i] # x BY <1>3 DEF Range
  <2>2. ASSUME NEW i \in DOMAIN a, NEW j \in DOMAIN a, a[i] = a[j] PROVE i = j
    <3>1. CASE i \in DOMAIN q /\ j \in DOMAIN q BY <1>1, <1>3, <2>2, <3>1 DEF IsInjective
    <3>2. CASE i = last \/ j = last BY <1>1, <2>1, <2>2, <3>2
    <3> QED BY <1>1, <3>1, <3>2
  <2> QED BY <2>2 DEF IsInjective
<1> QED BY <1>2, <1>3 DEF a

(* What the board says that is no refusal, to a client that does not ask for *)
(* anything but to be heard: that it has run the line.                       *)
LEMMA TakeTold ==
  ASSUME IInv, NEW c \in Clients, NEW x, FromClient(c, x), x.flags = {"ack"}, process_tcp4(x),
         tx' \in Telling
  PROVE  /\ x.data # NoData /\ ConnectedAck(x) /\ Serves(c)
         /\ tx'.ack = Plus(x.seq, Size[x.data]) /\ tx'.seq = entry.lseq /\ "syn" \notin tx'.flags
<1>1. tx' # NoReply /\ "rst" \notin tx'.flags BY NoReplyAssumption DEF Telling
<1>2. tx' # Rst(x)
  <2>1. "rst" \in Rst(x).flags BY DEF Rst
  <2> QED BY <1>1, <2>1
<1>3. entry \in Entry BY DEF IInv, TypeOK
<1>4. Received(x).rseq = Plus(x.seq, Size[x.data]) /\ Received(x).lseq = entry.lseq
  BY <1>3 DEF Received, Entry
<1>5. CASE \E n \in Nat : tx' = Numbered(Received(x), x, {"ack"}, n)
  <2>1. /\ tx'.ack = Received(x).rseq /\ tx'.seq = Received(x).lseq /\ tx'.flags = {"ack"}
    BY <1>5 DEF Numbered
  <2>2. x.data # NoData /\ ConnectedAck(x) /\ Serves(c) BY <1>1, <1>2, TakeAck
  <2> QED BY <1>4, <2>1, <2>2
<1>6. CASE tx' = FinAck([Received(x) EXCEPT !.state = "close"], x)
  <2>1. [Received(x) EXCEPT !.state = "close"].rseq = Received(x).rseq
        /\ [Received(x) EXCEPT !.state = "close"].lseq = Received(x).lseq
    BY <1>3 DEF Received, Entry
  <2>2. /\ tx'.ack = Received(x).rseq /\ tx'.seq = Received(x).lseq /\ tx'.flags = {"fin", "ack"}
    BY <1>6, <2>1 DEF FinAck, Numbered
  <2>3. x.data # NoData /\ ConnectedAck(x) /\ Serves(c) BY <1>1, <1>2, TakeAck
  <2> QED BY <1>4, <2>2, <2>3
<1> QED BY <1>1, <1>2, <1>5, <1>6, TakeAck

(* The client that is served afterwards, while nothing is lost. *)
LEMMA ReceiveTuned ==
  ASSUME SInv, NEW c \in Clients, Receive(c), losses = 0, Serves(c)'
  PROVE  InTune(entry', client[c], Tail(toServer[c]), Down(c)', Range(ran)')
<1>1. PICK k, up, down, run, x : /\ k = client[c] /\ up = toServer[c] /\ down = Down(c)
                                 /\ run = Range(ran) /\ x = Head(up)
  OBVIOUS
<1>2. /\ IInv /\ Flow(c, k, up, down, run) /\ Typed(k, up, typed)
      /\ Serves(c) => InTune(entry, k, up, down, run)
  BY <1>1, ClientInv DEF Kept
<1>3. /\ up # <<>> /\ process_tcp4(x) /\ toClient' = toClient
      /\ ran' = IF ConnectedAck(x) /\ x.data # NoData THEN Append(ran, x.data) ELSE ran
  BY <1>1 DEF Receive
<1>4. FromClient(c, x) /\ x \in Segment BY <1>1, <1>2, <1>3, TakenRest
<1>5. tx = NoReply /\ (tx' = NoReply \/ (tx' \in Reply /\ <<tx'.host, tx'.port>> = c))
  BY <1>2, <1>3, <1>4, TakeReply
<1>6. /\ tx' = NoReply => Down(c)' = down
      /\ tx' # NoReply => Down(c)' = Append(down, tx')
  BY <1>1, <1>3, <1>5, DownReceive
<1>7. entry'.state = "connected" BY DEF Serves
<1>8. PICK r, e2 : r = tx' /\ e2 = entry' OBVIOUS
<1>9. CASE x.flags = {"ack"} /\ entry' = entry /\ tx' = NoReply /\ x.data = NoData /\ Serves(c)
  <2>1. InTune(entry, k, Tail(up), down, run) BY <1>1, <1>2, <1>3, <1>9, TuneAck
  <2> QED BY <1>1, <1>3, <1>6, <1>9, <2>1
<1>10. CASE /\ x.flags = {"ack"} /\ x.data # NoData /\ ConnectedAck(x) /\ Serves(c)
            /\ \E n \in Nat : /\ tx' = Numbered(Received(x), x, {"ack"}, n)
                              /\ entry' = [Received(x) EXCEPT !.lseq = Plus(Received(x).lseq, n)]
  <2>1. PICK n \in Nat : /\ r = Numbered(Received(x), x, {"ack"}, n)
                         /\ e2 = [Received(x) EXCEPT !.lseq = Plus(Received(x).lseq, n)]
    BY <1>8, <1>10
  <2>2. entry \in Entry /\ Received(x) \in Entry
    BY <1>2, <1>4, <1>10, ReceivedIsEntry DEF IInv, TypeOK
  <2>3. Received(x).rseq = Plus(x.seq, Size[x.data]) /\ Received(x).lseq = entry.lseq
    BY <2>2 DEF Received, Entry
  <2>4. e2.rseq = Plus(x.seq, Size[x.data]) /\ e2.lseq = Plus(entry.lseq, n)
    BY <2>1, <2>2, <2>3 DEF Entry
  <2>5. r.len = n /\ r.flags = {"ack"} BY <2>1 DEF Numbered
  <2>6. {"ack"} \in SUBSET Flag BY DEF Flag
  <2>7. r \in Reply BY <1>4, <2>1, <2>2, <2>6, NumberedIsReply
  <2>8. r # NoReply BY <2>7, NoReplyAssumption
  <2>9. PICK e : e = entry OBVIOUS
  <2>10. InTune(e2, k, Tail(up), Append(down, r), run \cup {x.data})
    BY <1>1, <1>2, <1>3, <1>10, <2>4, <2>5, <2>7, <2>9, TuneData
  <2>11. Range(ran)' = run \cup {x.data}
    <3>1. ran \in Seq(Payloads) /\ x.data \in Payloads
      BY <1>4, <1>10, SegmentFields DEF SInv, Kept
    <3>2. Range(Append(ran, x.data)) = run \cup {x.data} BY <1>1, <3>1, AppendRange
    <3> QED BY <1>3, <1>10, <3>2
  <2> QED BY <1>1, <1>6, <1>8, <2>8, <2>10, <2>11
<1>11. CASE x.flags # {"ack"}
  <2>1. x.flags = {"syn"} /\ ~ConnectedAck(x) BY <1>2, <1>3, <1>4, <1>11, TakeOther
  <2>2. ~Serves(c)
    <3>1. SUFFICES ASSUME Serves(c) PROVE FALSE OBVIOUS
    <3>2. 1 \in DOMAIN up /\ up[1] = x BY <1>1, <1>2, <1>3, TakenRest
    <3>3. "syn" \in up[1].flags BY <2>1, <3>2
    <3>4. k.state = "synsent" BY <1>2, <3>2, <3>3 DEF Flow, Attempt
    <3> QED BY <1>2, <1>3, <3>1, <3>4 DEF InTune
  <2>3. /\ r \in Reply /\ r.flags = {"syn", "ack"} /\ r.ack = Plus(x.seq, 1)
        /\ e2.rseq = Plus(x.seq, 1) /\ e2.lseq = Plus(r.seq, 1)
    BY <1>2, <1>3, <1>4, <1>8, <1>11, <2>2, TakeOther
  <2>4. InTune(e2, k, Tail(up), Append(down, r), run)
    BY <1>1, <1>2, <1>3, <2>1, <2>3, TuneSyn
  <2>5. r # NoReply BY <2>3, NoReplyAssumption
  <2>6. Range(ran)' = run BY <1>1, <1>3, <2>1
  <2> QED BY <1>1, <1>6, <1>8, <2>4, <2>5, <2>6
<1> QED BY <1>2, <1>3, <1>4, <1>7, <1>9, <1>10, <1>11, TakeAck

LEMMA ReceiveStep ==
  ASSUME SInv, NEW c \in Clients, Receive(c)
  PROVE  SInv'
<1>1. PICK k, up, down, run, x : /\ k = client[c] /\ up = toServer[c] /\ down = Down(c)
                                 /\ run = Range(ran) /\ x = Head(up)
  OBVIOUS
<1>2. /\ Kept /\ IInv /\ k \in Connection /\ up \in Seq(Segment)
      /\ Flow(c, k, up, down, run) /\ Typed(k, up, typed)
      /\ losses = 0 => Exact(k, down) /\ (Serves(c) => InTune(entry, k, up, down, run))
  BY <1>1, ClientInv DEF Kept
<1>3. /\ up # <<>> /\ process_tcp4(x) /\ toClient' = toClient
      /\ toServer' = [toServer EXCEPT ![c] = Tail(@)]
      /\ ran' = IF ConnectedAck(x) /\ x.data # NoData THEN Append(ran, x.data) ELSE ran
      /\ client' = client /\ typed' = typed /\ losses' = losses
  BY <1>1 DEF Receive
<1>4. /\ FromClient(c, x) /\ x \in Segment /\ Tail(up) \in Seq(Segment)
      /\ 1 \in DOMAIN up /\ up[1] = x /\ down \in Seq(Reply)
      /\ \A i \in DOMAIN Tail(up) : i + 1 \in DOMAIN up /\ Tail(up)[i] = up[i + 1]
  BY <1>1, <1>2, <1>3, TakenRest
<1>5. /\ tx = NoReply /\ IInv' /\ (tx' = NoReply \/ (tx' \in Reply /\ <<tx'.host, tx'.port>> = c))
  BY <1>2, <1>3, <1>4, TakeReply
<1>6. \A d \in Clients : /\ d # c \/ tx' = NoReply => Down(d)' = Down(d)
                         /\ tx' # NoReply => Down(c)' = Append(Down(c), tx')
  BY <1>3, <1>5, DownReceive
<1>7. /\ toServer' \in [Clients -> Seq(Segment)] /\ toServer'[c] = Tail(up)
      /\ \A d \in Clients \ {c} : toServer'[d] = toServer[d]
  BY <1>1, <1>2, <1>3, <1>4 DEF Kept
<1>8. x.data \in typed \cup {NoData} BY <1>2, <1>4 DEF Typed
<1>9. /\ ran' \in Seq(Payloads) /\ run \subseteq Range(ran)' /\ Range(ran)' \subseteq typed
      /\ ConnectedAck(x) /\ x.data # NoData => x.data \in Range(ran)'
  <2>1. ran \in Seq(Payloads) /\ run \subseteq typed BY <1>1, <1>2 DEF Kept, SInv, Owned
  <2>2. CASE ConnectedAck(x) /\ x.data # NoData
    <3>1. x.data \in Payloads BY <1>4, <2>2, SegmentFields
    <3>2. Append(ran, x.data) \in Seq(Payloads) BY <2>1, <3>1, AppendPart
    <3>3. Range(Append(ran, x.data)) = run \cup {x.data} BY <1>1, <2>1, <3>1, AppendRange
    <3> QED BY <1>3, <1>8, <2>1, <2>2, <3>2, <3>3
  <2>3. CASE ~(ConnectedAck(x) /\ x.data # NoData)
    <3>1. ran' = ran BY <1>3, <2>3
    <3> QED BY <1>1, <2>1, <2>3, <3>1
  <2> QED BY <2>2, <2>3
<1>10. Kept' BY <1>2, <1>3, <1>5, <1>7, <1>9 DEF Kept
<1>11. Owned'
  <2>1. ASSUME NEW d \in Clients PROVE Typed(client[d], toServer'[d], typed)
    <3>1. Typed(client[d], toServer[d], typed) BY ClientInv
    <3>2. CASE d = c
      <4>1. PICK rest : rest = Tail(up) OBVIOUS
      <4>2. \A i \in DOMAIN rest : i + 1 \in DOMAIN up /\ rest[i] = up[i + 1] BY <1>4, <4>1
      <4>3. Typed(k, rest, typed) BY <1>2, <4>2 DEF Typed
      <4> QED BY <1>1, <1>7, <3>2, <4>1, <4>3
    <3> QED BY <1>7, <3>1, <3>2
  <2> QED BY <1>3, <1>9, <2>1 DEF Owned, Typed
<1>12. PICK run2, r : run2 = Range(ran)' /\ r = tx' OBVIOUS
<1>13. x.flags = {"ack"} /\ r \in Telling =>
         /\ x.data # NoData /\ x.data \in run2 /\ r.ack = Plus(x.seq, Size[x.data])
         /\ Serves(c) /\ r.seq = entry.lseq /\ "syn" \notin r.flags
  BY <1>2, <1>3, <1>4, <1>9, <1>12, TakeTold
<1>14. ASSUME NEW d \in Clients PROVE Flow(d, client[d], toServer[d], Down(d), Range(ran))'
  <2>1. CASE d # c
    <3>1. Flow(d, client[d], toServer[d], Down(d), Range(ran)) BY ClientInv
    <3>2. Flow(d, client[d], toServer[d], Down(d), run2) BY <1>1, <1>9, <1>12, <3>1, FlowMore
    <3> QED BY <1>3, <1>6, <1>7, <1>12, <2>1, <3>2
  <2>2. CASE d = c
    <3>1. Flow(c, k, up, down, run2) BY <1>2, <1>9, <1>12, FlowMore
    <3>2. CASE r = NoReply
      <4>1. Part(Tail(up), up) /\ Part(down, down) BY <1>2, <1>3, <1>4, TailPart, WholePart
      <4>2. Flow(c, k, Tail(up), down, run2) BY <1>4, <3>1, <4>1, FlowLess
      <4> QED BY <1>1, <1>3, <1>6, <1>7, <1>12, <2>2, <3>2, <4>2
    <3>3. CASE r # NoReply
      <4>1. r \in Reply BY <1>5, <1>12, <3>3
      <4>2. Flow(c, k, Tail(up), Append(down, r), run2)
        BY <1>1, <1>3, <1>13, <3>1, <4>1, TakenFlow
      <4> QED BY <1>1, <1>3, <1>6, <1>7, <1>12, <2>2, <3>3, <4>2
    <3> QED BY <3>2, <3>3
  <2> QED BY <2>1, <2>2
<1>15. Flows' BY <1>14 DEF Flows
<1>16. ASSUME losses = 0, NEW d \in Clients
       PROVE  /\ Exact(client[d], Down(d))'
              /\ Serves(d)' => InTune(entry, client[d], toServer[d], Down(d), Range(ran))'
  <2>1. CASE d # c
    <3>1. Exact(client[d], Down(d))' BY <1>3, <1>6, <1>16, <2>1, ClientInv
    <3>2. ASSUME Serves(d)' PROVE InTune(entry, client[d], toServer[d], Down(d), Range(ran))'
      <4>1. entry' = entry /\ ~ConnectedAck(x)
        BY <1>2, <1>3, <1>4, <2>1, <3>2, TakeStranger
      <4>2. ran' = ran /\ Serves(d) BY <1>3, <3>2, <4>1 DEF Serves
      <4>3. InTune(entry, client[d], toServer[d], Down(d), Range(ran)) BY <1>16, <4>2, ClientInv
      <4> QED BY <1>3, <1>6, <1>7, <2>1, <4>1, <4>2, <4>3
    <3> QED BY <3>1, <3>2
  <2>2. CASE d = c
    <3>1. Exact(client[c], Down(c))'
      <4>1. CASE r = NoReply BY <1>1, <1>2, <1>3, <1>6, <1>12, <1>16, <4>1
      <4>2. CASE r # NoReply
        <5>1. r \in Reply BY <1>5, <1>12, <4>2
        <5>2. PICK e : e = entry OBVIOUS
        <5>3. Exact(k, Append(down, r))
          BY <1>1, <1>2, <1>3, <1>13, <1>16, <5>1, <5>2, TakenExact
        <5> QED BY <1>1, <1>3, <1>6, <1>12, <4>2, <5>3
      <4> QED BY <4>1, <4>2
    <3>2. Serves(c)' => InTune(entry, client[c], toServer[c], Down(c), Range(ran))'
      BY <1>1, <1>3, <1>7, <1>16, ReceiveTuned
    <3> QED BY <2>2, <3>1, <3>2
  <2> QED BY <2>1, <2>2
<1>17. losses = 0 => IsInjective(ran')
  <2>1. SUFFICES ASSUME losses = 0 PROVE IsInjective(ran') OBVIOUS
  <2>2. IsInjective(ran) /\ ran \in Seq(Payloads) BY <2>1, <1>2 DEF SInv, Tuned, Kept
  <2>3. CASE ConnectedAck(x) /\ x.data # NoData
    <3>1. x.flags = {"ack"} BY <1>2, <1>3, <1>4, <2>3, TakeOther
    <3>2. Serves(c)
      <4>1. FromOwner(x) /\ entry.state = "connected"
        BY <2>3 DEF ConnectedAck, FromOwnerWhile, InState
      <4> QED BY <1>4, <4>1, FromFields DEF Serves
    <3>3. x \in Runnable
      <4>1. "fin" \notin x.flags BY <3>1
      <4> QED BY <1>4, <2>3, <4>1 DEF Runnable
    <3>4. InTune(entry, k, up, down, run) BY <1>2, <2>1, <3>2
    <3>5. x.data \notin Range(ran) BY <1>1, <1>4, <3>3, <3>4 DEF InTune
    <3>6. x.data \in Payloads BY <1>4, <2>3, SegmentFields
    <3> QED BY <1>3, <2>2, <2>3, <3>5, <3>6, AppendRange
  <2>4. CASE ~(ConnectedAck(x) /\ x.data # NoData) BY <1>3, <2>2, <2>4
  <2> QED BY <2>3, <2>4
<1>18. Tuned' BY <1>3, <1>16, <1>17 DEF Tuned
<1> QED BY <1>10, <1>11, <1>15, <1>18 DEF SInv

-------------------------------------------------------------------------------
(* The theorems. *)

LEMMA SessionInitInv == SessionInit => SInv
<1> SUFFICES ASSUME SessionInit PROVE SInv OBVIOUS
<1>1. /\ Init /\ toServer = [c \in Clients |-> <<>>] /\ toClient = [c \in Clients |-> <<>>]
      /\ typed = {} /\ ran = <<>> /\ losses = 0
  BY DEF SessionInit
<1>2. PICK some \in Callers : client = [c \in Clients |-> IF c \in some THEN Closed ELSE Absent]
  BY DEF SessionInit
<1>3. /\ Closed \in Connection /\ Absent \in Connection
      /\ \A k \in {Closed, Absent} : k.data = NoData /\ k.state \in {"closed", "absent"}
  BY ClosedConnection DEF Absent, Connection
<1>4. \A c \in Clients : client[c] \in {Closed, Absent} BY <1>2
<1>5. <<>> \in Seq(Segment) /\ <<>> \in Seq(Reply) /\ <<>> \in Seq(Payloads) /\ DOMAIN <<>> = {}
  BY EmptySeq
<1>6. IInv /\ tx = NoReply /\ entry.state = "listen" BY <1>1, InitInv DEF Init, Listening
<1>7. Kept
  <2>1. client \in [Clients -> Connection] BY <1>2, <1>3
  <2> QED BY <1>1, <1>5, <1>6, <2>1 DEF Kept
<1>8. Range(ran) = {} BY <1>1, <1>5 DEF Range
<1>9. Owned BY <1>1, <1>3, <1>4, <1>5, <1>8 DEF Owned
<1>10. ASSUME NEW c \in Clients
       PROVE  /\ Flow(c, client[c], toServer[c], Down(c), Range(ran))
              /\ Exact(client[c], Down(c)) /\ ~Serves(c)
  <2>1. Down(c) = <<>> /\ toServer[c] = <<>> BY <1>1, <1>6 DEF Down, Mine
  <2>2. client[c].data = NoData /\ client[c].state \in {"closed", "absent"} BY <1>3, <1>4
  <2>3. Queues(c, <<>>, <<>>) BY <1>5 DEF Queues
  <2>4. Attempt(client[c], <<>>, <<>>) BY <1>5, <2>2 DEF Attempt
  <2>5. Line(client[c], <<>>, <<>>, {}) BY <1>5, <2>2 DEF Line, Few, Open
  <2>6. Exact(client[c], <<>>) BY <2>2 DEF Exact, Open
  <2>7. ~Serves(c) BY <1>6 DEF Serves
  <2> QED BY <1>8, <2>1, <2>3, <2>4, <2>5, <2>6, <2>7 DEF Flow
<1>11. IsInjective(ran) BY <1>1, <1>5 DEF IsInjective
<1> QED BY <1>7, <1>9, <1>10, <1>11 DEF SInv, Flows, Tuned

LEMMA SessionNextInv ==
  ASSUME SInv, [SessionNext]_sessionVars
  PROVE  SInv'
<1>1. ASSUME NEW c \in Clients,
             \/ Connect(c) \/ Type(c) \/ TypeLast(c) \/ Close(c)
             \/ Retransmit(c) \/ Abort(c) \/ GiveUp(c)
             \/ Hear(c) \/ Receive(c) \/ LoseToServer(c) \/ LoseToClient(c)
      PROVE  SInv'
  BY <1>1, ConnectStep, TypeStep, TypeLastStep, CloseStep, RetransmitStep, AbortStep,
     GiveUpStep, HearStep, ReceiveStep, LoseToServerStep, LoseToClientStep
<1>2. CASE Deliver BY <1>2, DeliverStep
<1>3. CASE Reboot BY <1>3, RebootStep
<1>4. CASE UNCHANGED sessionVars
  <2>1. /\ entry' = entry /\ tx' = tx /\ client' = client /\ toServer' = toServer
        /\ toClient' = toClient /\ typed' = typed /\ ran' = ran /\ losses' = losses
    BY <1>4 DEF sessionVars
  <2>2. IInv' BY <2>1, SameInv DEF SInv, Kept, IInv, TypeOK
  <2>3. Kept' BY <2>1, <2>2 DEF SInv, Kept
  <2>4. Owned' BY <2>1 DEF SInv, Owned
  <2>5. ASSUME NEW c \in Clients PROVE Down(c)' = Down(c) BY <2>1, DownSame
  <2>6. Flows' BY <2>1, <2>5 DEF SInv, Flows
  <2>7. \A c \in Clients : Serves(c)' <=> Serves(c) BY <2>1 DEF Serves
  <2>8. Tuned' BY <2>1, <2>5, <2>7 DEF SInv, Tuned
  <2> QED BY <2>3, <2>4, <2>6, <2>8 DEF SInv
<1> QED BY <1>1, <1>2, <1>3, <1>4 DEF SessionNext

(* One line of each client is under way at a time, and while nothing is lost *)
(* the client and the board agree on the numbers.                            *)
THEOREM SessionInductive == SessionSpec => []SInv
<1>1. SessionInit => SInv BY SessionInitInv
<1>2. SInv /\ [SessionNext]_sessionVars => SInv' BY SessionNextInv
<1> QED BY <1>1, <1>2, PTL DEF SessionSpec

(* The types, and whatever the board runs has been typed by a client. *)
THEOREM SessionTypes == SessionSpec => []SessionTypeOK
<1>1. SInv => SessionTypeOK
  <2> SUFFICES ASSUME SInv PROVE SessionTypeOK OBVIOUS
  <2>1. Kept /\ Owned /\ TypeOK BY DEF SInv, Kept, IInv
  <2>2. ASSUME NEW c \in Clients
        PROVE  Range(toServer[c]) \subseteq Segment /\ Range(toClient[c]) \subseteq Reply
    <3>1. toServer[c] \in Seq(Segment) /\ toClient[c] \in Seq(Reply) BY <2>1 DEF Kept
    <3> QED BY <3>1, LenProperties DEF Range
  <2> QED BY <2>1, <2>2 DEF Kept, Owned, SessionTypeOK
<1> QED BY SessionInductive, <1>1, PTL

(* A client forgets its line when it hears of it, or when it is done. *)
LEMMA Forgetting ==
  ASSUME SInv, NEW c \in Clients, SessionNext, client[c].data # NoData, client'[c].data = NoData,
         client'[c].state # "closed"
  PROVE  Hear(c)
<1>1. /\ client \in [Clients -> Connection]
      /\ client[c].state # "closed"
  BY ClientInv DEF Kept, Flow, Line
<1>2. client'[c] # client[c] OBVIOUS
<1>3. PICK d \in Clients :
        \/ Connect(d) \/ Type(d) \/ TypeLast(d) \/ Close(d)
        \/ Retransmit(d) \/ Abort(d) \/ GiveUp(d) \/ Hear(d)
  <2>1. \A d \in Clients : ~Receive(d) /\ ~LoseToServer(d) /\ ~LoseToClient(d)
    BY <1>2 DEF Receive, LoseToServer, LoseToClient
  <2>2. ~Deliver /\ ~Reboot BY <1>2 DEF Deliver, Reboot
  <2> QED BY <2>1, <2>2 DEF SessionNext
<1>4. \E x : client' = [client EXCEPT ![d] = x]
  BY <1>3 DEF Connect, Type, TypeLast, Close, Retransmit, Abort, GiveUp, Start,
     Hear, HearClosed, HearSynSent, HearReset, HearUnacceptable, HearAhead, HearInOrder,
     HearFin, Answering, Quietly, Become
<1>5. d = c BY <1>1, <1>2, <1>4
<1>6. ~Connect(c) BY <1>1 DEF Connect
<1>7. ~Retransmit(c) BY <1>1, <1>2 DEF Retransmit, Start, Become
<1>8. ~Abort(c) /\ ~GiveUp(c)
  <2>1. client' = [client EXCEPT ![c] = Closed] => client'[c] = Closed BY <1>1
  <2> QED BY <2>1, ClosedConnection DEF Abort, GiveUp, Become
<1>9. ~Close(c)
  <2>1. SUFFICES ASSUME Close(c) PROVE FALSE OBVIOUS
  <2>2. client' = [client EXCEPT ![c] = [client[c] EXCEPT !.nxt = Plus(@, 1),
                     !.state = IF @ = "estab" THEN "finwait" ELSE "lastack"]]
    BY <2>1 DEF Close, Start, Become
  <2>3. client'[c].data = client[c].data BY <1>1, <2>2 DEF Connection
  <2> QED BY <2>3
<1>10. ~Type(c)
  <2>1. SUFFICES ASSUME Type(c) PROVE FALSE OBVIOUS
  <2>2. PICK x \in Payloads :
          client' = [client EXCEPT ![c] = [client[c] EXCEPT !.data = x, !.nxt = Plus(@, Size[x])]]
    BY <2>1 DEF Type, Start, Become
  <2>3. client'[c].data = x BY <1>1, <2>2 DEF Connection
  <2> QED BY <2>3, Tcp4Assumption
<1>11. ~TypeLast(c)
  <2>1. SUFFICES ASSUME TypeLast(c) PROVE FALSE OBVIOUS
  <2>2. PICK x \in Payloads :
          client' = [client EXCEPT ![c] =
                       [client[c] EXCEPT !.data = x, !.nxt = Plus(@, Size[x] + 1), !.state = "finwait"]]
    BY <2>1 DEF TypeLast, Start, Become
  <2>3. client'[c].data = x BY <1>1, <2>2 DEF Connection
  <2> QED BY <2>3, Tcp4Assumption
<1> QED BY <1>3, <1>5, <1>6, <1>7, <1>8, <1>9, <1>10, <1>11

(* A line that the board acknowledged, without having heard a FIN, has been  *)
(* run: on any wire, whatever is lost, whenever the board restarts.          *)
THEOREM LinesAreRun == SessionSpec => AckMeansRun
<1> DEFINE Run(c) ==
             ~Closing(client[c]) /\ client[c].data # NoData
               /\ client'[c].data = NoData /\ client'[c].state # "closed"
             => client[c].data \in Range(ran)
<1>1. SInv /\ [SessionNext]_sessionVars => [\A c \in Clients : Run(c)]_sessionVars
  <2> SUFFICES ASSUME SInv, SessionNext, NEW c \in Clients,
                      ~Closing(client[c]), client[c].data # NoData,
                      client'[c].data = NoData, client'[c].state # "closed"
               PROVE  client[c].data \in Range(ran)
    OBVIOUS
  <2>1. Hear(c) BY Forgetting
  <2>2. PICK k, up, down, run : /\ k = client[c] /\ up = toServer[c] /\ down = Down(c)
                                /\ run = Range(ran)
    OBVIOUS
  <2>3. Kept /\ k \in Connection /\ Flow(c, k, up, down, run) BY <2>2, ClientInv
  <2>4. toClient[c] # <<>> /\ tx' = tx /\ toClient'[c] = Tail(toClient[c])
    BY <2>1, <2>3 DEF Hear, Kept
  <2>5. down # <<>> /\ Head(down) = Head(toClient[c]) BY <2>2, <2>3, <2>4, DownTail
  <2>6. PICK k2, up2 : k2 = client'[c] /\ up2 = toServer'[c] OBVIOUS
  <2>7. Heard(c, k, Head(down), k2, up, up2)
    BY <2>1, <2>2, <2>3, <2>5, <2>6, HearWays
  <2>8. k.data \in run BY <2>2, <2>3, <2>5, <2>6, <2>7, HeardRun
  <2> QED BY <2>2, <2>8
<1>2. SessionSpec => [][\A c \in Clients : Run(c)]_sessionVars
  <2> HIDE DEF Run
  <2> QED BY <1>1, SessionInductive, PTL DEF SessionSpec
<1> QED BY <1>2 DEF AckMeansRun

(* While nothing has been lost no line is run twice, although the board      *)
(* never looks at the sequence number of a segment.                          *)
THEOREM LinesRunOnce == SessionSpec => []RunOnce
<1>1. SInv => RunOnce BY DEF SInv, Tuned, RunOnce
<1> QED BY SessionInductive, <1>1, PTL

(* While nothing has been lost, a client that is served and has nothing      *)
(* under way agrees with the board on what either has sent.                  *)
THEOREM EndsAgree == SessionSpec => []InStep
<1>1. SInv => InStep
  <2> SUFFICES ASSUME SInv, losses = 0, NEW c \in Clients,
                      entry.state = "connected", <<entry.src, entry.sport>> = c,
                      client[c].state = "estab", Idle(c)
               PROVE  entry.lseq = client[c].rcv /\ entry.rseq = client[c].nxt
    BY DEF InStep
  <2>1. Down(c) = <<>> /\ toServer[c] = <<>> BY DownIdle
  <2>2. InTune(entry, client[c], <<>>, <<>>, Range(ran)) BY <2>1, ClientInv DEF Serves
  <2>3. None(<<>>, Runnable) /\ None(<<>>, Telling) BY DEF None
  <2> QED BY <2>2, <2>3 DEF InTune
<1> QED BY SessionInductive, <1>1, PTL
===============================================================================
