----------------------------- MODULE Enc28j60Proofs -----------------------------
(***************************************************************************)
(* Proofs about Enc28j60, for rings and buffers of any size and any        *)
(* frames: the types, what the transmitter sends and counts, and that chip *)
(* and driver together are the queue of RxQueue.                           *)
(***************************************************************************)
EXTENDS Enc28j60, TLAPS, SequenceTheorems, WellFoundedInduction

-------------------------------------------------------------------------------
(* A set of naturals that is not empty has a least element: what takes the   *)
(* place of induction below.                                                 *)
LEMMA Least ==
  ASSUME NEW S, S \subseteq Nat, S # {}
  PROVE  \E m \in S : \A n \in S : m <= n
<1> DEFINE R == {ss \in Nat \X Nat : ss[1] < ss[2]}
<1>1. IsWellFoundedOn(R, Nat) BY NatLessThanWellFounded DEF OpToRel
<1> HIDE DEF R
<1>2. PICK m \in S : \A n \in S : <<n, m>> \notin R BY <1>1, WFMin, Zenon
<1>3. \A n \in S : ~(n < m) BY <1>2 DEF R
<1> QED BY <1>3

(* Arithmetic on the ring: one turn at most is taken off, or put on.         *)
LEMMA RingNumbers ==
  /\ RingLength \in Nat
  /\ \A p \in Ring : p \in Nat /\ p < RingLength
  /\ \A p \in Nat : p < RingLength => p \in Ring
BY EncAssumption DEF Ring

LEMMA Wrap ==
  ASSUME NEW p \in Ring, NEW n \in 0 .. RingLength
  PROVE  Plus(p, n) = IF p + n < RingLength THEN p + n ELSE p + n - RingLength
BY EncAssumption DEF Plus, Ring

LEMMA Unwrap ==
  ASSUME NEW p \in Ring, NEW a \in Ring
  PROVE  (a - p) % RingLength = IF a >= p THEN a - p ELSE a - p + RingLength
BY EncAssumption DEF Ring
(* The chain of headers, of a memory and a pointer that are given.           *)
Chain(mem, start) ==
  LET b[i \in 1 .. MaxCount + 1] == IF i = 1 THEN start ELSE mem[b[i - 1]].next IN b

IsChain(b, mem, start, n) ==
  b = [i \in 1 .. n |-> IF i = 1 THEN start ELSE mem[b[i - 1]].next]

(* There is one of any length, whatever the memory holds. *)
LEMMA ChainExists ==
  ASSUME NEW mem, NEW start, NEW n \in Nat
  PROVE  \E b : IsChain(b, mem, start, n)
<1> DEFINE Bad == {k \in Nat : ~\E b : IsChain(b, mem, start, k)}
<1>1. SUFFICES ASSUME Bad # {} PROVE FALSE OBVIOUS
<1> HIDE DEF Bad
<1>2. PICK m \in Bad : \A k \in Bad : m <= k
  <2>1. Bad \subseteq Nat BY DEF Bad
  <2> QED BY <1>1, <2>1, Least
<1>3. m \in Nat /\ ~\E b : IsChain(b, mem, start, m) BY <1>2 DEF Bad
<1>4. m # 0
  <2>1. IsChain(<<>>, mem, start, 0) BY DEF IsChain
  <2> QED BY <1>3, <2>1
<1>5. m - 1 \in Nat /\ m - 1 \notin Bad BY <1>2, <1>3, <1>4
<1>6. PICK b : IsChain(b, mem, start, m - 1) BY <1>5 DEF Bad
<1> DEFINE c == [i \in 1 .. m |-> IF i = 1 THEN start ELSE mem[b[i - 1]].next]
<1>7. \A i \in 1 .. m - 1 : c[i] = b[i] BY <1>5, <1>6, <1>3 DEF IsChain
<1>8. \A i \in 1 .. m : i # 1 => i - 1 \in 1 .. m - 1 BY <1>3
<1>9. IsChain(c, mem, start, m) BY <1>7, <1>8, <1>3 DEF IsChain
<1> QED BY <1>9, <1>3

(* It is what its definition says. *)
LEMMA ChainIs ==
  ASSUME NEW mem, NEW start
  PROVE  IsChain(Chain(mem, start), mem, start, MaxCount + 1)
<1>1. MaxCount + 1 \in Nat BY EncAssumption
<1>2. PICK b : IsChain(b, mem, start, MaxCount + 1) BY <1>1, ChainExists
<1>3. Chain(mem, start) = CHOOSE c : IsChain(c, mem, start, MaxCount + 1) BY DEF Chain, IsChain
<1> QED BY <1>2, <1>3

-------------------------------------------------------------------------------
(* Where frames lie: o tells how far behind rd each of the n frames begins,  *)
(* and where the room behind the last one does.                              *)
Layout(mem, rd, n, o) ==
  /\ o \in [1 .. n + 1 -> Ring] /\ o[1] = 0
  /\ \A i \in 1 .. n :
       /\ mem[Plus(rd, o[i])].length \in Nat /\ mem[Plus(rd, o[i])].length >= Crc
       /\ mem[Plus(rd, o[i])].good \in BOOLEAN
       /\ mem[Plus(rd, o[i])].next = Plus(rd, o[i + 1])
       /\ o[i + 1] = o[i] + mem[Plus(rd, o[i])].length + 1
  /\ \A i \in 1 .. n, j \in 2 .. n + 1 : i < j => o[i + 1] <= o[j]

(* The pointers then lead from one frame to the next. *)
LEMMA ChainInLayout ==
  ASSUME NEW mem, NEW rd \in Ring, NEW n \in Nat, n <= MaxCount, NEW o, Layout(mem, rd, n, o)
  PROVE  \A i \in 1 .. n + 1 : Chain(mem, rd)[i] = Plus(rd, o[i])
<1> DEFINE b == Chain(mem, rd)
           Bad == {i \in 1 .. n + 1 : b[i] # Plus(rd, o[i])}
<1>1. MaxCount \in Nat BY EncAssumption
<1>2. IsChain(b, mem, rd, MaxCount + 1) BY ChainIs
<1>3. b[1] = rd BY <1>1, <1>2 DEF IsChain
<1>4. \A i \in 1 .. n : b[i + 1] = mem[b[i]].next BY <1>1, <1>2 DEF IsChain
<1>5. Plus(rd, o[1]) = rd
  <2>1. o[1] = 0 BY DEF Layout
  <2> QED BY <2>1, Wrap, EncAssumption DEF Ring
<1> HIDE DEF b
<1>6. SUFFICES ASSUME Bad # {} PROVE FALSE BY DEF b
<1>7. PICK m \in Bad : \A k \in Bad : m <= k 
  <2>1. Bad \subseteq Nat OBVIOUS
  <2> QED BY <1>6, <2>1, Least
<1>8. m # 1 BY <1>3, <1>5, <1>7
<1>9. m - 1 \in 1 .. n /\ m - 1 \notin Bad BY <1>7, <1>8
<1>10. b[m - 1] = Plus(rd, o[m - 1]) BY <1>9
<1>11. b[m] = Plus(rd, o[m]) BY <1>4, <1>9, <1>10 DEF Layout
<1> QED BY <1>7, <1>11

LEMMA InRing ==
  ASSUME NEW p \in Ring, NEW n \in 0 .. RingLength
  PROVE  Plus(p, n) \in Ring
BY Wrap, EncAssumption DEF Ring

(* Offsets from a pointer u cells further on. *)
LEMMA Further ==
  ASSUME NEW rd \in Ring, NEW u \in Ring, NEW n \in 0 .. RingLength, u + n <= RingLength
  PROVE  Plus(Plus(rd, u), n) = Plus(rd, u + n)
<1>1. Plus(rd, u) \in Ring BY InRing, EncAssumption DEF Ring
<1>2. Plus(rd, u) = IF rd + u < RingLength THEN rd + u ELSE rd + u - RingLength
  BY Wrap, EncAssumption DEF Ring
<1>3. Plus(Plus(rd, u), n) = IF Plus(rd, u) + n < RingLength THEN Plus(rd, u) + n
                             ELSE Plus(rd, u) + n - RingLength
  BY <1>1, Wrap
<1>4. Plus(rd, u + n) = IF rd + u + n < RingLength THEN rd + (u + n) ELSE rd + (u + n) - RingLength
  BY Wrap, EncAssumption DEF Ring
<1> QED BY <1>2, <1>3, <1>4, EncAssumption DEF Ring

LEMMA Behind ==
  ASSUME NEW rd \in Ring, NEW u \in Ring, NEW k \in Ring
  PROVE  (Plus(rd, k) - Plus(rd, u)) % RingLength = IF k < u THEN k - u + RingLength ELSE k - u
<1>1. Plus(rd, u) \in Ring /\ Plus(rd, k) \in Ring
  <2>1. u \in 0 .. RingLength /\ k \in 0 .. RingLength BY EncAssumption DEF Ring
  <2> QED BY <2>1, InRing
<1>2. Plus(rd, u) = IF rd + u < RingLength THEN rd + u ELSE rd + u - RingLength
  BY Wrap, EncAssumption DEF Ring
<1>3. Plus(rd, k) = IF rd + k < RingLength THEN rd + k ELSE rd + k - RingLength
  BY Wrap, EncAssumption DEF Ring
<1>4. (Plus(rd, k) - Plus(rd, u)) % RingLength =
         IF Plus(rd, k) >= Plus(rd, u) THEN Plus(rd, k) - Plus(rd, u)
         ELSE Plus(rd, k) - Plus(rd, u) + RingLength
  BY <1>1, Unwrap
<1>5. rd \in Nat /\ u \in Nat /\ k \in Nat /\ RingLength \in Nat
      /\ rd < RingLength /\ u < RingLength /\ k < RingLength
  BY EncAssumption DEF Ring
<1> DEFINE x == Plus(rd, k)
           y == Plus(rd, u)
           z == (x - y) % RingLength
<1>6. /\ x = IF rd + k < RingLength THEN rd + k ELSE rd + k - RingLength
      /\ y = IF rd + u < RingLength THEN rd + u ELSE rd + u - RingLength
      /\ z = IF x >= y THEN x - y ELSE x - y + RingLength
  BY <1>2, <1>3, <1>4
<1> HIDE DEF x, y, z
<1>7. z = IF k < u THEN k - u + RingLength ELSE k - u
  <2>1. CASE k < u BY <1>5, <1>6, <2>1
  <2>2. CASE ~(k < u) BY <1>5, <1>6, <2>2
  <2> QED BY <2>1, <2>2
<1> QED BY <1>7 DEF x, y, z

(* The octets of a frame lie between its header and the next one. *)
LEMMA Inside ==
  ASSUME NEW mem, NEW rd \in Ring, NEW n \in Nat, NEW o, Layout(mem, rd, n, o), NEW i \in 1 .. n
  PROVE  /\ o[i] \in Ring /\ o[i + 1] \in Ring /\ o[n + 1] \in Ring
         /\ o[i] < o[n + 1] /\ o[i + 1] <= o[n + 1]
         /\ \A k \in 1 .. mem[Plus(rd, o[i])].length :
              /\ o[i] + k < o[n + 1]
              /\ Plus(Plus(rd, o[i]), k) = Plus(rd, o[i] + k)
<1>1. o[i] \in Ring /\ o[i + 1] \in Ring /\ o[n + 1] \in Ring BY DEF Layout
<1> DEFINE d == mem[Plus(rd, o[i])].length
<1>2. d \in Nat /\ o[i + 1] = o[i] + d + 1 BY DEF Layout
<1>3. o[i + 1] <= o[n + 1] BY <1>1 DEF Layout, Ring
<1> HIDE DEF d
<1>4. ASSUME NEW k \in 1 .. d
      PROVE  o[i] + k < o[n + 1] /\ k \in 0 .. RingLength /\ o[i] + k <= RingLength
  <2>1. PICK a, b, e \in Ring : a = o[i] /\ b = o[i + 1] /\ e = o[n + 1] BY <1>1, Zenon
  <2>2. a \in Nat /\ e \in Nat /\ e < RingLength /\ RingLength \in Nat BY RingNumbers
  <2>3. b = a + d + 1 /\ b <= e BY <1>2, <1>3, <2>1
  <2>4. a + k < e BY <1>2, <2>2, <2>3
  <2> QED BY <1>2, <2>1, <2>2, <2>4
<1>5. \A k \in 1 .. d : Plus(Plus(rd, o[i]), k) = Plus(rd, o[i] + k) BY <1>1, <1>4, Further
<1>6. o[i] < o[n + 1] BY <1>1, <1>2, <1>3 DEF Ring
<1> QED BY <1>1, <1>3, <1>4, <1>5, <1>6 DEF d

-------------------------------------------------------------------------------
(* What the chip writes where it is free leaves the frames as they are. *)
Untouched(mem, mem2, rd, u) == \A k \in Ring : k < u => mem2[Plus(rd, k)] = mem[Plus(rd, k)]

(* A frame of a memory that is given. *)
FrameIn(mem, p) == [data |-> [i \in 1 .. mem[p].length |-> mem[Plus(p, i)]], good |-> mem[p].good]

LEMMA FramesStay ==
  ASSUME NEW mem, NEW mem2, NEW rd \in Ring, NEW n \in Nat, NEW o, Layout(mem, rd, n, o),
         Untouched(mem, mem2, rd, o[n + 1])
  PROVE  /\ Layout(mem2, rd, n, o)
         /\ \A i \in 1 .. n : FrameIn(mem2, Plus(rd, o[i])) = FrameIn(mem, Plus(rd, o[i]))
<1>1. \A i \in 1 .. n : mem2[Plus(rd, o[i])] = mem[Plus(rd, o[i])]
  BY Inside DEF Untouched
<1>2. Layout(mem2, rd, n, o) BY <1>1 DEF Layout
<1>3. ASSUME NEW i \in 1 .. n
      PROVE  FrameIn(mem2, Plus(rd, o[i])) = FrameIn(mem, Plus(rd, o[i]))
  <2> DEFINE p == Plus(rd, o[i])
  <2>1. mem2[p] = mem[p] BY <1>1
  <2>2. \A k \in 1 .. mem[p].length : mem2[Plus(p, k)] = mem[Plus(p, k)]
    <3>1. SUFFICES ASSUME NEW k \in 1 .. mem[p].length PROVE mem2[Plus(p, k)] = mem[Plus(p, k)]
      OBVIOUS
    <3>2. mem[p].length \in Nat BY DEF Layout
    <3>3. o[i] + k < o[n + 1] /\ Plus(p, k) = Plus(rd, o[i] + k) /\ o[i] \in Ring /\ o[n + 1] \in Ring
      BY Inside
    <3>4. o[i] + k \in Ring BY <3>2, <3>3, EncAssumption DEF Ring
    <3> QED BY <3>3, <3>4 DEF Untouched
  <2> HIDE DEF p
  <2> QED BY <2>1, <2>2 DEF FrameIn, p
<1> QED BY <1>2, <1>3

(* One more frame. *)
LEMMA Longer ==
  ASSUME NEW mem, NEW rd \in Ring, NEW n \in Nat, NEW o, Layout(mem, rd, n, o),
         NEW d \in Nat, d >= Crc, o[n + 1] + d + 1 < RingLength,
         mem[Plus(rd, o[n + 1])].length = d, mem[Plus(rd, o[n + 1])].good \in BOOLEAN,
         mem[Plus(rd, o[n + 1])].next = Plus(rd, o[n + 1] + d + 1)
  PROVE  Layout(mem, rd, n + 1, [i \in 1 .. n + 2 |-> IF i = n + 2 THEN o[n + 1] + d + 1 ELSE o[i]])
<1>0. o[n + 1] \in Ring BY DEF Layout
<1> DEFINE c == [i \in 1 .. n + 2 |-> IF i = n + 2 THEN o[n + 1] + d + 1 ELSE o[i]]
<1>1. \A i \in 1 .. n + 1 : c[i] = o[i] /\ o[i] \in Ring BY DEF Layout
<1>2. c[n + 2] = o[n + 1] + d + 1 OBVIOUS
<1>3. c[n + 2] \in Ring
  <2>1. PICK e \in Ring : e = o[n + 1] BY <1>0, Zenon
  <2>2. e \in Nat BY RingNumbers
  <2>3. e + d + 1 \in Nat /\ e + d + 1 < RingLength BY <2>1, <2>2
  <2>4. e + d + 1 \in Ring BY <2>3, RingNumbers
  <2> QED BY <1>2, <2>1, <2>4
<1>4. \A i \in 1 .. n + 2 : i = n + 2 \/ i \in 1 .. n + 1 OBVIOUS
<1>5. DOMAIN c = 1 .. n + 2 /\ c = [i \in 1 .. n + 2 |-> c[i]] OBVIOUS
<1> HIDE DEF c
<1>6. c \in [1 .. n + 2 -> Ring] /\ c[1] = 0
  <2>1. \A i \in 1 .. n + 2 : c[i] \in Ring BY <1>1, <1>3, <1>4
  <2>2. o[1] = 0 /\ 1 \in 1 .. n + 1 BY DEF Layout
  <2>3. c[1] = 0 BY <1>1, <2>2
  <2>4. c \in [1 .. n + 2 -> Ring] BY <1>5, <2>1
  <2> QED BY <2>3, <2>4
<1>7. ASSUME NEW i \in 1 .. n + 1
      PROVE  /\ mem[Plus(rd, c[i])].length \in Nat /\ mem[Plus(rd, c[i])].length >= Crc
             /\ mem[Plus(rd, c[i])].good \in BOOLEAN
             /\ mem[Plus(rd, c[i])].next = Plus(rd, c[i + 1])
             /\ c[i + 1] = c[i] + mem[Plus(rd, c[i])].length + 1
  <2>1. CASE i = n + 1 BY <1>1, <1>2, <2>1
  <2>2. CASE i # n + 1
    <3>1. i \in 1 .. n /\ i + 1 \in 1 .. n + 1 BY <2>2
    <3> QED BY <1>1, <3>1 DEF Layout
  <2> QED BY <2>1, <2>2
<1>8. ASSUME NEW i \in 1 .. n + 1, NEW j \in 2 .. n + 2, i < j PROVE c[i + 1] <= c[j]
  <2>1. CASE j # n + 2
    <3>1. i \in 1 .. n /\ i + 1 \in 1 .. n + 1 /\ j \in 2 .. n + 1 BY <1>8, <2>1
    <3>2. o[i + 1] <= o[j] BY <1>8, <3>1 DEF Layout
    <3> QED BY <1>1, <3>1, <3>2
  <2>2. CASE j = n + 2 /\ i = n + 1
    <3>1. c[i + 1] = c[j] BY <2>2
    <3> QED BY <1>3, <2>2, <3>1, EncAssumption DEF Ring
  <2>3. CASE j = n + 2 /\ i # n + 1
    <3>1. i \in 1 .. n /\ i + 1 \in 1 .. n + 1 /\ n + 1 \in 2 .. n + 1 /\ i < n + 1 BY <2>3
    <3>2. o[i + 1] <= o[n + 1] BY <3>1 DEF Layout
    <3>3. c[i + 1] = o[i + 1] /\ o[i + 1] \in Ring /\ o[n + 1] \in Ring /\ c[j] = o[n + 1] + d + 1
      BY <1>1, <1>2, <2>3, <3>1
    <3> QED BY <3>2, <3>3, EncAssumption DEF Ring
  <2> QED BY <2>1, <2>2, <2>3
<1>9. n + 1 \in Nat /\ n + 1 + 1 = n + 2 OBVIOUS
<1>10. Layout(mem, rd, n + 1, c) BY <1>6, <1>7, <1>8, <1>9 DEF Layout
<1> QED BY <1>10 DEF c

(* The distances from the second header instead of the first. *)
Moved(n, o) == [i \in 1 .. n |-> o[i + 1] - o[2]]

(* One frame less, from the front. *)
LEMMA Shorter ==
  ASSUME NEW mem, NEW rd \in Ring, NEW n \in Nat, n > 0, NEW o, Layout(mem, rd, n, o)
  PROVE  /\ Plus(rd, o[2]) \in Ring
         /\ Layout(mem, Plus(rd, o[2]), n - 1, Moved(n, o))
         /\ \A i \in 1 .. n : Plus(Plus(rd, o[2]), Moved(n, o)[i]) = Plus(rd, o[i + 1])
<1> DEFINE c == Moved(n, o)
           next == Plus(rd, o[2])
<1>1. \A i \in 1 .. n + 1 : o[i] \in Ring BY DEF Layout
<1>2. \A i \in 1 .. n : o[2] <= o[i + 1]
  <2>1. SUFFICES ASSUME NEW i \in 1 .. n PROVE o[2] <= o[i + 1] OBVIOUS
  <2>2. 1 \in 1 .. n /\ i + 1 \in 2 .. n + 1 /\ 1 < i + 1 /\ 1 + 1 = 2 OBVIOUS
  <2> QED BY <2>2 DEF Layout
<1>3. ASSUME NEW i \in 1 .. n PROVE c[i] = o[i + 1] - o[2] /\ c[i] \in Ring
  <2>1. c[i] = o[i + 1] - o[2] BY DEF Moved
  <2>2. PICK a, b \in Ring : a = o[i + 1] /\ b = o[2]
    <3>1. i + 1 \in 1 .. n + 1 /\ 2 \in 1 .. n + 1 OBVIOUS
    <3> QED BY <1>1, <3>1, Zenon
  <2>3. b <= a BY <1>2, <2>2
  <2>4. a - b \in Nat /\ a - b < RingLength BY <2>3, RingNumbers
  <2>5. a - b \in Ring BY <2>4, RingNumbers
  <2> HIDE DEF c
  <2> QED BY <2>1, <2>2, <2>5
<1>4. c = [i \in 1 .. n |-> c[i]] BY DEF Moved
<1>5. o[2] \in Ring BY <1>1
<1>6. next \in Ring
  <2>1. o[2] \in 0 .. RingLength BY <1>5, EncAssumption DEF Ring
  <2> QED BY <2>1, InRing
<1> HIDE DEF c
<1>7. \A i \in 1 .. n : Plus(next, c[i]) = Plus(rd, o[i + 1])
  <2>1. SUFFICES ASSUME NEW i \in 1 .. n PROVE Plus(next, c[i]) = Plus(rd, o[i + 1]) OBVIOUS
  <2>2. o[i + 1] \in Ring /\ c[i] = o[i + 1] - o[2] /\ c[i] \in Ring BY <1>1, <1>3
  <2>3. c[i] \in 0 .. RingLength /\ o[2] + c[i] <= RingLength /\ o[2] + c[i] = o[i + 1]
    BY <1>5, <2>2, EncAssumption DEF Ring
  <2> QED BY <1>5, <2>3, Further
<1> HIDE DEF next
<1>8. c \in [1 .. n -> Ring] /\ c[1] = 0
  <2>1. c[1] = o[2] - o[2] BY <1>3
  <2>2. c[1] = 0 BY <1>5, <2>1, EncAssumption DEF Ring
  <2> QED BY <1>3, <1>4, <2>2
<1>9. ASSUME NEW i \in 1 .. n - 1
      PROVE  /\ mem[Plus(next, c[i])].length \in Nat /\ mem[Plus(next, c[i])].length >= Crc
             /\ mem[Plus(next, c[i])].good \in BOOLEAN
             /\ mem[Plus(next, c[i])].next = Plus(next, c[i + 1])
             /\ c[i + 1] = c[i] + mem[Plus(next, c[i])].length + 1
  <2>1. i \in 1 .. n /\ i + 1 \in 1 .. n /\ i + 1 + 1 \in 1 .. n + 1 OBVIOUS
  <2>2. Plus(next, c[i]) = Plus(rd, o[i + 1]) /\ Plus(next, c[i + 1]) = Plus(rd, o[i + 1 + 1])
    BY <1>7, <2>1
  <2> DEFINE k == i + 1
             h == mem[Plus(rd, o[k])]
  <2>3. /\ h.length \in Nat /\ h.length >= Crc /\ h.good \in BOOLEAN
        /\ h.next = Plus(rd, o[k + 1]) /\ o[k + 1] = o[k] + h.length + 1
    BY <2>1 DEF Layout
  <2>4. c[i] = o[k] - o[2] /\ c[i + 1] = o[k + 1] - o[2] /\ o[k] \in Ring
    BY <1>1, <1>3, <2>1
  <2>5. mem[Plus(next, c[i])] = h BY <2>2
  <2>6. Plus(next, c[i + 1]) = Plus(rd, o[k + 1]) BY <2>2
  <2> HIDE DEF h, k
  <2>7. c[i + 1] = c[i] + h.length + 1 BY <1>5, <2>3, <2>4, EncAssumption DEF Ring
  <2> QED BY <2>3, <2>5, <2>6, <2>7
<1>10. ASSUME NEW i \in 1 .. n - 1, NEW j \in 2 .. n, i < j PROVE c[i + 1] <= c[j]
  <2>1. i + 1 \in 1 .. n /\ j \in 1 .. n /\ j + 1 \in 2 .. n + 1 /\ i + 1 < j + 1 BY <1>10
  <2>2. o[i + 1 + 1] <= o[j + 1] BY <2>1 DEF Layout
  <2>3. c[i + 1] = o[i + 1 + 1] - o[2] /\ c[j] = o[j + 1] - o[2] BY <1>3, <2>1
  <2>4. o[i + 1 + 1] \in Ring /\ o[j + 1] \in Ring BY <1>1, <2>1
  <2> QED BY <1>5, <2>2, <2>3, <2>4, EncAssumption DEF Ring
<1>11. n - 1 \in Nat /\ n - 1 + 1 = n OBVIOUS
<1>12. Layout(mem, next, n - 1, c) BY <1>8, <1>9, <1>10, <1>11 DEF Layout
<1> QED BY <1>6, <1>7, <1>12 DEF c, next

-------------------------------------------------------------------------------
(* The invariant. *)

Pcs == {"idle", "header", "data", "count", "check", "wait", "write", "start", "poll"}

Headers == [next : Ring, length : Nat, good : BOOLEAN]
AnyCell == Cells \cup Headers \cup {Garbage, Control}

Typed ==
  /\ memory \in [Ring -> AnyCell]
  /\ ERXWRPT \in Ring /\ ERXRDPT \in Ring /\ next_frame_pointer \in Ring /\ at \in Ring
  /\ EPKTCNT \in 0 .. MaxCount /\ pc \in Pcs /\ length \in 0 .. BufferLength
  /\ frame \in Seq(AnyCell) /\ rx_frame \in Seq(AnyCell)
  /\ Len(frame) + length <= BufferLength /\ Len(rx_frame) <= BufferLength

(* There is a frame as long as the driver is at one. *)
Counted == pc \in {"header", "data", "count"} => EPKTCNT > 0

(* How the driver gets along: where the next frame begins, and how much of   *)
(* the one at ERXRDPT has been copied.                                       *)
Copied ==
  /\ pc # "data" => next_frame_pointer = ERXRDPT
  /\ pc = "header" => at = ERXRDPT /\ frame = <<>>
  /\ pc = "data" =>
       /\ next_frame_pointer = memory[ERXRDPT].next
       /\ at = Plus(ERXRDPT, Len(frame) + 1)
       /\ Len(frame) + length = LengthOf(memory[ERXRDPT].length, memory[ERXRDPT].good)
       /\ \A i \in 1 .. Len(frame) : frame[i] = memory[Plus(ERXRDPT, i)]

Ringed ==
  \E o : Layout(memory, ERXRDPT, Unread, o) /\ ERXWRPT = Plus(ERXRDPT, o[Unread + 1])

RInv == Typed /\ Counted /\ Copied /\ Ringed

LEMMA UnreadCount ==
  ASSUME Typed, Counted
  PROVE  Unread \in Nat /\ Unread <= MaxCount /\ (pc = "data" => Unread > 0)
BY EncAssumption DEF Typed, Counted, Unread

(* What is left of a frame is not more than the frame, nor than the buffer. *)
LEMMA Lengths ==
  ASSUME NEW n \in Nat, n >= Crc, NEW good \in BOOLEAN
  PROVE  /\ LengthOf(n, good) \in 0 .. BufferLength
         /\ LengthOf(n, good) <= n
BY EncAssumption DEF LengthOf, Cut

LEMMA InitRInv ==
  ASSUME Init
  PROVE  RInv
<1>1. 0 \in Ring BY EncAssumption DEF Ring
<1>2. Typed
  <2>1. memory \in [Ring -> AnyCell] BY DEF Init, AnyCell
  <2>2. frame \in Seq(AnyCell) /\ rx_frame \in Seq(AnyCell) /\ Len(frame) = 0 /\ Len(rx_frame) = 0
    BY DEF Init
  <2> QED BY <1>1, <2>1, <2>2, EncAssumption DEF Typed, Init, EmptyRing, Pcs
<1>3. Counted /\ Copied BY DEF Counted, Copied, Init, EmptyRing
<1>4. Ringed
  <2> DEFINE o == [i \in 1 .. 0 + 1 |-> 0]
  <2>1. Layout(memory, 0, 0, o) BY <1>1 DEF Layout
  <2>2. Plus(0, o[0 + 1]) = 0 BY <1>1, Wrap, EncAssumption
  <2>3. Unread = 0 /\ ERXRDPT = 0 /\ ERXWRPT = 0 BY DEF Init, EmptyRing, Unread
  <2> QED BY <2>1, <2>2, <2>3 DEF Ringed
<1> QED BY <1>2, <1>3, <1>4 DEF RInv

(* A step of the transmitter, or one that ends a call, does not concern      *)
(* what is in the ring.                                                      *)
LEMMA SameRing ==
  ASSUME Ringed, UNCHANGED <<memory, ERXWRPT, ERXRDPT>>, Unread' = Unread
  PROVE  Ringed'
BY DEF Ringed

(* Where a frame has arrived, or was given up. *)
LEMMA Arrived ==
  ASSUME RInv, NEW f \in Frames, Arrive(f), NEW o,
         Layout(memory, ERXRDPT, Unread, o), ERXWRPT = Plus(ERXRDPT, o[Unread + 1])
  PROVE  LET u == o[Unread + 1]
             d == Len(f.data)
         IN /\ d \in Nat /\ d >= Crc /\ u \in Ring /\ u + d + 1 < RingLength
            /\ Untouched(memory, memory', ERXRDPT, u)
            /\ memory'[Plus(ERXRDPT, u)] = [next |-> Plus(ERXRDPT, u + d + 1), length |-> d, good |-> f.good]
            /\ \A i \in 1 .. d : memory'[Plus(Plus(ERXRDPT, u), i)] = f.data[i]
            /\ ERXWRPT' = Plus(ERXRDPT, u + d + 1)
<1> DEFINE u == o[Unread + 1]
           d == Len(f.data)
<1>1. d \in Nat /\ d >= Crc /\ f.good \in BOOLEAN BY EncAssumption
<1>2. u \in Ring BY UnreadCount DEF RInv, Layout
<1>3. ERXRDPT \in Ring /\ ERXWRPT \in Ring BY DEF RInv, Typed
<1>4. (ERXWRPT - ERXRDPT) % RingLength = u
  <2>1. 0 \in Ring BY EncAssumption DEF Ring
  <2>2. Plus(ERXRDPT, 0) = ERXRDPT BY <1>3, Wrap, EncAssumption DEF Ring
  <2>3. (Plus(ERXRDPT, u) - Plus(ERXRDPT, 0)) % RingLength = IF u < 0 THEN u - 0 + RingLength ELSE u - 0
    BY <1>2, <1>3, <2>1, Behind
  <2> QED BY <1>2, <2>2, <2>3, EncAssumption DEF Ring
<1>5. u + d + 1 < RingLength
  <2>1. d + 1 <= RingLength - 1 - u BY <1>4 DEF Arrive, Fits, FreeSpace
  <2> QED BY <1>1, <1>2, <2>1, EncAssumption DEF Ring
<1> HIDE DEF u, d
<1>6. \A k \in Ring : Plus(ERXRDPT, k) \in Ring
  <2>1. \A k \in Ring : k \in 0 .. RingLength BY EncAssumption DEF Ring
  <2> QED BY <1>3, <2>1, InRing
<1>7. ERXWRPT = Plus(ERXRDPT, u) BY DEF u
<1>8. \A k \in Ring : (Plus(ERXRDPT, k) - ERXWRPT) % RingLength = IF k < u THEN k - u + RingLength ELSE k - u
  BY <1>2, <1>3, <1>7, Behind
<1>9. Plus(ERXWRPT, d + 1) = Plus(ERXRDPT, u + d + 1)
  <2>1. d + 1 \in 0 .. RingLength /\ u + (d + 1) <= RingLength /\ u + (d + 1) = u + d + 1
    BY <1>1, <1>2, <1>5, EncAssumption DEF Ring
  <2> QED BY <1>2, <1>3, <1>7, <2>1, Further
<1>10. memory' = Written(f, ERXWRPT) /\ ERXWRPT' = Plus(ERXWRPT, d + 1) BY DEF Arrive, d
<1>11. ASSUME NEW k \in Ring
       PROVE memory'[Plus(ERXRDPT, k)] =
               LET i == (Plus(ERXRDPT, k) - ERXWRPT) % RingLength
               IN CASE i = 0 -> [next |-> Plus(ERXWRPT, d + 1), length |-> d, good |-> f.good]
                    [] i \in 1 .. d -> f.data[i]
                    [] OTHER -> memory[Plus(ERXRDPT, k)]
  BY <1>6, <1>10 DEF Written, d
<1>12. Untouched(memory, memory', ERXRDPT, u)
  <2>1. SUFFICES ASSUME NEW k \in Ring, k < u PROVE memory'[Plus(ERXRDPT, k)] = memory[Plus(ERXRDPT, k)]
    BY DEF Untouched
  <2> DEFINE i == (Plus(ERXRDPT, k) - ERXWRPT) % RingLength
  <2>2. i = k - u + RingLength BY <1>8, <2>1
  <2>3. i # 0 /\ i \notin 1 .. d BY <1>1, <1>2, <1>5, <2>1, <2>2, EncAssumption DEF Ring
  <2> HIDE DEF i
  <2> QED BY <1>11, <2>3 DEF i
<1>13. memory'[Plus(ERXRDPT, u)] = [next |-> Plus(ERXRDPT, u + d + 1), length |-> d, good |-> f.good]
  <2> DEFINE i == (Plus(ERXRDPT, u) - ERXWRPT) % RingLength
  <2>1. i = 0 BY <1>2, <1>8, EncAssumption DEF Ring
  <2>2. i \notin 1 .. d BY <1>1, <2>1
  <2> HIDE DEF i
  <2> QED BY <1>2, <1>9, <1>11, <2>1, <2>2 DEF i
<1>14. ASSUME NEW i \in 1 .. d PROVE memory'[Plus(Plus(ERXRDPT, u), i)] = f.data[i]
  <2>1. i \in 0 .. RingLength /\ u + i <= RingLength /\ u + i \in Ring /\ ~(u + i < u) /\ (u + i) - u = i
    BY <1>1, <1>2, <1>5, EncAssumption DEF Ring
  <2>2. Plus(Plus(ERXRDPT, u), i) = Plus(ERXRDPT, u + i) BY <1>2, <1>3, <2>1, Further
  <2>3. (Plus(ERXRDPT, u + i) - ERXWRPT) % RingLength = i BY <1>8, <2>1
  <2>4. i # 0 OBVIOUS
  <2> QED BY <1>11, <2>1, <2>2, <2>3, <2>4
<1> QED BY <1>1, <1>2, <1>5, <1>9, <1>10, <1>12, <1>13, <1>14 DEF u, d

LEMMA Dropped ==
  ASSUME RInv, NEW f \in Frames, Drop(f), NEW o,
         Layout(memory, ERXRDPT, Unread, o), ERXWRPT = Plus(ERXRDPT, o[Unread + 1])
  PROVE  Untouched(memory, memory', ERXRDPT, o[Unread + 1])
<1> DEFINE u == o[Unread + 1]
<1>1. u \in Ring BY UnreadCount DEF RInv, Layout
<1>2. ERXRDPT \in Ring /\ ERXWRPT \in Ring BY DEF RInv, Typed
<1>3. (ERXWRPT - ERXRDPT) % RingLength = u
  <2>1. 0 \in Ring BY EncAssumption DEF Ring
  <2>2. Plus(ERXRDPT, 0) = ERXRDPT BY <1>2, Wrap, EncAssumption DEF Ring
  <2>3. (Plus(ERXRDPT, u) - Plus(ERXRDPT, 0)) % RingLength = IF u < 0 THEN u - 0 + RingLength ELSE u - 0
    BY <1>1, <1>2, <2>1, Behind
  <2> QED BY <1>1, <2>2, <2>3, EncAssumption DEF Ring
<1>4. FreeSpace = RingLength - 1 - u BY <1>3 DEF FreeSpace
<1> HIDE DEF u
<1>5. \A k \in Ring : Plus(ERXRDPT, k) \in Ring
  <2>1. \A k \in Ring : k \in 0 .. RingLength BY EncAssumption DEF Ring
  <2> QED BY <1>2, <2>1, InRing
<1>6. ERXWRPT = Plus(ERXRDPT, u) BY DEF u
<1>7. \A k \in Ring : (Plus(ERXRDPT, k) - ERXWRPT) % RingLength = IF k < u THEN k - u + RingLength ELSE k - u
  BY <1>1, <1>2, <1>6, Behind
<1>8. SUFFICES ASSUME NEW k \in Ring, k < u PROVE memory'[Plus(ERXRDPT, k)] = memory[Plus(ERXRDPT, k)]
  BY DEF Untouched, u
<1>9. ~((Plus(ERXRDPT, k) - ERXWRPT) % RingLength < FreeSpace)
  BY <1>1, <1>4, <1>7, <1>8, EncAssumption DEF Ring
<1> QED BY <1>5, <1>9 DEF Drop

(* What the driver knows of the frame it reads. *)
LEMMA First ==
  ASSUME RInv, NEW o, Layout(memory, ERXRDPT, Unread, o), Unread > 0
  PROVE  LET h == memory[ERXRDPT]
         IN /\ h.length \in Nat /\ h.length >= Crc /\ h.good \in BOOLEAN
            /\ h.next = Plus(ERXRDPT, o[2]) /\ o[2] = h.length + 1
            /\ o[2] \in Ring /\ o[2] <= o[Unread + 1] /\ o[Unread + 1] \in Ring
            /\ LengthOf(h.length, h.good) \in 0 .. BufferLength
            /\ LengthOf(h.length, h.good) < o[2]
            /\ Plus(ERXRDPT, o[1]) = ERXRDPT
<1>1. Unread \in Nat /\ 1 \in 1 .. Unread /\ ERXRDPT \in Ring BY UnreadCount DEF RInv, Typed
<1>2. o[1] = 0 BY DEF Layout
<1>3. Plus(ERXRDPT, o[1]) = ERXRDPT BY <1>1, <1>2, Wrap, EncAssumption DEF Ring
<1> DEFINE h == memory[ERXRDPT]
<1>4. /\ h.length \in Nat /\ h.length >= Crc /\ h.good \in BOOLEAN
      /\ h.next = Plus(ERXRDPT, o[1 + 1]) /\ o[1 + 1] = o[1] + h.length + 1
  BY <1>1, <1>3 DEF Layout
<1>5. o[1 + 1] \in Ring /\ o[Unread + 1] \in Ring /\ o[1 + 1] <= o[Unread + 1] BY <1>1, Inside
<1>6. 1 + 1 = 2 OBVIOUS
<1> HIDE DEF h
<1>7. LengthOf(h.length, h.good) \in 0 .. BufferLength /\ LengthOf(h.length, h.good) <= h.length
  BY <1>4, Lengths
<1>8. o[2] = h.length + 1 /\ LengthOf(h.length, h.good) < o[2]
  BY <1>2, <1>4, <1>6, <1>7, EncAssumption
<1> QED BY <1>3, <1>4, <1>5, <1>6, <1>7, <1>8 DEF h

LEMMA CopiedStays ==
  ASSUME RInv, NEW o, Layout(memory, ERXRDPT, Unread, o), UNCHANGED <<ERXRDPT, driver, pc>>,
         Untouched(memory, memory', ERXRDPT, o[Unread + 1])
  PROVE  Copied'
<1>1. CASE pc # "data" BY <1>1 DEF RInv, Copied, driver
<1>2. CASE pc = "data"
  <2>1. Unread > 0 BY <1>2, UnreadCount DEF RInv
  <2> DEFINE u == o[Unread + 1]
             l == LengthOf(memory[ERXRDPT].length, memory[ERXRDPT].good)
  <2>2. /\ u \in Ring /\ o[2] \in Ring /\ o[2] <= u /\ l \in 0 .. BufferLength /\ l < o[2]
        /\ Plus(ERXRDPT, 0) = ERXRDPT /\ 0 < u
    <3>1. o[1] = 0 BY DEF Layout
    <3> QED BY <2>1, <3>1, First, EncAssumption DEF Ring
  <2>3. Len(frame) \in Nat /\ Len(frame) <= l
    <3>1. length \in Nat /\ Len(frame) \in Nat /\ Len(frame) + length = l
      BY <1>2, EncAssumption DEF RInv, Typed, Copied
    <3> HIDE DEF l
    <3> QED BY <2>2, <3>1, EncAssumption
  <2> HIDE DEF u, l
  <2>4. \A k \in Ring : k < u => memory'[Plus(ERXRDPT, k)] = memory[Plus(ERXRDPT, k)]
    BY DEF Untouched, u
  <2>5. memory'[ERXRDPT] = memory[ERXRDPT]
    <3>1. 0 \in Ring BY EncAssumption DEF Ring
    <3> QED BY <2>2, <2>4, <3>1
  <2>6. \A i \in 1 .. Len(frame) : memory'[Plus(ERXRDPT, i)] = memory[Plus(ERXRDPT, i)]
    <3>1. \A i \in 1 .. Len(frame) : i \in Ring /\ i < u BY <2>2, <2>3, EncAssumption DEF Ring
    <3> QED BY <2>4, <3>1
  <2> QED BY <1>2, <2>5, <2>6 DEF RInv, Copied, driver
<1> QED BY <1>1, <1>2

LEMMA ArriveRInv ==
  ASSUME RInv, NEW f \in Frames, Arrive(f)
  PROVE  RInv'
<1> DEFINE n == Unread
           d == Len(f.data)
<1>1. PICK o : Layout(memory, ERXRDPT, n, o) /\ ERXWRPT = Plus(ERXRDPT, o[n + 1])
  BY DEF RInv, Ringed
<1> DEFINE u == o[n + 1]
<1>2. /\ d \in Nat /\ d >= Crc /\ u \in Ring /\ u + d + 1 < RingLength
      /\ Untouched(memory, memory', ERXRDPT, u)
      /\ memory'[Plus(ERXRDPT, u)] = [next |-> Plus(ERXRDPT, u + d + 1), length |-> d, good |-> f.good]
      /\ ERXWRPT' = Plus(ERXRDPT, u + d + 1)
  BY <1>1, Arrived
<1>3. n \in Nat /\ Unread' = n + 1 /\ EPKTCNT' \in 1 .. MaxCount
  <2>1. EPKTCNT \in Nat /\ EPKTCNT < MaxCount /\ EPKTCNT' = EPKTCNT + 1 /\ pc' = pc
    BY EncAssumption DEF RInv, Typed, Arrive, Fits
  <2> QED BY <2>1, UnreadCount, EncAssumption DEF RInv, Unread
<1>4. Copied'
  <2>1. UNCHANGED <<ERXRDPT, driver, pc>> BY DEF Arrive
  <2> QED BY <1>1, <1>2, <2>1, CopiedStays
<1>5. Counted' BY <1>3, EncAssumption DEF Counted
<1>6. ERXRDPT \in Ring /\ ERXWRPT \in Ring BY DEF RInv, Typed
<1>7. u + d + 1 \in Ring /\ u + d + 1 \in 0 .. RingLength BY <1>2, EncAssumption DEF Ring
<1>8. Typed'
  <2>1. f.data \in Seq(Cells) /\ f.good \in BOOLEAN BY EncAssumption
  <2>2. d + 1 \in 0 .. RingLength BY <1>2, EncAssumption DEF Ring
  <2>3. [next |-> Plus(ERXWRPT, d + 1), length |-> d, good |-> f.good] \in AnyCell
    BY <1>2, <1>6, <2>1, <2>2, InRing DEF AnyCell, Headers
  <2>4. \A i \in 1 .. d : f.data[i] \in AnyCell BY <2>1 DEF AnyCell
  <2>5. memory \in [Ring -> AnyCell] BY DEF RInv, Typed
  <2>6. \A a \in Ring : Written(f, ERXWRPT)[a] \in AnyCell
    <3>1. SUFFICES ASSUME NEW a \in Ring PROVE Written(f, ERXWRPT)[a] \in AnyCell OBVIOUS
    <3> DEFINE i == (a - ERXWRPT) % RingLength
    <3>2. Written(f, ERXWRPT)[a] =
            CASE i = 0 -> [next |-> Plus(ERXWRPT, d + 1), length |-> d, good |-> f.good]
              [] i \in 1 .. d -> f.data[i]
              [] OTHER -> memory[a]
      BY DEF Written
    <3> HIDE DEF i
    <3>3. CASE i = 0
      <4>1. i \notin 1 .. d BY <1>2, <3>3
      <4> QED BY <2>3, <3>2, <3>3, <4>1
    <3>4. CASE i # 0 /\ i \in 1 .. d BY <2>4, <3>2, <3>4
    <3>5. CASE i # 0 /\ i \notin 1 .. d BY <2>5, <3>2, <3>5
    <3> QED BY <3>3, <3>4, <3>5
  <2>7. memory' \in [Ring -> AnyCell] BY <2>6 DEF Arrive, Written
  <2>8. ERXWRPT' \in Ring BY <1>2, <1>6, <1>7, InRing
  <2>9. EPKTCNT' \in 0 .. MaxCount BY <1>3, EncAssumption
  <2> QED BY <2>7, <2>8, <2>9 DEF RInv, Typed, Arrive, driver
<1>9. Ringed'
  <2> DEFINE c == [i \in 1 .. n + 2 |-> IF i = n + 2 THEN u + d + 1 ELSE o[i]]
  <2>1. Layout(memory', ERXRDPT, n, o) BY <1>1, <1>2, <1>3, <1>6, FramesStay
  <2>2. Layout(memory', ERXRDPT, n + 1, c)
    <3>1. /\ memory'[Plus(ERXRDPT, u)].length = d /\ memory'[Plus(ERXRDPT, u)].good \in BOOLEAN
          /\ memory'[Plus(ERXRDPT, u)].next = Plus(ERXRDPT, u + d + 1)
      <4>1. f.good \in BOOLEAN BY EncAssumption
      <4> QED BY <1>2, <4>1
    <3> HIDE DEF n, d
    <3> QED BY <1>2, <1>3, <1>6, <2>1, <3>1, Longer
  <2>3. c[n + 1 + 1] = u + d + 1
    <3>1. n + 1 + 1 = n + 2 /\ n + 2 \in 1 .. n + 2 BY <1>3
    <3> QED BY <3>1
  <2>4. ERXRDPT' = ERXRDPT BY DEF Arrive
  <2> HIDE DEF n, d, u, c
  <2>5. Layout(memory', ERXRDPT', Unread', c) /\ ERXWRPT' = Plus(ERXRDPT', c[Unread' + 1])
    BY <1>2, <1>3, <2>2, <2>3, <2>4
  <2> QED BY <2>5 DEF Ringed
<1> QED BY <1>4, <1>5, <1>8, <1>9 DEF RInv

LEMMA DropRInv ==
  ASSUME RInv, NEW f \in Frames, Drop(f)
  PROVE  RInv'
<1> DEFINE n == Unread
<1>1. PICK o : Layout(memory, ERXRDPT, n, o) /\ ERXWRPT = Plus(ERXRDPT, o[n + 1])
  BY DEF RInv, Ringed
<1>2. Untouched(memory, memory', ERXRDPT, o[n + 1]) BY <1>1, Dropped
<1>3. UNCHANGED <<ERXRDPT, ERXWRPT, EPKTCNT, driver, pc>> /\ n \in Nat /\ Unread' = n
  BY UnreadCount DEF RInv, Drop, Unread
<1>4. Copied' BY <1>1, <1>2, <1>3, CopiedStays
<1>5. Counted' BY <1>3 DEF RInv, Counted
<1>6. ERXRDPT \in Ring BY DEF RInv, Typed
<1>7. Typed'
  <2>1. \A a \in Ring : memory'[a] \in {Garbage, memory[a]} BY DEF Drop
  <2>2. memory' = [a \in Ring |-> memory'[a]] BY DEF Drop
  <2>3. memory' \in [Ring -> AnyCell] BY <2>1, <2>2 DEF RInv, Typed, AnyCell
  <2> QED BY <1>3, <2>3 DEF RInv, Typed, driver
<1>8. Ringed'
  <2>1. Layout(memory', ERXRDPT, n, o) BY <1>1, <1>2, <1>3, <1>6, FramesStay
  <2> QED BY <1>1, <1>3, <2>1 DEF Ringed
<1> QED BY <1>4, <1>5, <1>7, <1>8 DEF RInv

LEMMA SelectRInv ==
  ASSUME RInv, Select
  PROVE  RInv'
<1>1. /\ pc = "idle" /\ pc' = "header" /\ EPKTCNT # 0 /\ at' = next_frame_pointer /\ frame' = <<>>
      /\ UNCHANGED <<memory, ERXWRPT, ERXRDPT, EPKTCNT, next_frame_pointer, length, rx_frame>>
  BY DEF Select, Receiving, At, chip
<1>2. Typed'
  <2>1. <<>> \in Seq(AnyCell) /\ Len(<<>>) = 0 OBVIOUS
  <2>2. length \in 0 .. BufferLength BY DEF RInv, Typed
  <2>3. frame' \in Seq(AnyCell) /\ Len(frame') + length' <= BufferLength
    BY <1>1, <2>1, <2>2, EncAssumption
  <2> QED BY <1>1, <2>3 DEF RInv, Typed, Pcs
<1>3. Counted' BY <1>1, EncAssumption DEF RInv, Typed, Counted
<1>4. Copied' BY <1>1 DEF RInv, Copied
<1>5. Ringed'
  <2>1. Unread' = Unread BY <1>1 DEF Unread
  <2> QED BY <1>1, <2>1, SameRing DEF RInv
<1> QED BY <1>2, <1>3, <1>4, <1>5 DEF RInv

LEMMA ReadHeaderRInv ==
  ASSUME RInv, ReadHeader
  PROVE  RInv'
<1>1. /\ pc = "header" /\ pc' = "data" /\ next_frame_pointer' = memory[at].next
      /\ length' = LengthOf(memory[at].length, memory[at].good) /\ at' = Plus(at, 1)
      /\ UNCHANGED <<memory, ERXWRPT, ERXRDPT, EPKTCNT, frame, rx_frame>>
  BY DEF ReadHeader, Receiving, At, chip
<1>2. at = ERXRDPT /\ frame = <<>> /\ ERXRDPT \in Ring BY <1>1 DEF RInv, Typed, Copied
<1>3. Unread' = Unread /\ Unread > 0 BY <1>1, UnreadCount, EncAssumption DEF RInv, Typed, Counted, Unread
<1>4. PICK o : Layout(memory, ERXRDPT, Unread, o) BY DEF RInv, Ringed
<1> DEFINE h == memory[ERXRDPT]
<1>5. /\ o[2] \in Ring /\ h.next = Plus(ERXRDPT, o[2])
      /\ LengthOf(h.length, h.good) \in 0 .. BufferLength
  BY <1>3, <1>4, First
<1>6. h.next \in Ring /\ Plus(ERXRDPT, 1) \in Ring
  <2>1. o[2] \in 0 .. RingLength /\ 1 \in 0 .. RingLength BY <1>5, EncAssumption DEF Ring
  <2> QED BY <1>2, <1>5, <2>1, InRing
<1> HIDE DEF h
<1>7. next_frame_pointer' = h.next /\ length' = LengthOf(h.length, h.good) /\ at' = Plus(ERXRDPT, 1)
  BY <1>1, <1>2 DEF h
<1>8. Len(frame) = 0 /\ frame \in Seq(AnyCell) BY <1>2
<1>9. length' \in 0 .. BufferLength /\ 0 + length' = length' /\ 0 + 1 = 1 BY <1>5, <1>7, EncAssumption
<1>10. Typed'
  <2>1. Len(frame') + length' <= BufferLength BY <1>1, <1>8, <1>9, EncAssumption
  <2> QED BY <1>1, <1>6, <1>7, <1>9, <2>1 DEF RInv, Typed, Pcs
<1>11. Counted' BY <1>1 DEF RInv, Counted
<1>12. Copied'
  <2>1. h' = h /\ Len(frame') = 0 BY <1>1, <1>8 DEF h
  <2>2. 1 .. Len(frame') = {} BY <2>1
  <2>3. Len(frame') + length' = length' /\ Len(frame') + 1 = 1 BY <1>9, <2>1
  <2>4. next_frame_pointer' = h' .next /\ length' = LengthOf(h' .length, h' .good) BY <1>7, <2>1
  <2> QED BY <1>1, <1>7, <2>2, <2>3, <2>4 DEF Copied, h
<1>13. Ringed' BY <1>1, <1>3, SameRing DEF RInv
<1> QED BY <1>10, <1>11, <1>12, <1>13 DEF RInv

LEMMA CopyRInv ==
  ASSUME RInv, Copy
  PROVE  RInv'
<1>1. /\ pc = "data" /\ pc' = "data" /\ length > 0 /\ frame' = Append(frame, memory[at])
      /\ at' = Plus(at, 1) /\ length' = length - 1
      /\ UNCHANGED <<memory, ERXWRPT, ERXRDPT, EPKTCNT, next_frame_pointer, rx_frame>>
  BY DEF Copy, Receiving, At, chip
<1>2. Unread' = Unread /\ Unread > 0 BY <1>1, UnreadCount DEF RInv, Unread
<1>3. PICK o : Layout(memory, ERXRDPT, Unread, o) BY DEF RInv, Ringed
<1> DEFINE l == LengthOf(memory[ERXRDPT].length, memory[ERXRDPT].good)
           k == Len(frame)
<1>4. o[2] \in Ring /\ l \in 0 .. BufferLength /\ l < o[2] BY <1>2, <1>3, First
<1>5. /\ ERXRDPT \in Ring /\ memory \in [Ring -> AnyCell] /\ frame \in Seq(AnyCell) /\ at \in Ring
      /\ length \in Nat /\ k \in Nat
  BY EncAssumption DEF RInv, Typed
<1>6. k + length = l /\ at = Plus(ERXRDPT, k + 1) /\ \A i \in 1 .. k : frame[i] = memory[Plus(ERXRDPT, i)]
  BY <1>1 DEF RInv, Copied
<1>7. /\ frame' \in Seq(AnyCell) /\ Len(frame') = k + 1
      /\ \A i \in 1 .. k : frame'[i] = frame[i]
      /\ frame'[k + 1] = memory[at]
  <2>1. memory[at] \in AnyCell BY <1>5
  <2> QED BY <1>1, <1>5, <2>1, AppendProperties
<1>8. at' = Plus(ERXRDPT, k + 2) /\ at' \in Ring
  <2> HIDE DEF k, l
  <2>1. k + 1 \in Ring /\ 1 \in 0 .. RingLength /\ k + 1 + 1 <= RingLength /\ k + 1 + 1 = k + 2
        /\ k + 2 \in 0 .. RingLength
    BY <1>1, <1>4, <1>5, <1>6, EncAssumption DEF Ring
  <2>2. Plus(Plus(ERXRDPT, k + 1), 1) = Plus(ERXRDPT, k + 2) BY <1>5, <2>1, Further
  <2> QED BY <1>1, <1>5, <1>6, <2>1, <2>2, InRing
<1>9. Typed'
  <2>1. /\ length' \in 0 .. BufferLength /\ k + 1 + length' = k + length
        /\ k + 1 + length' <= BufferLength
    <3>1. k + length <= BufferLength /\ length \in 0 .. BufferLength BY DEF RInv, Typed
    <3> HIDE DEF k
    <3> QED BY <1>1, <1>5, <3>1, EncAssumption
  <2>2. Len(frame') + length' <= BufferLength BY <1>7, <2>1
  <2> QED BY <1>1, <1>7, <1>8, <2>1, <2>2 DEF RInv, Typed, Pcs
<1>10. Counted' BY <1>1 DEF RInv, Counted
<1>11. Copied'
  <2>1. Len(frame') + 1 = k + 2 /\ Len(frame') + length' = k + length
    <3> HIDE DEF k
    <3> QED BY <1>1, <1>5, <1>7
  <2>2. \A i \in 1 .. k + 1 : frame'[i] = memory[Plus(ERXRDPT, i)]
    <3>1. SUFFICES ASSUME NEW i \in 1 .. k + 1 PROVE frame'[i] = memory[Plus(ERXRDPT, i)] OBVIOUS
    <3>2. CASE i = k + 1 BY <1>6, <1>7, <3>2
    <3>3. CASE i # k + 1
      <4> HIDE DEF k
      <4>1. i \in 1 .. k BY <1>5, <3>3
      <4> QED BY <1>6, <1>7, <4>1
    <3> QED BY <3>2, <3>3
  <2>3. next_frame_pointer = memory[ERXRDPT].next BY <1>1 DEF RInv, Copied
  <2> QED BY <1>1, <1>6, <1>7, <1>8, <2>1, <2>2, <2>3 DEF Copied
<1>12. Ringed' BY <1>1, <1>2, SameRing DEF RInv
<1> QED BY <1>9, <1>10, <1>11, <1>12 DEF RInv

(* ERXRDPT moves over the first frame, and the rest stays where it is.       *)
LEMMA FreeShortens ==
  ASSUME RInv, Free, NEW o, Layout(memory, ERXRDPT, Unread, o)
  PROVE  LET c == Moved(Unread, o)
         IN /\ Unread \in Nat /\ Unread > 0 /\ Unread <= MaxCount
            /\ Unread' = Unread - 1 /\ memory' = memory
            /\ ERXRDPT' = Plus(ERXRDPT, o[2]) /\ ERXRDPT' \in Ring
            /\ Layout(memory, ERXRDPT', Unread - 1, c)
            /\ \A i \in 1 .. Unread : Plus(ERXRDPT', c[i]) = Plus(ERXRDPT, o[i + 1])
<1>1. pc = "data" /\ pc' = "count" /\ ERXRDPT' = next_frame_pointer /\ UNCHANGED <<memory, EPKTCNT>>
  BY DEF Free, Receiving, At
<1>2. Unread \in Nat /\ Unread > 0 /\ Unread <= MaxCount BY <1>1, UnreadCount DEF RInv
<1>3. Unread' = Unread - 1 BY <1>1 DEF Unread
<1>4. next_frame_pointer = memory[ERXRDPT].next BY <1>1 DEF RInv, Copied
<1>5. memory[ERXRDPT].next = Plus(ERXRDPT, o[2]) BY <1>2, First
<1>6. ERXRDPT \in Ring BY DEF RInv, Typed
<1>7. ERXRDPT' = Plus(ERXRDPT, o[2]) BY <1>1, <1>4, <1>5
<1> DEFINE n == Unread
<1> HIDE DEF n
<1>8. n = Unread BY DEF n
<1>9. /\ Plus(ERXRDPT, o[2]) \in Ring
      /\ Layout(memory, Plus(ERXRDPT, o[2]), n - 1, Moved(n, o))
      /\ \A i \in 1 .. n : Plus(Plus(ERXRDPT, o[2]), Moved(n, o)[i]) = Plus(ERXRDPT, o[i + 1])
  <2>1. n \in Nat /\ n > 0 /\ Layout(memory, ERXRDPT, n, o) BY <1>2, <1>8
  <2> QED BY <1>6, <2>1, Shorter
<1> QED BY <1>1, <1>2, <1>3, <1>7, <1>8, <1>9

LEMMA FreeRInv ==
  ASSUME RInv, Free
  PROVE  RInv'
<1>1. PICK o : Layout(memory, ERXRDPT, Unread, o) /\ ERXWRPT = Plus(ERXRDPT, o[Unread + 1])
  BY DEF RInv, Ringed
<1> DEFINE n == Unread
           c == Moved(n, o)
<1>2. /\ n \in Nat /\ n > 0 /\ Unread' = n - 1 /\ memory' = memory /\ ERXRDPT' \in Ring
      /\ Layout(memory, ERXRDPT', n - 1, c)
      /\ \A i \in 1 .. n : Plus(ERXRDPT', c[i]) = Plus(ERXRDPT, o[i + 1])
  BY <1>1, FreeShortens
<1>3. /\ pc = "data" /\ pc' = "count" /\ ERXRDPT' = next_frame_pointer
      /\ UNCHANGED <<memory, ERXWRPT, EPKTCNT, next_frame_pointer, at, length, frame, rx_frame>>
  BY DEF Free, Receiving, At
<1>4. Typed' BY <1>2, <1>3 DEF RInv, Typed, Pcs
<1>5. Counted' BY <1>3 DEF RInv, Counted
<1>6. Copied' BY <1>3 DEF Copied
<1>7. Ringed'
  <2> HIDE DEF n, c
  <2>1. Unread' + 1 = n /\ n \in 1 .. n BY <1>2
  <2>2. ERXWRPT' = Plus(ERXRDPT', c[Unread' + 1])
    <3>1. Plus(ERXRDPT', c[n]) = Plus(ERXRDPT, o[n + 1]) BY <1>2, <2>1
    <3> QED BY <1>1, <1>3, <2>1, <3>1 DEF n
  <2> QED BY <1>2, <2>2 DEF Ringed
<1> QED BY <1>4, <1>5, <1>6, <1>7 DEF RInv

LEMMA PktDecRInv ==
  ASSUME RInv, PktDec
  PROVE  RInv'
<1>1. /\ pc = "count" /\ pc' = "idle" /\ EPKTCNT' = EPKTCNT - 1 /\ rx_frame' = frame
      /\ UNCHANGED <<memory, ERXWRPT, ERXRDPT, next_frame_pointer, at, length, frame>>
  BY DEF PktDec, Receiving, At
<1>2. EPKTCNT' \in 0 .. MaxCount BY <1>1, EncAssumption DEF RInv, Typed, Counted
<1>3. Typed'
  <2>1. Len(frame) <= BufferLength BY EncAssumption DEF RInv, Typed
  <2> QED BY <1>1, <1>2, <2>1 DEF RInv, Typed, Pcs
<1>4. Counted' /\ Copied' BY <1>1 DEF RInv, Counted, Copied
<1>5. Unread' = Unread BY <1>1 DEF Unread
<1>6. Ringed' BY <1>1, <1>5, SameRing DEF RInv
<1> QED BY <1>3, <1>4, <1>6 DEF RInv

(* What the transmitter does leaves the ring and the driver alone. *)
LEMMA TransmitRInv ==
  ASSUME RInv, UNCHANGED receiver, pc \notin {"header", "data", "count"},
         pc' \in Pcs \ {"header", "data", "count"}
  PROVE  RInv'
<1>1. UNCHANGED <<memory, ERXWRPT, ERXRDPT, EPKTCNT, next_frame_pointer, at, length, frame, rx_frame>>
  BY DEF receiver, chip, driver
<1>2. Typed' BY <1>1 DEF RInv, Typed
<1>3. Counted' /\ Copied' BY <1>1 DEF RInv, Counted, Copied
<1>4. Ringed' BY <1>1, SameRing DEF RInv, Unread
<1> QED BY <1>2, <1>3, <1>4 DEF RInv

LEMMA StutterRInv ==
  ASSUME RInv, UNCHANGED <<receiver, pc>>
  PROVE  RInv'
<1>1. UNCHANGED <<memory, ERXWRPT, ERXRDPT, EPKTCNT, next_frame_pointer, at, length, frame, rx_frame, pc>>
  BY DEF receiver, chip, driver
<1>2. Typed' BY <1>1 DEF RInv, Typed
<1>3. Counted' /\ Copied' BY <1>1 DEF RInv, Counted, Copied
<1>4. Ringed' BY <1>1, SameRing DEF RInv, Unread
<1> QED BY <1>2, <1>3, <1>4 DEF RInv

LEMMA RestartRInv ==
  ASSUME enc_init
  PROVE  RInv'
<1>1. 0 \in Ring BY EncAssumption DEF Ring
<1>2. Typed'
  <2>1. memory' \in [Ring -> AnyCell] BY DEF enc_init, AnyCell
  <2>2. frame' \in Seq(AnyCell) /\ rx_frame' \in Seq(AnyCell) /\ Len(frame') = 0 /\ Len(rx_frame') = 0
    BY DEF enc_init
  <2> QED BY <1>1, <2>1, <2>2, EncAssumption DEF Typed, enc_init, EmptyRing, Pcs
<1>3. Counted' /\ Copied' BY DEF Counted, Copied, enc_init, EmptyRing
<1>4. Ringed'
  <2> DEFINE o == [i \in 1 .. 0 + 1 |-> 0]
  <2>1. Layout(memory', 0, 0, o) BY <1>1 DEF Layout
  <2>2. Plus(0, o[0 + 1]) = 0 BY <1>1, Wrap, EncAssumption
  <2>3. Unread' = 0 /\ ERXRDPT' = 0 /\ ERXWRPT' = 0 BY DEF enc_init, EmptyRing, Unread
  <2> QED BY <2>1, <2>2, <2>3 DEF Ringed
<1> QED BY <1>2, <1>3, <1>4 DEF RInv

(* The steps that change neither the ring nor what the driver has of it. *)
Elsewhere ==
  /\ UNCHANGED receiver
  /\ \/ UNCHANGED pc
     \/ pc \notin {"header", "data", "count"} /\ pc' \in Pcs \ {"header", "data", "count"}

LEMMA TransmitterIsElsewhere ==
  ASSUME enc_send_frame \/ (\E f \in Outgoing : Send(f)) \/ Sent
  PROVE  Elsewhere
<1>1. CASE enc_send_frame
  BY <1>1 DEF enc_send_frame, ResetTransmitter, NothingToReset, WaitBefore, Write, SetTXRTS, Poll,
              Sending, At, Elsewhere, Pcs
<1>2. CASE \E f \in Outgoing : Send(f) BY <1>2 DEF Send, Sending, At, Elsewhere, Pcs
<1>3. CASE Sent BY <1>3 DEF Sent, Elsewhere
<1> QED BY <1>1, <1>2, <1>3

LEMMA NextRInv ==
  ASSUME RInv, [Next]_vars
  PROVE  RInv'
<1>1. CASE enc_receive_frame
  <2>1. CASE NoFrame BY <2>1, StutterRInv DEF NoFrame, vars
  <2> QED BY <1>1, <2>1, SelectRInv, ReadHeaderRInv, CopyRInv, FreeRInv, PktDecRInv
          DEF enc_receive_frame
<1>2. CASE enc_send_frame \/ (\E f \in Outgoing : Send(f)) \/ Sent
  BY <1>2, TransmitterIsElsewhere, TransmitRInv, StutterRInv DEF Elsewhere
<1>3. CASE \E f \in Frames : Arrive(f) \/ Drop(f) BY <1>3, ArriveRInv, DropRInv
<1>4. CASE enc_init BY <1>4, RestartRInv
<1>5. CASE UNCHANGED vars BY <1>5, StutterRInv DEF vars
<1> QED BY <1>1, <1>2, <1>3, <1>4, <1>5 DEF Next

LEMMA RInvariant == Spec => []RInv
<1>1. Init => RInv BY InitRInv
<1>2. RInv /\ [Next]_vars => RInv' BY NextRInv
<1> QED BY <1>1, <1>2, PTL DEF Spec

-------------------------------------------------------------------------------
(* For rings and buffers of any size, and whatever frames arrive in them,    *)
(* the pointers of the driver stay in the ring, no more frames are counted   *)
(* than can be, and no more is copied than the buffer of the main loop       *)
(* holds (enc.c:306-339).                                                    *)
THEOREM TypeCorrect == Spec => []TypeOK
<1>1. RInv => TypeOK BY DEF RInv, Typed, TypeOK, Pcs
<1> QED BY <1>1, RInvariant, PTL

(* Whatever arrives or is given up while the driver reads, the pointers lead *)
(* from ERXRDPT through all frames that are counted to where the chip        *)
(* writes: no room is lost, in the middle of a call as well                  *)
(* (enc.c:314-337).                                                          *)
THEOREM RoomIsKept == Spec => []NoRoomLost
<1>1. ASSUME RInv PROVE NoRoomLost
  <2>1. PICK o : Layout(memory, ERXRDPT, Unread, o) /\ ERXWRPT = Plus(ERXRDPT, o[Unread + 1])
    BY <1>1 DEF RInv, Ringed
  <2>2. Unread \in Nat /\ Unread <= MaxCount /\ ERXRDPT \in Ring BY <1>1, UnreadCount DEF RInv, Typed
  <2>3. Unread + 1 \in 1 .. Unread + 1 BY <2>2
  <2>4. Chain(memory, ERXRDPT)[Unread + 1] = ERXWRPT BY <2>1, <2>2, <2>3, ChainInLayout
  <2>5. Begins = Chain(memory, ERXRDPT) BY DEF Begins, Chain
  <2> QED BY <2>4, <2>5 DEF NoRoomLost
<1> QED BY <1>1, RInvariant, PTL

-------------------------------------------------------------------------------
(* The transmitter: the chip is sending only while the driver waits for it,  *)
(* and what was written before lies where it begins.                         *)
Transmits ==
  /\ pc \in Pcs /\ TXRTS \in BOOLEAN /\ TXERIF \in BOOLEAN
  /\ TXRTS => pc = "poll"
  /\ pc \in {"wait", "write", "start"} => ~TXERIF

Prepared ==
  /\ transmit \in [0 .. BufferLength -> AnyCell]
  /\ tx_frame \in Seq(Cells) /\ Len(tx_frame) <= BufferLength
  /\ pc \in {"start", "poll"} =>
       /\ ETXND = Len(tx_frame) /\ transmit[0] = Control
       /\ \A i \in 1 .. Len(tx_frame) : transmit[i] = tx_frame[i]

TInv == Transmits /\ ErrorsCounted /\ Prepared

LEMMA InitTInv ==
  ASSUME Init
  PROVE  TInv
<1>1. transmit \in [0 .. BufferLength -> AnyCell] BY DEF Init, AnyCell
<1>2. tx_frame \in Seq(Cells) /\ Len(tx_frame) <= BufferLength
  <2>1. tx_frame = <<>> BY DEF Init
  <2> QED BY <2>1, EncAssumption
<1>3. pc = "idle" /\ TXRTS = FALSE /\ TXERIF = FALSE /\ uncounted = 0 BY DEF Init
<1> QED BY <1>1, <1>2, <1>3 DEF TInv, Transmits, ErrorsCounted, Prepared, Pcs

LEMMA WriteTInv ==
  ASSUME TInv, Write
  PROVE  TInv'
<1>1. /\ pc = "write" /\ pc' = "start" /\ ETXND' = Len(tx_frame)
      /\ UNCHANGED <<TXRTS, TXERIF, tx_frame, uncounted>>
  BY DEF Write, Sending, At
<1>2. DOMAIN transmit = 0 .. BufferLength BY DEF TInv, Prepared
<1>3. tx_frame \in Seq(Cells) /\ Len(tx_frame) \in Nat /\ Len(tx_frame) <= BufferLength
  BY DEF TInv, Prepared
<1>4. transmit' = [i \in 0 .. BufferLength |->
                     IF i = 0 THEN Control ELSE IF i <= Len(tx_frame) THEN tx_frame[i] ELSE transmit[i]]
  BY <1>2 DEF Write
<1>5. transmit' \in [0 .. BufferLength -> AnyCell]
  <2>1. \A i \in 1 .. Len(tx_frame) : tx_frame[i] \in AnyCell BY <1>3 DEF AnyCell
  <2>2. \A i \in 0 .. BufferLength : i # 0 /\ i <= Len(tx_frame) => i \in 1 .. Len(tx_frame)
    BY <1>3, EncAssumption
  <2>3. Control \in AnyCell /\ \A i \in 0 .. BufferLength : transmit[i] \in AnyCell
    BY DEF TInv, Prepared, AnyCell
  <2> QED BY <1>4, <2>1, <2>2, <2>3
<1>6. transmit'[0] = Control
  <2>1. 0 \in 0 .. BufferLength BY EncAssumption
  <2> QED BY <1>4, <2>1
<1>7. \A i \in 1 .. Len(tx_frame) : transmit'[i] = tx_frame[i]
  <2>1. \A i \in 1 .. Len(tx_frame) : i \in 0 .. BufferLength /\ i # 0 /\ i <= Len(tx_frame)
    BY <1>3, EncAssumption
  <2> QED BY <1>4, <2>1
<1>8. Prepared' BY <1>1, <1>3, <1>5, <1>6, <1>7 DEF Prepared
<1>9. Transmits' /\ ErrorsCounted' BY <1>1 DEF TInv, Transmits, ErrorsCounted, Pcs
<1> QED BY <1>8, <1>9 DEF TInv

LEMMA NextTInv ==
  ASSUME TInv, [Next]_vars
  PROVE  TInv'
<1>1. CASE Write BY <1>1, WriteTInv
<1>2. CASE ResetTransmitter
  <2>1. /\ pc = "check" /\ pc' = "wait" /\ TXERIF /\ uncounted' = uncounted - 1
        /\ TXERIF' = FALSE /\ TXRTS' = FALSE /\ UNCHANGED <<transmit, ETXND, tx_frame>>
    BY <1>2 DEF ResetTransmitter, Sending, At
  <2>2. uncounted = 1 BY <2>1 DEF TInv, ErrorsCounted
  <2>3. uncounted' = 0 BY <2>1, <2>2
  <2>4. ErrorsCounted' BY <2>1, <2>3 DEF ErrorsCounted
  <2>5. Transmits' BY <2>1 DEF Transmits, Pcs
  <2>6. Prepared' BY <2>1 DEF TInv, Prepared
  <2> QED BY <2>4, <2>5, <2>6 DEF TInv
<1>3. CASE NothingToReset \/ WaitBefore \/ Poll
  <2>1. /\ UNCHANGED transmitter
        /\ \/ pc = "check" /\ pc' = "wait" /\ ~TXERIF
           \/ pc = "wait" /\ pc' = "write"
           \/ pc = "poll" /\ pc' = "idle" /\ ~TXRTS
    BY <1>3 DEF NothingToReset, WaitBefore, Poll, Sending, At
  <2> QED BY <2>1 DEF TInv, Transmits, ErrorsCounted, Prepared, Pcs, transmitter
<1>4. CASE SetTXRTS
  <2>1. /\ pc = "start" /\ pc' = "poll" /\ TXERIF' = FALSE /\ TXRTS' = TRUE
        /\ UNCHANGED <<transmit, ETXND, tx_frame, uncounted>>
    BY <1>4 DEF SetTXRTS, Sending, At
  <2> QED BY <2>1 DEF TInv, Transmits, ErrorsCounted, Prepared, Pcs
<1>5. CASE \E f \in Outgoing : Send(f)
  <2>1. PICK f \in Outgoing : Send(f) BY <1>5
  <2>2. /\ pc = "idle" /\ pc' = "check" /\ tx_frame' = f
        /\ UNCHANGED <<transmit, ETXND, TXRTS, TXERIF, uncounted>>
    BY <2>1 DEF Send, Sending, At
  <2>3. f \in Seq(Cells) /\ Len(f) <= BufferLength BY EncAssumption
  <2> QED BY <2>2, <2>3 DEF TInv, Transmits, ErrorsCounted, Prepared, Pcs
<1>6. CASE Sent
  <2>1. PICK failed \in BOOLEAN, hangs \in BOOLEAN :
          /\ TXRTS /\ ~TXERIF /\ TXERIF' = failed /\ TXRTS' = hangs
          /\ uncounted' = uncounted + IF failed THEN 1 ELSE 0
          /\ UNCHANGED <<pc, transmit, ETXND, tx_frame>>
    BY <1>6 DEF Sent
  <2>2. pc = "poll" /\ uncounted = 0 BY <2>1 DEF TInv, Transmits, ErrorsCounted
  <2>3. ErrorsCounted' BY <2>1, <2>2 DEF ErrorsCounted
  <2>4. Transmits' BY <2>1, <2>2 DEF Transmits, Pcs
  <2>5. Prepared' BY <2>1 DEF TInv, Prepared
  <2> QED BY <2>3, <2>4, <2>5 DEF TInv
<1>7. CASE enc_init
  <2>1. transmit' \in [0 .. BufferLength -> AnyCell] BY <1>7 DEF enc_init, AnyCell
  <2>2. tx_frame' \in Seq(Cells) /\ Len(tx_frame') <= BufferLength
    <3>1. tx_frame' = <<>> BY <1>7 DEF enc_init
    <3> QED BY <3>1, EncAssumption
  <2>3. pc' = "idle" /\ TXRTS' = FALSE /\ TXERIF' = FALSE /\ uncounted' = 0 BY <1>7 DEF enc_init
  <2> QED BY <2>1, <2>2, <2>3 DEF TInv, Transmits, ErrorsCounted, Prepared, Pcs
<1>8. CASE enc_receive_frame \/ (\E f \in Frames : Arrive(f) \/ Drop(f)) \/ UNCHANGED vars
  <2>1. /\ UNCHANGED transmitter
        /\ \/ UNCHANGED pc
           \/ pc \in {"idle", "header", "data", "count"} /\ pc' \in {"idle", "header", "data", "count"}
    BY <1>8 DEF enc_receive_frame, NoFrame, Select, ReadHeader, Copy, Free, PktDec, Receiving, At,
                Arrive, Drop, vars
  <2> QED BY <2>1 DEF TInv, Transmits, ErrorsCounted, Prepared, Pcs, transmitter
<1> QED BY <1>1, <1>2, <1>3, <1>4, <1>5, <1>6, <1>7, <1>8 DEF Next, enc_send_frame

LEMMA TInvariant == Spec => []TInv
<1>1. Init => TInv BY InitTInv
<1>2. TInv /\ [Next]_vars => TInv' BY NextTInv
<1> QED BY <1>1, <1>2, PTL DEF Spec

(* Every failure is counted by the next call, and by no other, for any       *)
(* frames and however often the transmitter fails, hangs or is reset         *)
(* (enc.c:258-290).                                                          *)
THEOREM FailuresAreCounted == Spec => []ErrorsCounted
<1>1. TInv => ErrorsCounted BY DEF TInv
<1> QED BY <1>1, TInvariant, PTL

(* Whatever the transmit buffer has held before, what the chip is told to    *)
(* send is the control octet and the frame of this call, whole and no more,  *)
(* for frames of any length (enc.c:269-287).                                 *)
THEOREM WholeIsSent == Spec => []SentWhole
<1>1. ASSUME TInv, TXRTS
      PROVE  SubSeq([i \in 1 .. BufferLength + 1 |-> transmit[i - 1]], 1, ETXND + 1)
               = <<Control>> \o tx_frame
  <2>1. /\ ETXND = Len(tx_frame) /\ transmit[0] = Control
        /\ \A i \in 1 .. Len(tx_frame) : transmit[i] = tx_frame[i]
    BY <1>1 DEF TInv, Transmits, Prepared
  <2>2. tx_frame \in Seq(Cells) /\ Len(tx_frame) \in Nat /\ Len(tx_frame) <= BufferLength
    BY <1>1 DEF TInv, Prepared
  <2> DEFINE n == Len(tx_frame)
             s == [i \in 1 .. BufferLength + 1 |-> transmit[i - 1]]
             t == <<Control>> \o tx_frame
  <2>3. transmit \in [0 .. BufferLength -> AnyCell] BY <1>1 DEF TInv, Prepared
  <2>4. s \in Seq(AnyCell) /\ Len(s) = BufferLength + 1
    <3>1. \A i \in 1 .. BufferLength + 1 : transmit[i - 1] \in AnyCell BY <2>3, EncAssumption
    <3>2. BufferLength + 1 \in Nat BY EncAssumption
    <3> QED BY <3>1, <3>2
  <2>5. \A i \in 1 .. BufferLength + 1 : s[i] = transmit[i - 1] OBVIOUS
  <2>6. /\ t \in Seq(AnyCell) /\ Len(t) = n + 1 /\ t[1] = Control
        /\ \A i \in 2 .. n + 1 : t[i] = tx_frame[i - 1]
    <3>1. <<Control>> \in Seq(AnyCell) /\ Len(<<Control>>) = 1 /\ <<Control>>[1] = Control
      BY DEF AnyCell
    <3>2. tx_frame \in Seq(AnyCell)
      <4>1. \A i \in 1 .. Len(tx_frame) : tx_frame[i] \in AnyCell BY <2>2 DEF AnyCell
      <4> QED BY <2>2, <4>1
    <3>3. /\ t \in Seq(AnyCell) /\ Len(t) = Len(<<Control>>) + n
          /\ \A i \in 1 .. Len(<<Control>>) + n :
               t[i] = IF i <= Len(<<Control>>) THEN <<Control>>[i] ELSE tx_frame[i - Len(<<Control>>)]
      BY <3>1, <3>2, ConcatProperties
    <3> HIDE DEF t
    <3>4. Len(t) = n + 1 BY <2>2, <3>1, <3>3
    <3>5. \A i \in 1 .. n + 1 : t[i] = IF i <= 1 THEN Control ELSE tx_frame[i - 1]
      BY <2>2, <3>1, <3>3
    <3> QED BY <2>2, <3>3, <3>4, <3>5
  <2> HIDE DEF s, t
  <2>7. /\ Len(SubSeq(s, 1, n + 1)) = n + 1 /\ SubSeq(s, 1, n + 1) \in Seq(AnyCell)
        /\ \A i \in 1 .. n + 1 : SubSeq(s, 1, n + 1)[i] = s[i]
    <3>1. 1 \in 1 .. Len(s) + 1 /\ n + 1 \in 1 - 1 .. Len(s) BY <2>2, <2>4, EncAssumption
    <3>2. /\ SubSeq(s, 1, n + 1) \in Seq(AnyCell)
          /\ Len(SubSeq(s, 1, n + 1)) = IF 1 <= n + 1 THEN n + 1 - 1 + 1 ELSE 0
          /\ \A i \in 1 .. n + 1 - 1 + 1 : SubSeq(s, 1, n + 1)[i] = s[1 + i - 1]
      BY <2>4, <3>1, SubSeqProperties
    <3> QED BY <2>2, <3>2
  <2>8. \A i \in 1 .. n + 1 : s[i] = t[i]
    <3>1. SUFFICES ASSUME NEW i \in 1 .. n + 1 PROVE s[i] = t[i] OBVIOUS
    <3>2. i \in 1 .. BufferLength + 1 /\ s[i] = transmit[i - 1] BY <2>2, <2>5, EncAssumption
    <3>3. CASE i = 1 BY <2>1, <2>6, <3>2, <3>3
    <3>4. CASE i # 1
      <4>1. i \in 2 .. n + 1 /\ i - 1 \in 1 .. n BY <2>2, <3>4
      <4> QED BY <2>1, <2>6, <3>2, <4>1
    <3> QED BY <3>3, <3>4
  <2>9. SubSeq(s, 1, n + 1) = t BY <2>2, <2>6, <2>7, <2>8, SeqEqual
  <2> QED BY <2>1, <2>9 DEF s, t
<1>2. TInv => SentWhole BY <1>1 DEF SentWhole
<1> QED BY <1>2, TInvariant, PTL

-------------------------------------------------------------------------------
(* The queue. *)

LEMMA FramesOf ==
  ASSUME NEW mem, NEW rd \in Ring, NEW n \in Nat, n <= MaxCount, NEW o, Layout(mem, rd, n, o)
  PROVE  [i \in 1 .. n |-> FrameIn(mem, Chain(mem, rd)[i])]
           = [i \in 1 .. n |-> FrameIn(mem, Plus(rd, o[i]))]
<1>1. \A i \in 1 .. n + 1 : Chain(mem, rd)[i] = Plus(rd, o[i]) BY ChainInLayout
<1>2. \A i \in 1 .. n : i \in 1 .. n + 1 OBVIOUS
<1> QED BY <1>1, <1>2

LEMMA StoredFrames ==
  ASSUME RInv, NEW o, Layout(memory, ERXRDPT, Unread, o)
  PROVE  Stored = [i \in 1 .. Unread |-> FrameIn(memory, Plus(ERXRDPT, o[i]))]
<1>1. Unread \in Nat /\ Unread <= MaxCount /\ ERXRDPT \in Ring BY UnreadCount DEF RInv, Typed
<1>2. Stored = [i \in 1 .. Unread |-> FrameIn(memory, Chain(memory, ERXRDPT)[i])]
  BY DEF Stored, FrameAt, FrameIn, Begins, Chain
<1> QED BY <1>1, <1>2, FramesOf

LEMMA StoredFramesNext ==
  ASSUME NEW n \in Nat, n <= MaxCount, Unread' = n, ERXRDPT' \in Ring,
         NEW o, Layout(memory', ERXRDPT', n, o)
  PROVE  Stored' = [i \in 1 .. n |-> FrameIn(memory', Plus(ERXRDPT', o[i]))]
<1>1. Stored' = [i \in 1 .. n |-> FrameIn(memory', Chain(memory', ERXRDPT')[i])]
  BY DEF Stored, FrameAt, FrameIn, Begins, Chain
<1> QED BY <1>1, FramesOf

LEMMA SameStored ==
  ASSUME UNCHANGED <<memory, ERXRDPT>>, Unread' = Unread
  PROVE  Stored' = Stored
<1>1. Begins' = Begins BY DEF Begins
<1> QED BY <1>1 DEF Stored, FrameAt

Handed == IF pc = "count" THEN frame ELSE rx_frame

LEMMA ArriveQueues ==
  ASSUME RInv, NEW f \in Frames, Arrive(f)
  PROVE  Stored' = Append(Stored, f) /\ UNCHANGED Handed
<1> DEFINE n == Unread
           d == Len(f.data)
<1>1. PICK o : Layout(memory, ERXRDPT, n, o) /\ ERXWRPT = Plus(ERXRDPT, o[n + 1])
  BY DEF RInv, Ringed
<1> DEFINE u == o[n + 1]
<1>2. /\ d \in Nat /\ u \in Ring /\ Untouched(memory, memory', ERXRDPT, u)
      /\ memory'[Plus(ERXRDPT, u)] = [next |-> Plus(ERXRDPT, u + d + 1), length |-> d, good |-> f.good]
      /\ \A i \in 1 .. d : memory'[Plus(Plus(ERXRDPT, u), i)] = f.data[i]
  BY <1>1, Arrived
<1>3. /\ n \in Nat /\ Unread' = n + 1 /\ n + 1 <= MaxCount /\ ERXRDPT' = ERXRDPT
      /\ ERXRDPT \in Ring
  <2>1. /\ EPKTCNT \in Nat /\ EPKTCNT < MaxCount /\ EPKTCNT' = EPKTCNT + 1 /\ pc' = pc
        /\ ERXRDPT' = ERXRDPT
    BY EncAssumption DEF RInv, Typed, Arrive, Fits
  <2> QED BY <2>1, UnreadCount, EncAssumption DEF RInv, Typed, Unread
<1>4. \A i \in 1 .. n : FrameIn(memory', Plus(ERXRDPT, o[i])) = FrameIn(memory, Plus(ERXRDPT, o[i]))
  <2>1. Untouched(memory, memory', ERXRDPT, o[n + 1]) BY <1>2
  <2> HIDE DEF n
  <2>2. n \in Nat /\ ERXRDPT \in Ring /\ Layout(memory, ERXRDPT, n, o) BY <1>1, <1>3
  <2>3. ASSUME NEW i \in 1 .. n
        PROVE  FrameIn(memory', Plus(ERXRDPT, o[i])) = FrameIn(memory, Plus(ERXRDPT, o[i]))
    BY <2>1, <2>2, FramesStay
  <2> QED BY <2>3
<1>5. FrameIn(memory', Plus(ERXRDPT, u)) = f
  <2>1. f \in [data : Seq(Cells), good : BOOLEAN] BY EncAssumption
  <2>2. f = [data |-> f.data, good |-> f.good] /\ f.data = [i \in 1 .. d |-> f.data[i]] BY <2>1
  <2> HIDE DEF d, u
  <2>3. /\ memory'[Plus(ERXRDPT, u)].length = d /\ memory'[Plus(ERXRDPT, u)].good = f.good BY <1>2
  <2> QED BY <1>2, <2>2, <2>3 DEF FrameIn
<1>6. PICK c : Layout(memory', ERXRDPT', n + 1, c) /\ \A i \in 1 .. n + 1 : c[i] = o[i]
  <2> DEFINE c == [i \in 1 .. n + 2 |-> IF i = n + 2 THEN u + d + 1 ELSE o[i]]
  <2>1. Layout(memory', ERXRDPT, n, o) BY <1>1, <1>2, <1>3, FramesStay
  <2>2. /\ d >= Crc /\ u + d + 1 < RingLength
        /\ memory'[Plus(ERXRDPT, u)].length = d /\ memory'[Plus(ERXRDPT, u)].good \in BOOLEAN
        /\ memory'[Plus(ERXRDPT, u)].next = Plus(ERXRDPT, u + d + 1)
    <3>1. f.good \in BOOLEAN BY EncAssumption
    <3>2. d >= Crc /\ u + d + 1 < RingLength BY <1>1, Arrived
    <3> QED BY <1>2, <3>1, <3>2
  <2>3. Layout(memory', ERXRDPT, n + 1, c)
    <3> HIDE DEF n, d
    <3> QED BY <1>2, <1>3, <2>1, <2>2, Longer
  <2>4. \A i \in 1 .. n + 1 : c[i] = o[i] BY <1>3
  <2> HIDE DEF c
  <2> QED BY <1>3, <2>3, <2>4
<1>7. Stored' = [i \in 1 .. n + 1 |-> FrameIn(memory', Plus(ERXRDPT, o[i]))]
  <2> HIDE DEF n
  <2>1. Stored' = [i \in 1 .. n + 1 |-> FrameIn(memory', Plus(ERXRDPT', c[i]))]
    BY <1>3, <1>6, StoredFramesNext
  <2> QED BY <1>3, <1>6, <2>1
<1>8. Stored = [i \in 1 .. n |-> FrameIn(memory, Plus(ERXRDPT, o[i]))] BY <1>1, StoredFrames
<1> HIDE DEF n, u, d
<1>9. Len(Stored) = n BY <1>3, <1>8
<1>10. Stored' = [i \in 1 .. n + 1 |-> IF i = n + 1 THEN f ELSE Stored[i]]
  <2>1. \A i \in 1 .. n + 1 : i # n + 1 => i \in 1 .. n BY <1>3
  <2>2. \A i \in 1 .. n : Stored[i] = FrameIn(memory', Plus(ERXRDPT, o[i])) BY <1>4, <1>8
  <2> QED BY <1>5, <1>7, <2>1, <2>2 DEF u
<1>11. Stored' = Append(Stored, f)
  <2> DEFINE T == {Stored[i] : i \in 1 .. n} \cup {f}
  <2>1. Stored \in Seq(T)
    <3>1. \A i \in 1 .. n : Stored[i] \in T OBVIOUS
    <3>2. Stored = [i \in 1 .. n |-> Stored[i]] BY <1>8
    <3> HIDE DEF T
    <3> QED BY <1>3, <3>1, <3>2
  <2>2. f \in T OBVIOUS
  <2> HIDE DEF T
  <2>3. /\ Append(Stored, f) \in Seq(T) /\ Len(Append(Stored, f)) = n + 1
        /\ \A i \in 1 .. n : Append(Stored, f)[i] = Stored[i]
        /\ Append(Stored, f)[n + 1] = f
    BY <1>9, <2>1, <2>2, AppendProperties
  <2>4. Append(Stored, f) = [i \in 1 .. n + 1 |-> Append(Stored, f)[i]]
    <3>1. \A s \in Seq(T) : s = [i \in 1 .. Len(s) |-> s[i]] OBVIOUS
    <3> QED BY <2>3, <3>1
  <2>5. \A i \in 1 .. n + 1 : Append(Stored, f)[i] = IF i = n + 1 THEN f ELSE Stored[i]
    <3>1. \A i \in 1 .. n + 1 : i # n + 1 => i \in 1 .. n BY <1>3
    <3> QED BY <2>3, <3>1
  <2> QED BY <1>10, <2>4, <2>5
<1>12. UNCHANGED Handed BY DEF Arrive, driver, Handed
<1> QED BY <1>11, <1>12

LEMMA DropQueues ==
  ASSUME RInv, NEW f \in Frames, Drop(f)
  PROVE  UNCHANGED <<Stored, Handed>>
<1> DEFINE n == Unread
<1>1. PICK o : Layout(memory, ERXRDPT, n, o) /\ ERXWRPT = Plus(ERXRDPT, o[n + 1])
  BY DEF RInv, Ringed
<1>2. Untouched(memory, memory', ERXRDPT, o[n + 1]) BY <1>1, Dropped
<1>3. /\ ERXRDPT' = ERXRDPT /\ ERXRDPT \in Ring /\ n \in Nat /\ n <= MaxCount /\ Unread' = n
      /\ UNCHANGED Handed
  BY UnreadCount DEF RInv, Typed, Drop, Unread, Handed, driver
<1>4. Stored = [i \in 1 .. n |-> FrameIn(memory, Plus(ERXRDPT, o[i]))] BY <1>1, StoredFrames
<1> HIDE DEF n
<1>5. Layout(memory', ERXRDPT, n, o) BY <1>1, <1>2, <1>3, FramesStay
<1>6. ASSUME NEW i \in 1 .. n
      PROVE  FrameIn(memory', Plus(ERXRDPT, o[i])) = FrameIn(memory, Plus(ERXRDPT, o[i]))
  <2>1. n \in Nat /\ ERXRDPT \in Ring /\ Layout(memory, ERXRDPT, n, o) BY <1>1, <1>3
  <2> QED BY <1>2, <2>1, FramesStay
<1>7. Stored' = [i \in 1 .. n |-> FrameIn(memory', Plus(ERXRDPT, o[i]))]
  BY <1>3, <1>5, StoredFramesNext
<1>8. Stored' = Stored BY <1>4, <1>6, <1>7
<1> QED BY <1>3, <1>8

(* What the driver has copied when nothing is left is what it is to make of  *)
(* the frame.                                                                *)
LEMMA CopiedIsReading ==
  ASSUME RInv, Free
  PROVE  frame = Reading(FrameIn(memory, ERXRDPT))
<1> DEFINE h == memory[ERXRDPT]
           s == [i \in 1 .. h.length |-> memory[Plus(ERXRDPT, i)]]
           l == LengthOf(h.length, h.good)
<1>1. pc = "data" /\ length = 0 BY DEF Free, Receiving, At
<1>2. Unread > 0 BY <1>1, UnreadCount DEF RInv
<1>3. PICK o : Layout(memory, ERXRDPT, Unread, o) BY DEF RInv, Ringed
<1>4. h.length \in Nat /\ h.length >= Crc /\ h.good \in BOOLEAN BY <1>2, <1>3, First
<1>5. ERXRDPT \in Ring /\ memory \in [Ring -> AnyCell] /\ frame \in Seq(AnyCell) /\ Len(frame) \in Nat
  BY DEF RInv, Typed
<1>6. Len(frame) + length = l /\ \A i \in 1 .. Len(frame) : frame[i] = memory[Plus(ERXRDPT, i)]
  BY <1>1 DEF RInv, Copied
<1>7. l \in Nat /\ l <= h.length
  <2> HIDE DEF h
  <2> QED BY <1>4, Lengths, EncAssumption
<1>8. Len(frame) = l
  <2> HIDE DEF l
  <2> QED BY <1>1, <1>5, <1>6
<1>9. /\ FrameIn(memory, ERXRDPT).data = s /\ FrameIn(memory, ERXRDPT).good = h.good
  BY DEF FrameIn
<1> DEFINE T == {s[i] : i \in 1 .. h.length}
<1>10. s \in Seq(T) /\ Len(s) = h.length
  <2>1. \A i \in 1 .. h.length : s[i] \in T OBVIOUS
  <2>2. s = [i \in 1 .. h.length |-> s[i]] OBVIOUS
  <2> HIDE DEF T, s, h
  <2> QED BY <1>4, <2>1, <2>2
<1>11. Reading(FrameIn(memory, ERXRDPT)) = SubSeq(s, 1, l)
  <2> HIDE DEF s, h
  <2> QED BY <1>9, <1>10 DEF Reading
<1>12. \A i \in 1 .. l : s[i] = frame[i]
  <2>1. \A i \in 1 .. l : i \in 1 .. h.length
    <3> HIDE DEF l, h
    <3> QED BY <1>4, <1>7
  <2> HIDE DEF l, h
  <2> QED BY <1>6, <1>8, <2>1
<1> HIDE DEF s, h, l, T
<1>13. /\ Len(SubSeq(s, 1, l)) = l /\ SubSeq(s, 1, l) \in Seq(T)
       /\ \A i \in 1 .. l : SubSeq(s, 1, l)[i] = s[i]
  <2>1. 1 \in 1 .. Len(s) + 1 /\ l \in 1 - 1 .. Len(s) BY <1>4, <1>7, <1>10
  <2>2. /\ SubSeq(s, 1, l) \in Seq(T)
        /\ Len(SubSeq(s, 1, l)) = IF 1 <= l THEN l - 1 + 1 ELSE 0
        /\ \A i \in 1 .. l - 1 + 1 : SubSeq(s, 1, l)[i] = s[1 + i - 1]
    BY <1>10, <2>1, SubSeqProperties
  <2> QED BY <1>7, <2>2
<1>14. frame = SubSeq(s, 1, l) BY <1>5, <1>8, <1>12, <1>13, SeqEqual
<1> QED BY <1>11, <1>14

LEMMA FreeQueues ==
  ASSUME RInv, Free
  PROVE  Stored # <<>> /\ Stored' = Tail(Stored) /\ Handed' = Reading(Head(Stored))
<1> DEFINE n == Unread
<1>1. PICK o : Layout(memory, ERXRDPT, n, o) BY DEF RInv, Ringed
<1> DEFINE c == Moved(n, o)
<1>2. /\ n \in Nat /\ n > 0 /\ n <= MaxCount /\ Unread' = n - 1 /\ memory' = memory
      /\ ERXRDPT' \in Ring /\ Layout(memory, ERXRDPT', n - 1, c)
      /\ \A i \in 1 .. n : Plus(ERXRDPT', c[i]) = Plus(ERXRDPT, o[i + 1])
  BY <1>1, FreeShortens
<1>3. Stored = [i \in 1 .. n |-> FrameIn(memory, Plus(ERXRDPT, o[i]))] BY <1>1, StoredFrames
<1>4. Stored[1] = FrameIn(memory, ERXRDPT)
  <2>1. Plus(ERXRDPT, o[1]) = ERXRDPT BY <1>1, <1>2, First
  <2> HIDE DEF n
  <2>2. 1 \in 1 .. n BY <1>2
  <2> QED BY <1>3, <2>1, <2>2
<1> HIDE DEF n, c
<1>5. Stored' = [i \in 1 .. n - 1 |-> Stored[i + 1]]
  <2>1. n - 1 \in Nat /\ n - 1 <= MaxCount BY <1>2, EncAssumption
  <2>2. Layout(memory', ERXRDPT', n - 1, c) BY <1>2
  <2>3. Stored' = [i \in 1 .. n - 1 |-> FrameIn(memory', Plus(ERXRDPT', c[i]))]
    BY <1>2, <2>1, <2>2, StoredFramesNext
  <2>4. ASSUME NEW i \in 1 .. n - 1
        PROVE  FrameIn(memory', Plus(ERXRDPT', c[i])) = Stored[i + 1]
    <3>1. i \in 1 .. n /\ i + 1 \in 1 .. n BY <1>2
    <3>2. Plus(ERXRDPT', c[i]) = Plus(ERXRDPT, o[i + 1]) BY <1>2, <3>1
    <3>3. Stored[i + 1] = FrameIn(memory, Plus(ERXRDPT, o[i + 1])) BY <1>3, <3>1
    <3> QED BY <1>2, <3>2, <3>3
  <2> QED BY <2>3, <2>4
<1> DEFINE T == {Stored[i] : i \in 1 .. n}
<1>6. Stored \in Seq(T) /\ Len(Stored) = n
  <2>1. \A i \in 1 .. n : Stored[i] \in T OBVIOUS
  <2>2. Stored = [i \in 1 .. n |-> Stored[i]] BY <1>3
  <2> HIDE DEF T
  <2> QED BY <1>2, <2>1, <2>2
<1> HIDE DEF T
<1>7. Stored # <<>> BY <1>2, <1>6
<1>8. Head(Stored) = FrameIn(memory, ERXRDPT) BY <1>4, <1>6, <1>7, HeadTailProperties
<1>9. Tail(Stored) = [i \in 1 .. n - 1 |-> Stored[i + 1]]
  <2>1. /\ Tail(Stored) \in Seq(T) /\ Len(Tail(Stored)) = Len(Stored) - 1
        /\ \A i \in 1 .. Len(Tail(Stored)) : Tail(Stored)[i] = Stored[i + 1]
    BY <1>6, <1>7, HeadTailProperties
  <2>2. \A s \in Seq(T) : s = [i \in 1 .. Len(s) |-> s[i]] OBVIOUS
  <2>3. Tail(Stored) = [i \in 1 .. n - 1 |-> Tail(Stored)[i]] BY <1>6, <2>1, <2>2
  <2>4. \A i \in 1 .. n - 1 : Tail(Stored)[i] = Stored[i + 1] BY <1>6, <2>1
  <2> QED BY <2>3, <2>4
<1>10. Handed' = Reading(FrameIn(memory, ERXRDPT))
  <2>1. Handed' = frame BY DEF Free, Receiving, At, Handed
  <2> QED BY <2>1, CopiedIsReading
<1> QED BY <1>5, <1>7, <1>8, <1>9, <1>10

(* All other steps of a call, and those of the transmitter. *)
LEMMA OthersQueueNothing ==
  ASSUME RInv, UNCHANGED <<memory, ERXRDPT>>,
         \/ pc' # "count" /\ pc # "count" /\ UNCHANGED <<EPKTCNT, rx_frame>>
         \/ PktDec
         \/ UNCHANGED <<receiver, pc>>
  PROVE  UNCHANGED <<Stored, Handed>>
<1>1. CASE pc' # "count" /\ pc # "count" /\ UNCHANGED <<EPKTCNT, rx_frame>>
  BY <1>1, SameStored DEF Unread, Handed
<1>2. CASE PktDec
  <2>1. pc = "count" /\ pc' = "idle" /\ EPKTCNT' = EPKTCNT - 1 /\ rx_frame' = frame
    BY <1>2 DEF PktDec, Receiving, At
  <2> QED BY <2>1, SameStored DEF Unread, Handed
<1>3. CASE UNCHANGED <<receiver, pc>>
  BY <1>3, SameStored DEF Unread, Handed, receiver, chip, driver
<1> QED BY <1>1, <1>2, <1>3

LEMMA NextQueue ==
  ASSUME RInv, [Next]_vars
  PROVE  [Queue!Next]_(Queue!vars)
<1>1. SUFFICES ASSUME ~UNCHANGED <<Stored, Handed>> PROVE Queue!Next
  BY DEF Queue!vars, Handed
<1>2. CASE enc_receive_frame
  <2>1. CASE NoFrame
    <3>1. UNCHANGED <<memory, ERXRDPT, receiver, pc>>
      BY <2>1 DEF NoFrame, vars, receiver, chip
    <3> QED BY <1>1, <3>1, OthersQueueNothing
  <2>2. CASE Select \/ ReadHeader \/ Copy
    <3>1. /\ UNCHANGED <<memory, ERXRDPT, EPKTCNT, rx_frame>>
          /\ pc' # "count" /\ pc # "count"
      BY <2>2 DEF Select, ReadHeader, Copy, Receiving, At, chip
    <3> QED BY <1>1, <3>1, OthersQueueNothing
  <2>3. CASE Free
    <3>1. Stored # <<>> /\ Stored' = Tail(Stored) /\ Handed' = Reading(Head(Stored))
      BY <2>3, FreeQueues
    <3> QED BY <3>1 DEF Queue!Next, Queue!HandOver, Handed
  <2>4. CASE PktDec
    <3>1. UNCHANGED <<memory, ERXRDPT>> BY <2>4 DEF PktDec
    <3> QED BY <1>1, <2>4, <3>1, OthersQueueNothing
  <2> QED BY <1>2, <2>1, <2>2, <2>3, <2>4 DEF enc_receive_frame
<1>3. CASE enc_send_frame \/ (\E f \in Outgoing : Send(f)) \/ Sent
  <2>1. Elsewhere BY <1>3, TransmitterIsElsewhere
  <2>2. UNCHANGED <<memory, ERXRDPT, EPKTCNT, rx_frame>>
    BY <2>1 DEF Elsewhere, receiver, chip, driver
  <2>3. UNCHANGED <<receiver, pc>> \/ (pc' # "count" /\ pc # "count") BY <2>1 DEF Elsewhere
  <2> QED BY <1>1, <2>2, <2>3, OthersQueueNothing
<1>4. CASE \E f \in Frames : Arrive(f) \/ Drop(f)
  <2>1. PICK f \in Frames : Arrive(f) \/ Drop(f) BY <1>4
  <2>2. CASE Arrive(f)
    <3>1. Stored' = Append(Stored, f) /\ UNCHANGED Handed BY <2>2, ArriveQueues
    <3> QED BY <3>1 DEF Queue!Next, Queue!Arrive, Handed
  <2>3. CASE Drop(f) BY <1>1, <2>3, DropQueues
  <2> QED BY <2>1, <2>2, <2>3
<1>5. CASE enc_init
  <2>1. pc' = "idle" /\ EPKTCNT' = 0 /\ rx_frame' = <<>> BY <1>5 DEF enc_init, EmptyRing
  <2>2. Unread' = 0 /\ Handed' = <<>> BY <2>1 DEF Unread, Handed
  <2>3. Stored' = <<>> BY <2>2 DEF Stored
  <2> QED BY <2>2, <2>3 DEF Queue!Next, Queue!Restart, Handed
<1>6. CASE UNCHANGED vars
  <2>1. UNCHANGED <<memory, ERXRDPT, receiver, pc>> BY <1>6 DEF vars, receiver, chip
  <2> QED BY <1>1, <2>1, OthersQueueNothing
<1> QED BY <1>2, <1>3, <1>4, <1>5, <1>6 DEF Next

(* The chip and enc_receive_frame together are the queue of RxQueue, for     *)
(* rings, buffers and frames of any size: frames are handed over whole, in   *)
(* the order of their arrival and each once, although the chip writes while  *)
(* the driver reads (enc.c:306-339).  That each is handed over in the end is *)
(* left to the run.                                                          *)
THEOREM FramesAreQueued == Spec => IsQueue
<1>1. ASSUME Init PROVE Queue!Init
  <2>1. Unread = 0 /\ Handed = <<>> BY <1>1 DEF Init, EmptyRing, Unread, Handed
  <2>2. Stored = <<>> BY <2>1 DEF Stored
  <2> QED BY <2>1, <2>2 DEF Queue!Init, Handed
<1>2. RInv /\ [Next]_vars => [Queue!Next]_(Queue!vars) BY NextQueue
<1> QED BY <1>1, <1>2, RInvariant, PTL DEF Spec, IsQueue, Queue!Ordered

===============================================================================
