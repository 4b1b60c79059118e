--------------------------- MODULE ApplicationProofs ---------------------------
(***************************************************************************)
(* Proofs about Application, for tables, numbers and EEPROMs of any size   *)
(* and any lines: the types, and what is left of calibrations when the     *)
(* power fails.                                                            *)
(***************************************************************************)
EXTENDS Application, TLAPS, FiniteSetTheorems

(* A command writes two numbers at most: the octets of the first, then those *)
(* of the second.                                                            *)
LEMMA Divide ==
  ASSUME NEW n \in Nat, NEW base \in Nat \ {0}, n < 2 * base
  PROVE  /\ n < base => n \div base = 0 /\ n % base = n
         /\ n >= base => n \div base = 1 /\ n % base = n - base
<1>1. CASE n < base BY <1>1
<1>2. CASE n >= base BY <1>2
<1> QED BY <1>1, <1>2

LEMMA PlacesAre ==
  /\ temp_cal_size \in Nat /\ light_cal_size \in Nat /\ FloatSize \in Nat \ {0} /\ MaxCuts \in Nat
  /\ light_cal(light_cal_size) \in Nat /\ Size = light_cal(light_cal_size) + 2
  /\ Places = 0 .. light_cal(light_cal_size) - 1 /\ Places \subseteq 0 .. Size - 1
BY ApplicationAssumption DEF light_cal, temp_cal, Places, Size

-------------------------------------------------------------------------------
(* The invariant. *)

(* The octets of an EEPROM are all there. *)
Shaped(e) == DOMAIN e = 0 .. Size - 1 /\ \A p \in 0 .. Size - 1 : DOMAIN e[p] = 1 .. FloatSize

(* What is to be stored, and what is written for it: n numbers, one behind   *)
(* the other.                                                                *)
Asking(first, n) ==
  /\ first \in Nat /\ n \in 0 .. 2 /\ first + n <= light_cal(light_cal_size)
  /\ asked = [p \in first .. first + n - 1 |-> asked[p]]
  /\ writes = [i \in 1 .. n |-> [place |-> first + i - 1, number |-> asked[first + i - 1]]]
  /\ \A p \in first .. first + n - 1 : asked[p] # Broken

Agreed == \E first, n : Asking(first, n)

Now(k) == eeprom[Position(k).place][Position(k).octet]
Old(k) == held[Position(k).place][Position(k).octet]

Typed ==
  /\ Shaped(eeprom) /\ pc \in {"idle", "write"}
  /\ written \in 0 .. Total /\ cuts \in 0 .. MaxCuts
  /\ pc = "write" => reply.kind = "none"

(* As far as the command that is under way has come. *)
Progress ==
  pc = "write" => \A k \in 1 .. Total : Now(k) = IF k <= written THEN ToWrite(k) ELSE Old(k)

(* As far as it has come when it ended. *)
Partial ==
  \E m \in 0 .. Total : \A k \in 1 .. Total :
    /\ k <= m => Now(k) = ToWrite(k)
    /\ k = m + 1 => Now(k) \in {Old(k), Broken}
    /\ k > m + 1 => Now(k) = Old(k)

Kept == \A p \in Places : acknowledged[p] # Unknown => Holds(eeprom[p], acknowledged[p])

(* Nothing is claimed of what is being written. *)
InDoubt == pc = "write" => \A p \in DOMAIN asked : acknowledged[p] = Unknown

Told ==
  reply.kind = "set" =>
    /\ pc = "idle"
    /\ IF asked = <<>> THEN reply.numbers = <<0, 0>> ELSE Range(reply.numbers) = Range(asked)

IInv == Typed /\ Agreed /\ Progress /\ Partial /\ Kept /\ InDoubt /\ Told

-------------------------------------------------------------------------------
(* The order in which the octets are written. *)
LEMMA Positions ==
  ASSUME NEW first, NEW n, Asking(first, n)
  PROVE  /\ Total = n * FloatSize /\ Total \in Nat
         /\ \A k \in 1 .. Total :
              LET d == IF k <= FloatSize THEN 0 ELSE 1
              IN /\ Position(k).place = first + d
                 /\ Position(k).octet = IF k <= FloatSize THEN k ELSE k - FloatSize
                 /\ d + 1 \in 1 .. n
                 /\ ToWrite(k) = asked[first + d]
<1>1. /\ first \in Nat /\ n \in 0 .. 2
      /\ writes = [i \in 1 .. n |-> [place |-> first + i - 1, number |-> asked[first + i - 1]]]
  BY DEF Asking
<1>2. FloatSize \in Nat \ {0} BY PlacesAre
<1>3. Len(writes) = n BY <1>1
<1>4. Total = n * FloatSize BY <1>3 DEF Total
<1>5. n * FloatSize \in Nat /\ n * FloatSize <= 2 * FloatSize
      /\ (n = 0 => n * FloatSize = 0) /\ (n = 1 => n * FloatSize = FloatSize)
  <2>1. CASE n = 0 BY <1>2, <2>1
  <2>2. CASE n = 1 BY <1>2, <2>2
  <2>3. CASE n = 2 BY <1>2, <2>3
  <2> QED BY <1>1, <2>1, <2>2, <2>3
<1> DEFINE t == n * FloatSize
<1> HIDE DEF t
<1>6. t \in Nat /\ t <= 2 * FloatSize /\ (n = 0 => t = 0) /\ (n = 1 => t = FloatSize) /\ Total = t
  BY <1>4, <1>5 DEF t
<1>7. ASSUME NEW k \in 1 .. t
      PROVE  LET d == IF k <= FloatSize THEN 0 ELSE 1
             IN /\ Position(k).place = first + d
                /\ Position(k).octet = IF k <= FloatSize THEN k ELSE k - FloatSize
                /\ d + 1 \in 1 .. n
                /\ ToWrite(k) = asked[first + d]
  <2> DEFINE d == IF k <= FloatSize THEN 0 ELSE 1
  <2>1. k - 1 \in Nat /\ k - 1 < 2 * FloatSize BY <1>2, <1>6
  <2>2. /\ (k - 1) \div FloatSize = d
        /\ (k - 1) % FloatSize = IF k <= FloatSize THEN k - 1 ELSE k - 1 - FloatSize
    <3>1. CASE k <= FloatSize
      <4>1. k - 1 < FloatSize BY <1>2, <3>1
      <4> QED BY <1>2, <2>1, <3>1, <4>1, Divide
    <3>2. CASE ~(k <= FloatSize)
      <4>1. k - 1 >= FloatSize BY <1>2, <3>2
      <4> QED BY <1>2, <2>1, <3>2, <4>1, Divide
    <3> QED BY <3>1, <3>2
  <2>3. d + 1 \in 1 .. n BY <1>1, <1>2, <1>6
  <2>4. WriteOf(k) = [place |-> first + (d + 1) - 1, number |-> asked[first + (d + 1) - 1]]
    <3>1. WriteOf(k) = writes[d + 1] BY <2>2 DEF WriteOf
    <3> HIDE DEF d
    <3> QED BY <1>1, <2>3, <3>1
  <2>5. first + (d + 1) - 1 = first + d BY <1>1
  <2>6. Position(k).place = first + d /\ ToWrite(k) = asked[first + d]
    <3> HIDE DEF d
    <3> QED BY <2>4, <2>5 DEF Position, ToWrite
  <2>7. Position(k).octet = IF k <= FloatSize THEN k ELSE k - FloatSize
    <3>1. Position(k).octet = ((k - 1) % FloatSize) + 1 BY DEF Position
    <3>2. CASE k <= FloatSize BY <1>2, <2>2, <3>1, <3>2
    <3>3. CASE ~(k <= FloatSize) BY <1>2, <2>2, <3>1, <3>3
    <3> QED BY <3>2, <3>3
  <2> QED BY <2>3, <2>6, <2>7
<1> QED BY <1>6, <1>7 DEF t

(* Each is an octet of a calibration, and no octet is written twice. *)
LEMMA Distinct ==
  ASSUME NEW first, NEW n, Asking(first, n), NEW k \in 1 .. Total
  PROVE  /\ Position(k).place \in first .. first + n - 1
         /\ Position(k).place \in Places /\ Position(k).place \in 0 .. Size - 1
         /\ Position(k).octet \in 1 .. FloatSize
         /\ ToWrite(k) = asked[Position(k).place]
         /\ \A j \in 1 .. Total : j # k => \/ Position(j).place # Position(k).place
                                           \/ Position(j).octet # Position(k).octet
<1>1. first \in Nat /\ n \in 0 .. 2 /\ first + n <= light_cal(light_cal_size) BY DEF Asking
<1>2. Total = n * FloatSize /\ Total \in Nat BY Positions
<1>3. Total <= 2 * FloatSize /\ (n = 0 => Total = 0)
  <2>1. FloatSize \in Nat BY PlacesAre
  <2>2. n \in {0, 1, 2} BY <1>1
  <2> QED BY <1>2, <2>1, <2>2
<1> DEFINE d(i) == IF i <= FloatSize THEN 0 ELSE 1
<1>4. \A i \in 1 .. Total : /\ Position(i).place = first + d(i)
                            /\ Position(i).octet = IF i <= FloatSize THEN i ELSE i - FloatSize
                            /\ d(i) + 1 \in 1 .. n
                            /\ ToWrite(i) = asked[first + d(i)]
  BY Positions
<1>5. Position(k).place \in first .. first + n - 1
  <2>1. Position(k).place = first + d(k) /\ d(k) + 1 \in 1 .. n /\ d(k) \in {0, 1} BY <1>4
  <2> HIDE DEF d
  <2> QED BY <1>1, <2>1
<1>6. Position(k).place \in Places /\ Position(k).place \in 0 .. Size - 1
  BY <1>1, <1>5, PlacesAre
<1>7. Position(k).octet \in 1 .. FloatSize BY <1>2, <1>3, <1>4, PlacesAre
<1>8. ToWrite(k) = asked[Position(k).place] BY <1>4
<1>9. ASSUME NEW j \in 1 .. Total, j # k, Position(j).place = Position(k).place
      PROVE  Position(j).octet # Position(k).octet
  <2>1. d(j) = d(k)
    <3>1. d(j) \in {0, 1} /\ d(k) \in {0, 1} BY DEF d
    <3>2. first + d(j) = first + d(k) BY <1>4, <1>9
    <3> HIDE DEF d
    <3> QED BY <1>1, <3>1, <3>2
  <2>2. (j <= FloatSize) = (k <= FloatSize) BY <2>1
  <2>3. CASE j <= FloatSize BY <1>4, <1>9, <2>2, <2>3
  <2>4. CASE ~(j <= FloatSize)
    <3>1. Position(j).octet = j - FloatSize /\ Position(k).octet = k - FloatSize BY <1>4, <2>2, <2>4
    <3> QED BY <1>2, <1>9, <3>1, PlacesAre
  <2> QED BY <2>3, <2>4
<1> QED BY <1>5, <1>6, <1>7, <1>8, <1>9

(* All octets of what was asked for are written in the end. *)
LEMMA Covered ==
  ASSUME NEW first, NEW n, Asking(first, n),
         NEW p \in first .. first + n - 1, NEW o \in 1 .. FloatSize
  PROVE  \E k \in 1 .. Total : Position(k).place = p /\ Position(k).octet = o
<1>1. first \in Nat /\ n \in 0 .. 2 BY DEF Asking
<1>2. FloatSize \in Nat \ {0} BY PlacesAre
<1>3. Total = n * FloatSize BY Positions
<1>4. CASE p = first
  <2>1. n \in {1, 2} BY <1>1
  <2>2. o \in 1 .. Total /\ o <= FloatSize BY <1>2, <1>3, <2>1
  <2>3. Position(o).place = first + 0 /\ Position(o).octet = o BY <2>2, Positions
  <2> QED BY <1>1, <1>4, <2>2, <2>3
<1>5. CASE p # first
  <2>1. n = 2 /\ p = first + 1 BY <1>1, <1>5
  <2> DEFINE k == o + FloatSize
  <2>2. k \in 1 .. Total /\ ~(k <= FloatSize) /\ k - FloatSize = o BY <1>2, <1>3, <2>1
  <2> HIDE DEF k
  <2>3. Position(k).place = first + 1 /\ Position(k).octet = o BY <2>2, Positions
  <2> QED BY <2>1, <2>2, <2>3
<1> QED BY <1>4, <1>5

(* What is written are numbers that clients send. *)
LEMMA WritesAreWritten ==
  ASSUME NEW request \in Unusual, request.call \in Keeping
  PROVE  \A i \in DOMAIN Writes(request.call, request.args) :
           /\ Writes(request.call, request.args)[i].number \in Written(Unusual)
           /\ Writes(request.call, request.args)[i].number # Broken
<1> DEFINE ws == Writes(request.call, request.args)
<1>1. \A i \in DOMAIN ws : ws[i] \in Range(ws) BY DEF Range
<1>2. {w.number : w \in Range(ws)} \in
        {{w.number : w \in Range(Writes(r.call, r.args))} : r \in {q \in Unusual : q.call \in Keeping}}
  OBVIOUS
<1> HIDE DEF ws
<1>3. \A i \in DOMAIN ws : ws[i].number \in {w.number : w \in Range(ws)} BY <1>1
<1>4. \A i \in DOMAIN ws : ws[i].number \in Written(Unusual) BY <1>2, <1>3 DEF Written
<1>5. Broken \notin Written(Unusual) BY NumberAssumption
<1>6. \A i \in DOMAIN ws : ws[i].number # Broken BY <1>4, <1>5
<1> QED BY <1>4, <1>6 DEF ws

(* What a command is to store, and what it writes for it. *)
LEMMA WriteAgrees ==
  ASSUME NEW request \in Unusual, Write(request)
  PROVE  Agreed'
<1> DEFINE args == request.args
           call == request.call
<1>1. /\ call \in Keeping /\ writes' = Writes(call, args) /\ asked' = Meant(call, args)
  BY DEF Write
<1>2. atoi(args[2]) \in Int BY <1>1, NumberAssumption
<1>3. \A i \in DOMAIN writes' : writes'[i].number # Broken BY <1>1, WritesAreWritten
<1> HIDE DEF args, call
<1>4. Index(args) \in 0 .. 255 BY <1>2 DEF Index
<1>5. ASSUME NEW first \in Nat, NEW n \in 0 .. 2, first + n <= light_cal(light_cal_size),
             asked' = [p \in first .. first + n - 1 |-> asked'[p]],
             writes' = [i \in 1 .. n |-> [place |-> first + i - 1, number |-> asked'[first + i - 1]]]
      PROVE  Agreed'
  <2>1. ASSUME NEW p \in first .. first + n - 1 PROVE asked'[p] # Broken
    <3>1. p - first + 1 \in 1 .. n /\ first + (p - first + 1) - 1 = p BY <1>5
    <3>2. writes'[p - first + 1].number = asked'[p] BY <1>5, <3>1
    <3>3. p - first + 1 \in DOMAIN writes' BY <1>5, <3>1
    <3> QED BY <1>3, <3>2, <3>3
  <2>2. Asking(first, n)' BY <1>5, <2>1 DEF Asking
  <2> QED BY <2>2 DEF Agreed
<1>6. CASE call = "bgw"
  <2>1. /\ writes' = <<[place |-> 0, number |-> atof(args[2])]>>
        /\ asked' = [p \in {0} |-> atof(args[2])]
    BY <1>1, <1>6 DEF Writes, Meant, bandgap
  <2>2. 0 .. 0 + 1 - 1 = {0} /\ 0 \in Nat /\ 1 \in 0 .. 2 OBVIOUS
  <2>3. asked' = [p \in 0 .. 0 + 1 - 1 |-> asked'[p]] BY <2>1, <2>2
  <2>4. writes' = [i \in 1 .. 1 |-> [place |-> 0 + i - 1, number |-> asked'[0 + i - 1]]]
    <3>1. \A i \in 1 .. 1 : 0 + i - 1 = 0 OBVIOUS
    <3>2. asked'[0] = atof(args[2]) BY <2>1
    <3> QED BY <2>1, <3>1, <3>2
  <2>5. 0 + 1 <= light_cal(light_cal_size)
    BY ApplicationAssumption DEF light_cal, temp_cal
  <2> QED BY <1>5, <2>2, <2>3, <2>4, <2>5
<1>7. ASSUME NEW size \in Nat, NEW start \in Nat, start + 2 * size <= light_cal(light_cal_size),
             writes' = IF InBounds(Index(args), size) THEN Pair(start + 2 * Index(args), args) ELSE <<>>,
             asked' = LET first == {start + 2 * i : i \in {Index(args)} \cap 0 .. size - 1}
                      IN [p \in first \cup {q + 1 : q \in first} |-> atof(args[IF p \in first THEN 3 ELSE 4])]
      PROVE  Agreed'
  <2> DEFINE x == Index(args)
             first == {start + 2 * i : i \in {x} \cap 0 .. size - 1}
             there == start + 2 * x
  <2>1. asked' = [p \in first \cup {q + 1 : q \in first} |-> atof(args[IF p \in first THEN 3 ELSE 4])]
    BY <1>7
  <2>2. CASE x < size
    <3>1. x \in 0 .. size - 1 BY <1>4, <2>2
    <3>2. first = {there} BY <3>1
    <3>3. there \in Nat /\ there + 2 <= light_cal(light_cal_size)
      <4> DEFINE end == light_cal(light_cal_size)
      <4>1. end \in Nat /\ start + 2 * size <= end BY <1>7, PlacesAre
      <4> HIDE DEF x, end
      <4>2. x \in Nat /\ x < size BY <2>2, <3>1
      <4>3. there \in Nat /\ there + 2 <= start + 2 * size BY <4>2
      <4> HIDE DEF there
      <4>4. start + 2 * size \in Nat OBVIOUS
      <4>5. there + 2 <= end BY <4>1, <4>3, <4>4
      <4> QED BY <4>3, <4>5 DEF end
    <3> HIDE DEF x, first, there
    <3>4. first \cup {q + 1 : q \in first} = there .. there + 2 - 1 BY <3>2, <3>3
    <3>5. asked' = [p \in there .. there + 2 - 1 |-> atof(args[IF p = there THEN 3 ELSE 4])]
      BY <2>1, <3>2, <3>4
    <3>6. asked'[there] = atof(args[3]) /\ asked'[there + 1] = atof(args[4]) BY <3>3, <3>5
    <3>7. writes' = <<[place |-> there, number |-> atof(args[3])],
                      [place |-> there + 1, number |-> atof(args[4])]>>
      BY <1>7, <2>2 DEF InBounds, Pair, x, there
    <3>8. writes' = [i \in 1 .. 2 |-> [place |-> there + i - 1, number |-> asked'[there + i - 1]]]
      <4>1. there + 1 - 1 = there /\ there + 2 - 1 = there + 1 BY <3>3
      <4>2. \A i \in 1 .. 2 : i = 1 \/ i = 2 OBVIOUS
      <4> QED BY <3>6, <3>7, <4>1, <4>2
    <3>9. 2 \in 0 .. 2 /\ asked' = [p \in there .. there + 2 - 1 |-> asked'[p]] BY <3>5
    <3> QED BY <1>5, <3>3, <3>8, <3>9
  <2>3. CASE ~(x < size)
    <3>1. first = {} BY <1>4, <2>3
    <3>2. writes' = <<>> BY <1>7, <2>3 DEF InBounds
    <3> HIDE DEF first
    <3>3. asked' = [p \in {} |-> asked'[p]]
      <4>1. first \cup {q + 1 : q \in first} = {} BY <3>1
      <4> QED BY <2>1, <4>1
    <3>4. 0 .. 0 + 0 - 1 = {} /\ 1 .. 0 = {} OBVIOUS
    <3>5. 0 \in Nat /\ 0 \in 0 .. 2 /\ 0 + 0 <= light_cal(light_cal_size) BY PlacesAre
    <3>6. asked' = [p \in 0 .. 0 + 0 - 1 |-> asked'[p]] BY <3>3, <3>4
    <3>7. writes' = [i \in 1 .. 0 |-> [place |-> 0 + i - 1, number |-> asked'[0 + i - 1]]]
      BY <3>2, <3>4
    <3> QED BY <1>5, <3>5, <3>6, <3>7
  <2> QED BY <2>2, <2>3
<1>8. CASE call = "tempw"
  <2>1. temp_cal_size \in Nat /\ 1 \in Nat BY PlacesAre
  <2>2. 1 + 2 * temp_cal_size <= light_cal(light_cal_size)
    BY ApplicationAssumption DEF light_cal, temp_cal
  <2>3. writes' = IF InBounds(Index(args), temp_cal_size) THEN Pair(1 + 2 * Index(args), args) ELSE <<>>
    BY <1>1, <1>8 DEF Writes, temp_cal
  <2>4. asked' = LET first == {1 + 2 * i : i \in {Index(args)} \cap 0 .. temp_cal_size - 1}
                 IN [p \in first \cup {q + 1 : q \in first} |-> atof(args[IF p \in first THEN 3 ELSE 4])]
    BY <1>1, <1>8 DEF Meant, temp_cal
  <2> QED BY <1>7, <2>1, <2>2, <2>3, <2>4
<1>9. CASE call = "lightw"
  <2> DEFINE start == temp_cal(temp_cal_size)
  <2>1. light_cal_size \in Nat /\ start \in Nat BY ApplicationAssumption DEF temp_cal
  <2>2. start + 2 * light_cal_size <= light_cal(light_cal_size)
    BY <2>1 DEF light_cal
  <2>3. writes' = IF InBounds(Index(args), light_cal_size) THEN Pair(start + 2 * Index(args), args) ELSE <<>>
    BY <1>1, <1>9 DEF Writes, light_cal
  <2>4. asked' = LET first == {start + 2 * i : i \in {Index(args)} \cap 0 .. light_cal_size - 1}
                 IN [p \in first \cup {q + 1 : q \in first} |-> atof(args[IF p \in first THEN 3 ELSE 4])]
    BY <1>1, <1>9 DEF Meant, light_cal
  <2> HIDE DEF start
  <2> QED BY <1>7, <2>1, <2>2, <2>3, <2>4
<1> QED BY <1>1, <1>6, <1>8, <1>9 DEF Keeping

-------------------------------------------------------------------------------
(* One octet is written. *)
LEMMA PutOctet ==
  ASSUME NEW k \in 1 .. Total, NEW octet, Shaped(eeprom), Agreed, Put(k, octet), UNCHANGED <<writes, held>>
  PROVE  /\ Shaped(eeprom')
         /\ Now(k)' = octet /\ \A j \in 1 .. Total : j # k => Now(j)' = Now(j)
         /\ \A j \in 1 .. Total : Old(j)' = Old(j) /\ ToWrite(j)' = ToWrite(j)
         /\ Total' = Total
         /\ \A p \in Places \ DOMAIN asked : eeprom'[p] = eeprom[p]
<1>1. PICK first, n : Asking(first, n) BY DEF Agreed
<1> DEFINE q == Position(k).place
           o == Position(k).octet
<1>2. q \in 0 .. Size - 1 /\ o \in 1 .. FloatSize /\ q \in first .. first + n - 1 BY <1>1, Distinct
<1>3. DOMAIN asked = first .. first + n - 1 BY <1>1 DEF Asking
<1>4. eeprom' = [eeprom EXCEPT ![q][o] = octet] BY DEF Put
<1>5. \A j : Position(j)' = Position(j) /\ ToWrite(j)' = ToWrite(j) BY DEF Position, WriteOf, ToWrite
<1>6. \A j : Old(j)' = Old(j) BY <1>5 DEF Old
<1>7. \A j : Now(j)' = eeprom'[Position(j).place][Position(j).octet] BY <1>5 DEF Now
<1>8. \A j \in 1 .. Total : /\ Position(j).place \in 0 .. Size - 1 /\ Position(j).octet \in 1 .. FloatSize
                            /\ j # k => Position(j).place # q \/ Position(j).octet # o
  BY <1>1, Distinct
<1> HIDE DEF q, o
<1>9. Shaped(eeprom') BY <1>2, <1>4 DEF Shaped
<1>10. \A p \in 0 .. Size - 1 : p # q => eeprom'[p] = eeprom[p] BY <1>4 DEF Shaped
<1>11. eeprom'[q][o] = octet /\ \A r \in 1 .. FloatSize : r # o => eeprom'[q][r] = eeprom[q][r]
  BY <1>2, <1>4 DEF Shaped
<1>12. Now(k)' = octet BY <1>7, <1>11 DEF q, o
<1>13. \A j \in 1 .. Total : j # k => Now(j)' = Now(j)
  <2>1. SUFFICES ASSUME NEW j \in 1 .. Total, j # k
                 PROVE eeprom'[Position(j).place][Position(j).octet] = eeprom[Position(j).place][Position(j).octet]
    BY <1>7 DEF Now
  <2>2. CASE Position(j).place # q BY <1>8, <1>10, <2>2
  <2>3. CASE Position(j).place = q BY <1>8, <1>11, <2>1, <2>3
  <2> QED BY <2>2, <2>3
<1>14. \A p \in Places \ DOMAIN asked : eeprom'[p] = eeprom[p] BY <1>2, <1>3, <1>10, PlacesAre
<1>15. Total' = Total BY DEF Total
<1> QED BY <1>5, <1>6, <1>9, <1>12, <1>13, <1>14, <1>15

LEMMA TotalIsNat ==
  ASSUME Agreed
  PROVE  Total \in Nat
<1>1. PICK first, n : Asking(first, n) BY DEF Agreed
<1> QED BY <1>1, Positions

LEMMA WriteOctetIInv ==
  ASSUME IInv, WriteOctet
  PROVE  IInv'
<1>0. PICK k, octet : k = written + 1 /\ octet = ToWrite(k) OBVIOUS
<1>1. /\ pc = "write" /\ written < Total /\ Put(k, octet) /\ written' = k
      /\ UNCHANGED <<pc, writes, reply, cuts, asked, acknowledged, held>>
  BY <1>0 DEF WriteOctet
<1>2. Total \in Nat BY TotalIsNat DEF IInv
<1>3. k \in 1 .. Total /\ written \in Nat BY <1>0, <1>1, <1>2 DEF IInv, Typed
<1>4. /\ Shaped(eeprom')
      /\ Now(k)' = octet /\ \A j \in 1 .. Total : j # k => Now(j)' = Now(j)
      /\ \A j \in 1 .. Total : Old(j)' = Old(j) /\ ToWrite(j)' = ToWrite(j)
      /\ Total' = Total
      /\ \A p \in Places \ DOMAIN asked : eeprom'[p] = eeprom[p]
  BY <1>1, <1>3, PutOctet DEF IInv, Typed
<1>5. Typed' BY <1>1, <1>3, <1>4 DEF IInv, Typed
<1>6. Agreed' BY <1>1 DEF IInv, Agreed, Asking
<1>7. \A j \in 1 .. Total : Now(j)' = IF j <= k THEN ToWrite(j)' ELSE Old(j)'
  <2>1. SUFFICES ASSUME NEW j \in 1 .. Total PROVE Now(j)' = IF j <= k THEN ToWrite(j) ELSE Old(j)
    BY <1>4
  <2>2. CASE j = k BY <1>0, <1>3, <1>4, <2>2
  <2>3. CASE j # k
    <3>1. Now(j)' = Now(j) BY <1>4, <2>3
    <3>2. Now(j) = IF j <= written THEN ToWrite(j) ELSE Old(j) BY <1>1 DEF IInv, Progress
    <3>3. (j <= written) = (j <= k) BY <1>0, <1>3, <2>3
    <3> QED BY <3>1, <3>2, <3>3
  <2> QED BY <2>2, <2>3
<1>8. Progress' BY <1>1, <1>4, <1>7 DEF Progress
<1>9. Partial'
  <2>1. k \in 0 .. Total' BY <1>3, <1>4
  <2>2. \A j \in 1 .. Total' :
          /\ j <= k => Now(j)' = ToWrite(j)'
          /\ j = k + 1 => Now(j)' \in {Old(j)', Broken}
          /\ j > k + 1 => Now(j)' = Old(j)'
    <3>1. \A j \in 1 .. Total : (j = k + 1 => ~(j <= k)) /\ (j > k + 1 => ~(j <= k)) BY <1>3
    <3> QED BY <1>4, <1>7, <3>1
  <2> QED BY <2>1, <2>2 DEF Partial
<1>10. Kept'
  <2>1. \A p \in Places : p \in DOMAIN asked => acknowledged[p] = Unknown BY <1>1 DEF IInv, InDoubt
  <2> QED BY <1>1, <1>4, <2>1 DEF IInv, Kept, Holds
<1>11. InDoubt' /\ Told' BY <1>1 DEF IInv, InDoubt, Told, Typed
<1> QED BY <1>5, <1>6, <1>8, <1>9, <1>10, <1>11 DEF IInv

LEMMA AskingStays ==
  ASSUME Agreed, UNCHANGED <<asked, writes>>
  PROVE  Agreed'
BY DEF Agreed, Asking

(* What has been written up to now is what Partial says. *)
LEMMA PartialStays ==
  ASSUME Partial, UNCHANGED <<eeprom, held, writes>>
  PROVE  Partial' /\ Total' = Total
BY DEF Partial, Now, Old, ToWrite, Position, WriteOf, Total

LEMMA InitIInv ==
  ASSUME Init
  PROVE  IInv
<1>1. PICK number \in Factory : /\ eeprom = [p \in 0 .. Size - 1 |-> [o \in 1 .. FloatSize |-> number]]
                                /\ acknowledged = [p \in Places |-> number]
  BY DEF Init
<1>2. /\ pc = "idle" /\ writes = <<>> /\ written = 0 /\ reply.kind = "none" /\ cuts = 0 /\ asked = <<>>
  BY DEF Init, Reply
<1>3. Agreed
  <2>1. 0 .. 0 + 0 - 1 = {} /\ 1 .. 0 = {} /\ 0 \in Nat /\ 0 \in 0 .. 2
        /\ 0 + 0 <= light_cal(light_cal_size)
    BY PlacesAre
  <2>2. asked = [p \in 0 .. 0 + 0 - 1 |-> asked[p]] BY <1>2, <2>1
  <2>3. writes = [i \in 1 .. 0 |-> [place |-> 0 + i - 1, number |-> asked[0 + i - 1]]]
    BY <1>2, <2>1
  <2>4. Asking(0, 0) BY <2>1, <2>2, <2>3 DEF Asking
  <2> QED BY <2>4 DEF Agreed
<1>4. Total = 0
  <2>1. Len(writes) = 0 /\ FloatSize \in Nat BY <1>2, PlacesAre
  <2> QED BY <2>1 DEF Total
<1>5. Typed
  <2>1. Shaped(eeprom) BY <1>1 DEF Shaped
  <2>2. 0 \in 0 .. Total /\ 0 \in 0 .. MaxCuts BY <1>4, PlacesAre
  <2> QED BY <1>2, <2>1, <2>2 DEF Typed
<1>6. Progress /\ InDoubt /\ Told BY <1>2 DEF Progress, InDoubt, Told
<1>7. Partial
  <2>1. 0 \in 0 .. Total /\ 1 .. Total = {} BY <1>4
  <2> QED BY <2>1 DEF Partial
<1>8. Kept
  <2>1. \A p \in Places : p \in 0 .. Size - 1 BY PlacesAre
  <2> QED BY <1>1, <2>1 DEF Kept, Holds
<1> QED BY <1>3, <1>5, <1>6, <1>7, <1>8 DEF IInv

(* The commands that keep nothing. *)
LEMMA AnsweredIInv ==
  ASSUME IInv, pc = "idle", NEW r, r.kind # "set", Answered(r)
  PROVE  IInv'
<1>1. /\ reply' = r
      /\ UNCHANGED <<eeprom, pc, writes, written, cuts, asked, acknowledged, held>>
  BY DEF Answered
<1>2. Partial' /\ Total' = Total BY <1>1, PartialStays DEF IInv
<1>3. Agreed' BY <1>1, AskingStays DEF IInv
<1>4. Typed' BY <1>1, <1>2 DEF IInv, Typed
<1>5. Progress' /\ InDoubt' /\ Told' BY <1>1 DEF Progress, InDoubt, Told
<1>6. Kept' BY <1>1 DEF IInv, Kept
<1> QED BY <1>2, <1>3, <1>4, <1>5, <1>6 DEF IInv

LEMMA OtherRepliesIInv ==
  ASSUME IInv, NEW request, Silence(request) \/ UnknownCommand(request) \/ Insufficient(request) \/ Other(request)
  PROVE  IInv'
<1>1. CASE Silence(request) \/ Insufficient(request)
  BY <1>1, AnsweredIInv DEF Silence, Insufficient, Reply
<1>2. CASE UnknownCommand(request)
  <2> DEFINE r == [Reply("unknown") EXCEPT !.line = request.line, !.args = request.args]
  <2>1. r.kind = "unknown" BY DEF Reply
  <2>2. pc = "idle" /\ Answered(r) BY <1>2 DEF UnknownCommand
  <2> HIDE DEF r
  <2> QED BY <2>1, <2>2, AnsweredIInv
<1>3. CASE Other(request)
  <2>1. PICK r : /\ Answered(r)
                 /\ r = CASE request.call = "dump" -> [Reply("text") EXCEPT !.top = Room(DumpLengths)]
                          [] request.call = "help" /\ Len(request.args) = 1 ->
                               [Reply("text") EXCEPT !.top = Room(HelpLengths)]
                          [] request.call = "quit" -> Reply("close")
                          [] request.call = "reset" -> Reply("none")
                          [] OTHER -> Reply("text")
    BY <1>3 DEF Other
  <2>2. r.kind # "set"
    <3>1. /\ [Reply("text") EXCEPT !.top = Room(DumpLengths)].kind # "set"
          /\ [Reply("text") EXCEPT !.top = Room(HelpLengths)].kind # "set"
          /\ Reply("close").kind # "set" /\ Reply("none").kind # "set" /\ Reply("text").kind # "set"
      BY DEF Reply
    <3>2. \/ r = [Reply("text") EXCEPT !.top = Room(DumpLengths)]
          \/ r = [Reply("text") EXCEPT !.top = Room(HelpLengths)]
          \/ r \in {Reply("close"), Reply("none"), Reply("text")}
      BY <2>1
    <3> QED BY <3>1, <3>2
  <2>3. pc = "idle" BY <1>3 DEF Other
  <2> QED BY <2>1, <2>2, <2>3, AnsweredIInv
<1> QED BY <1>1, <1>2, <1>3

LEMMA WriteIInv ==
  ASSUME IInv, NEW request \in Unusual, Write(request)
  PROVE  IInv'
<1>1. /\ pc = "idle" /\ pc' = "write" /\ written' = 0 /\ reply' = Reply("none") /\ held' = eeprom
      /\ acknowledged' = [p \in Places |-> IF p \in DOMAIN asked' THEN Unknown ELSE acknowledged[p]]
      /\ UNCHANGED <<eeprom, cuts>>
  BY DEF Write
<1>2. Agreed' BY WriteAgrees
<1>3. Total' \in Nat
  <2>1. PICK first, n : Asking(first, n)' BY <1>2 DEF Agreed
  <2>2. n \in {0, 1, 2} /\ Len(writes') = n BY <2>1 DEF Asking
  <2>3. Total' = n * FloatSize BY <2>2 DEF Total
  <2> QED BY <2>2, <2>3, PlacesAre
<1>4. Typed' BY <1>1, <1>3 DEF IInv, Typed, Reply
<1>5. \A k : Now(k)' = Old(k)' BY <1>1 DEF Now, Old
<1>6. Progress'
  <2>1. \A k \in 1 .. Total' : ~(k <= 0) BY <1>3
  <2> QED BY <1>1, <1>5, <2>1 DEF Progress
<1>7. Partial'
  <2>1. 0 \in 0 .. Total' /\ \A k \in 1 .. Total' : ~(k <= 0) BY <1>3
  <2> QED BY <1>5, <2>1 DEF Partial
<1>8. Kept' BY <1>1 DEF IInv, Kept, Holds
<1>9. InDoubt'
  <2>1. DOMAIN asked' \subseteq Places
    <3>1. PICK first, n : Asking(first, n)' BY <1>2 DEF Agreed
    <3>2. first \in Nat /\ n \in 0 .. 2 /\ first + n <= light_cal(light_cal_size) BY <3>1 DEF Asking
    <3>3. DOMAIN asked' = first .. first + n - 1 BY <3>1 DEF Asking
    <3> QED BY <3>2, <3>3, PlacesAre
  <2> QED BY <1>1, <2>1 DEF InDoubt
<1>10. Told' BY <1>1 DEF Told, Reply
<1> QED BY <1>2, <1>4, <1>6, <1>7, <1>8, <1>9, <1>10 DEF IInv

(* Once all octets are written, the EEPROM holds what was asked for.         *)
LEMMA AllWritten ==
  ASSUME IInv, pc = "write", written = Total
  PROVE  /\ \A p \in DOMAIN asked : p \in Places /\ Holds(eeprom[p], asked[p]) /\ Number(eeprom[p]) = asked[p]
         /\ (writes = <<>>) = (asked = <<>>)
         /\ \A i \in DOMAIN writes : writes[i].place \in DOMAIN asked
         /\ \A p \in DOMAIN asked : \E i \in DOMAIN writes : writes[i].place = p
<1>1. PICK first, n : Asking(first, n) BY DEF IInv, Agreed
<1>2. /\ first \in Nat /\ n \in 0 .. 2 /\ first + n <= light_cal(light_cal_size)
      /\ DOMAIN asked = first .. first + n - 1
      /\ writes = [i \in 1 .. n |-> [place |-> first + i - 1, number |-> asked[first + i - 1]]]
      /\ \A p \in first .. first + n - 1 : asked[p] # Broken
  BY <1>1 DEF Asking
<1>3. Total \in Nat BY <1>1, Positions
<1>4. \A k \in 1 .. Total : Now(k) = ToWrite(k)
  <2>1. \A k \in 1 .. Total : k <= written BY <1>3
  <2> QED BY <2>1 DEF IInv, Progress
<1>5. ASSUME NEW p \in DOMAIN asked
      PROVE  p \in Places /\ Holds(eeprom[p], asked[p]) /\ Number(eeprom[p]) = asked[p]
  <2>1. p \in first .. first + n - 1 BY <1>2
  <2>2. p \in Places /\ p \in 0 .. Size - 1 BY <1>2, <2>1, PlacesAre
  <2>3. ASSUME NEW o \in 1 .. FloatSize PROVE eeprom[p][o] = asked[p]
    <3>1. PICK k \in 1 .. Total : Position(k).place = p /\ Position(k).octet = o
      BY <1>1, <2>1, Covered
    <3>2. ToWrite(k) = asked[Position(k).place] BY <1>1, Distinct
    <3> QED BY <1>4, <3>1, <3>2 DEF Now
  <2>4. DOMAIN eeprom[p] = 1 .. FloatSize BY <2>2 DEF IInv, Typed, Shaped
  <2>5. 1 \in 1 .. FloatSize BY PlacesAre
  <2>6. Range(eeprom[p]) = {asked[p]} BY <2>3, <2>4, <2>5 DEF Range
  <2>7. ~Torn(eeprom[p])
    <3>1. Cardinality(Range(eeprom[p])) = 1 BY <2>6, FS_Singleton
    <3>2. Broken \notin Range(eeprom[p]) BY <1>2, <2>1, <2>6
    <3> QED BY <3>1, <3>2 DEF Torn
  <2>8. Number(eeprom[p]) = asked[p] BY <2>3, <2>5, <2>7 DEF Number
  <2> QED BY <2>2, <2>3, <2>8 DEF Holds
<1>6. (writes = <<>>) = (asked = <<>>)
  <2>1. CASE n = 0
    <3>1. 1 .. n = {} /\ first .. first + n - 1 = {} BY <1>2, <2>1
    <3>2. asked = [p \in {} |-> asked[p]] BY <1>1, <3>1 DEF Asking
    <3>3. writes = <<>> BY <1>2, <3>1
    <3>4. asked = <<>> BY <3>2
    <3> QED BY <3>3, <3>4
  <2>2. CASE n # 0
    <3>1. 1 \in 1 .. n /\ first \in first .. first + n - 1 BY <1>2, <2>2
    <3>2. DOMAIN writes # {} /\ DOMAIN asked # {} BY <1>2, <3>1
    <3>3. DOMAIN <<>> = {} OBVIOUS
    <3> QED BY <3>2, <3>3
  <2> QED BY <2>1, <2>2
<1>7. \A i \in DOMAIN writes : writes[i].place \in DOMAIN asked BY <1>2
<1>8. ASSUME NEW p \in DOMAIN asked PROVE \E i \in DOMAIN writes : writes[i].place = p
  <2>1. p - first + 1 \in 1 .. n /\ first + (p - first + 1) - 1 = p BY <1>2
  <2>2. p - first + 1 \in DOMAIN writes BY <1>2, <2>1
  <2>3. writes[p - first + 1].place = p BY <1>2, <2>1
  <2> QED BY <2>2, <2>3
<1> QED BY <1>5, <1>6, <1>7, <1>8

LEMMA ReturnIInv ==
  ASSUME IInv, Return
  PROVE  IInv'
<1>1. /\ pc = "write" /\ written = Total /\ pc' = "idle"
      /\ acknowledged' = [p \in Places |-> IF p \in DOMAIN asked THEN asked[p] ELSE acknowledged[p]]
      /\ UNCHANGED <<eeprom, writes, written, cuts, asked, held>>
  BY DEF Return
<1> DEFINE numbers == IF writes = <<>> THEN <<0, 0>>
                      ELSE [i \in DOMAIN writes |-> Number(eeprom[writes[i].place])]
<1>2. reply'.kind = "set" /\ reply'.numbers = numbers BY DEF Return, Reply
<1>3. /\ \A p \in DOMAIN asked : p \in Places /\ Holds(eeprom[p], asked[p]) /\ Number(eeprom[p]) = asked[p]
      /\ (writes = <<>>) = (asked = <<>>)
      /\ \A i \in DOMAIN writes : writes[i].place \in DOMAIN asked
      /\ \A p \in DOMAIN asked : \E i \in DOMAIN writes : writes[i].place = p
  BY <1>1, AllWritten
<1>4. Agreed' BY <1>1, AskingStays DEF IInv
<1>5. Partial' /\ Total' = Total BY <1>1, PartialStays DEF IInv
<1>6. Typed' BY <1>1, <1>5 DEF IInv, Typed
<1>7. Progress' /\ InDoubt' BY <1>1 DEF Progress, InDoubt
<1>8. Kept'
  <2>1. ASSUME NEW p \in Places, acknowledged'[p] # Unknown PROVE Holds(eeprom'[p], acknowledged'[p])
    <3>1. CASE p \in DOMAIN asked BY <1>1, <1>3, <3>1
    <3>2. CASE p \notin DOMAIN asked
      <4>1. acknowledged'[p] = acknowledged[p] BY <1>1, <3>2
      <4> QED BY <1>1, <2>1, <4>1 DEF IInv, Kept
    <3> QED BY <3>1, <3>2
  <2> QED BY <2>1 DEF Kept
<1>9. Told'
  <2>1. CASE asked = <<>> BY <1>1, <1>2, <1>3, <2>1 DEF Told
  <2>2. CASE asked # <<>>
    <3>1. reply'.numbers = [i \in DOMAIN writes |-> Number(eeprom[writes[i].place])]
      BY <1>2, <1>3, <2>2
    <3>2. \A i \in DOMAIN writes : reply'.numbers[i] = asked[writes[i].place] BY <1>3, <3>1
    <3>3. Range(reply'.numbers) = Range(asked) BY <1>3, <3>1, <3>2 DEF Range
    <3> QED BY <1>1, <2>2, <3>3 DEF Told, Range
  <2> QED BY <2>1, <2>2
<1> QED BY <1>4, <1>5, <1>6, <1>7, <1>8, <1>9 DEF IInv

LEMMA PowerCutIInv ==
  ASSUME IInv, PowerCut
  PROVE  IInv'
<1>1. /\ pc' = "idle" /\ reply'.kind = "none" /\ cuts < MaxCuts /\ cuts' = cuts + 1
      /\ UNCHANGED <<writes, written, asked, acknowledged, held>>
  BY DEF PowerCut, Reply
<1>2. Agreed' BY <1>1, AskingStays DEF IInv
<1>3. Progress' /\ InDoubt' /\ Told' BY <1>1 DEF Progress, InDoubt, Told
<1>4. cuts' \in 0 .. MaxCuts BY <1>1, PlacesAre DEF IInv, Typed
<1>5. CASE UNCHANGED eeprom
  <2>1. Partial' /\ Total' = Total BY <1>1, <1>5, PartialStays DEF IInv
  <2>2. Typed' BY <1>1, <1>4, <1>5, <2>1 DEF IInv, Typed
  <2>3. Kept' BY <1>1, <1>5 DEF IInv, Kept
  <2> QED BY <1>2, <1>3, <2>1, <2>2, <2>3 DEF IInv
<1>6. CASE pc = "write" /\ written < Total /\ Put(written + 1, Broken)
  <2>1. PICK k : k = written + 1 OBVIOUS
  <2>2. Total \in Nat BY TotalIsNat DEF IInv
  <2>3. k \in 1 .. Total /\ written \in 0 .. Total /\ written \in Nat BY <1>6, <2>1, <2>2 DEF IInv, Typed
  <2>4. Put(k, Broken) BY <1>6, <2>1
  <2>5. /\ Shaped(eeprom')
        /\ Now(k)' = Broken /\ \A j \in 1 .. Total : j # k => Now(j)' = Now(j)
        /\ \A j \in 1 .. Total : Old(j)' = Old(j) /\ ToWrite(j)' = ToWrite(j)
        /\ Total' = Total
        /\ \A p \in Places \ DOMAIN asked : eeprom'[p] = eeprom[p]
    BY <1>1, <2>3, <2>4, PutOctet DEF IInv, Typed
  <2>6. Typed' BY <1>1, <1>4, <2>3, <2>5 DEF Typed
  <2>7. \A j \in 1 .. Total : Now(j) = IF j <= written THEN ToWrite(j) ELSE Old(j)
    BY <1>6 DEF IInv, Progress
  <2>8. PICK m : m = written OBVIOUS
  <2>9. \A j \in 1 .. Total' :
          /\ j <= m => Now(j)' = ToWrite(j)'
          /\ j = m + 1 => Now(j)' \in {Old(j)', Broken}
          /\ j > m + 1 => Now(j)' = Old(j)'
    <3>1. SUFFICES ASSUME NEW j \in 1 .. Total
                   PROVE  /\ j <= m => Now(j)' = ToWrite(j)
                          /\ j = m + 1 => Now(j)' \in {Old(j), Broken}
                          /\ j > m + 1 => Now(j)' = Old(j)
      BY <2>5
    <3>2. j = k => ~(j <= m) /\ j = m + 1 /\ ~(j > m + 1) BY <2>1, <2>3, <2>8
    <3>3. j # k => /\ j # m + 1 /\ (j > m + 1 => ~(j <= m)) /\ (j <= m <=> j <= written)
      BY <2>1, <2>3, <2>8
    <3>4. CASE j = k BY <2>5, <3>2, <3>4
    <3>5. CASE j # k
      <4>1. Now(j)' = IF j <= written THEN ToWrite(j) ELSE Old(j) BY <2>5, <2>7, <3>5
      <4> QED BY <3>3, <3>5, <4>1
    <3> QED BY <3>4, <3>5
  <2>10. m \in 0 .. Total' BY <2>3, <2>5, <2>8
  <2>11. Partial' BY <2>9, <2>10 DEF Partial
  <2>12. Kept'
    <3>1. \A p \in Places : p \in DOMAIN asked => acknowledged[p] = Unknown BY <1>6 DEF IInv, InDoubt
    <3> QED BY <1>1, <2>5, <3>1 DEF IInv, Kept, Holds
  <2> QED BY <1>2, <1>3, <2>6, <2>11, <2>12 DEF IInv
<1> QED BY <1>5, <1>6 DEF PowerCut

LEMMA NextIInv ==
  ASSUME IInv, [Next]_vars
  PROVE  IInv'
<1>1. ASSUME NEW request \in IF Nothing THEN Unusual ELSE Usual,
             \/ Silence(request) \/ UnknownCommand(request) \/ Insufficient(request)
             \/ Write(request) \/ Other(request)
      PROVE  IInv'
  <2>1. request \in Unusual
    <3>1. Usual \subseteq Unusual
      <4>1. Commands \subseteq Lines BY ApplicationAssumption
      <4> QED BY <4>1 DEF Usual, Unusual, Requests
    <3> QED BY <3>1
  <2> QED BY <1>1, <2>1, WriteIInv, OtherRepliesIInv
<1>2. CASE UNCHANGED vars
  <2>1. UNCHANGED <<eeprom, pc, writes, written, reply, cuts, asked, acknowledged, held>>
    BY <1>2 DEF vars
  <2>2. Agreed' BY <2>1, AskingStays DEF IInv
  <2>3. Partial' /\ Total' = Total BY <2>1, PartialStays DEF IInv
  <2>4. Typed' BY <2>1, <2>3 DEF IInv, Typed
  <2>5. Progress'
    <3>1. \A k : Now(k)' = Now(k) /\ Old(k)' = Old(k) /\ ToWrite(k)' = ToWrite(k)
      BY <2>1 DEF Now, Old, ToWrite, Position, WriteOf
    <3> QED BY <2>1, <2>3, <3>1 DEF IInv, Progress
  <2>6. Kept' /\ InDoubt' /\ Told' BY <2>1 DEF IInv, Kept, InDoubt, Told
  <2> QED BY <2>2, <2>3, <2>4, <2>5, <2>6 DEF IInv
<1> QED BY <1>1, <1>2, WriteOctetIInv, ReturnIInv, PowerCutIInv DEF Next, application_content

LEMMA Invariant == Spec => []IInv
<1>1. Init => IInv BY InitIInv
<1>2. IInv /\ [Next]_vars => IInv' BY NextIInv
<1> QED BY <1>1, <1>2, PTL DEF Spec

-------------------------------------------------------------------------------
(* Every place that is written to is one of the layout, every octet that is  *)
(* counted is one to be written, and no reply is told before a command is    *)
(* done (eeprom.c:27-66, application-temperature.c:181-200).                 *)
THEOREM TypeCorrect == Spec => []TypeOK
<1>1. IInv => TypeOK
  <2> SUFFICES ASSUME IInv PROVE TypeOK OBVIOUS
  <2>1. PICK first, n : Asking(first, n) BY DEF IInv, Agreed
  <2>2. /\ first \in Nat /\ n \in 0 .. 2 /\ first + n <= light_cal(light_cal_size)
        /\ writes = [i \in 1 .. n |-> [place |-> first + i - 1, number |-> asked[first + i - 1]]]
    BY <2>1 DEF Asking
  <2>3. \A i \in DOMAIN writes : writes[i].place \in Places BY <2>2, PlacesAre
  <2> QED BY <2>3 DEF IInv, Typed, Shaped, TypeOK
<1> QED BY <1>1, Invariant, PTL

(* What a client has been told is in the EEPROM is there, octet by octet,    *)
(* until a command writes to the same place, wherever the power has failed;  *)
(* and a command that is done tells what it was to store                     *)
(* (application.c:519-537, application-temperature.c:181-200,                *)
(* application-light.c:186-205).                                             *)
THEOREM CalibrationsLast == Spec => []Durable
<1>1. IInv => Durable BY DEF IInv, Kept, Told, Durable
<1> QED BY <1>1, Invariant, PTL

(* The two numbers of a calibration are written in their order: wherever the *)
(* power fails, an offset is never newer than its factor                     *)
(* (application-temperature.c:191-192, application-light.c:196-197).         *)
THEOREM OrderIsKept == Spec => []Prefix
<1>1. IInv => Prefix
  <2> SUFFICES ASSUME IInv PROVE Prefix OBVIOUS
  <2>1. PICK first, n : Asking(first, n) BY DEF IInv, Agreed
  <2>2. /\ first \in Nat /\ n \in 0 .. 2
        /\ writes = [i \in 1 .. n |-> [place |-> first + i - 1, number |-> asked[first + i - 1]]]
    BY <2>1 DEF Asking
  <2>3. Total = n * FloatSize /\ Total \in Nat BY <2>1, Positions
  <2>4. PICK m \in 0 .. Total : \A k \in 1 .. Total :
          /\ k <= m => Now(k) = ToWrite(k)
          /\ k = m + 1 => Now(k) \in {Old(k), Broken}
          /\ k > m + 1 => Now(k) = Old(k)
    BY DEF IInv, Partial
  <2> DEFINE places == {w.place : w \in Range(writes)}
             place(k) == Min(places) + ((k - 1) \div FloatSize)
             octet(k) == ((k - 1) % FloatSize) + 1
             now(k) == eeprom[place(k)][octet(k)]
             old(k) == held[place(k)][octet(k)]
             new(k) == (CHOOSE w \in Range(writes) : w.place = place(k)).number
  <2>5. ASSUME NEW k \in 1 .. Total
        PROVE  place(k) = Position(k).place /\ octet(k) = Position(k).octet /\ new(k) = ToWrite(k)
    <3> DEFINE i == (k - 1) \div FloatSize + 1
    <3>1. n # 0
      <4>1. n = 0 => n * FloatSize = 0 BY PlacesAre
      <4> QED BY <2>3, <4>1
    <3>2. DOMAIN writes = 1 .. n /\ 1 \in 1 .. n BY <2>2, <3>1
    <3>3. Min(places) = first
      <4>1. first \in places
        <5>1. writes[1].place = first BY <2>2, <3>2
        <5> QED BY <3>2, <5>1 DEF Range
      <4>2. \A y \in places : y \in Nat /\ first <= y
        <5>1. ASSUME NEW j \in 1 .. n PROVE writes[j].place \in Nat /\ first <= writes[j].place
          BY <2>2
        <5> QED BY <3>2, <5>1 DEF Range
      <4> HIDE DEF places
      <4>3. \A x \in places : (\A y \in places : x <= y) => x = first BY <2>2, <4>1, <4>2
      <4>4. \E x \in places : \A y \in places : x <= y BY <4>1, <4>2
      <4> QED BY <4>3, <4>4 DEF Min
    <3>4. PICK d : d = IF k <= FloatSize THEN 0 ELSE 1 OBVIOUS
    <3>5. /\ Position(k).place = first + d /\ ToWrite(k) = asked[first + d] /\ d + 1 \in 1 .. n
      BY <2>1, <3>4, Positions
    <3>6. (k - 1) \div FloatSize = d
      <4>1. FloatSize \in Nat \ {0} BY PlacesAre
      <4>2. Total <= 2 * FloatSize
        <5>1. n \in {0, 1, 2} BY <2>2
        <5> QED BY <2>3, <4>1, <5>1
      <4>3. k - 1 \in Nat /\ k - 1 < 2 * FloatSize BY <2>3, <4>1, <4>2
      <4>4. CASE k <= FloatSize
        <5>1. k - 1 < FloatSize BY <4>1, <4>4
        <5> QED BY <3>4, <4>1, <4>3, <4>4, <5>1, Divide
      <4>5. CASE ~(k <= FloatSize)
        <5>1. k - 1 >= FloatSize BY <4>1, <4>5
        <5> QED BY <3>4, <4>1, <4>3, <4>5, <5>1, Divide
      <4> QED BY <4>4, <4>5
    <3>7. place(k) = Position(k).place BY <3>3, <3>5, <3>6
    <3>8. octet(k) = Position(k).octet BY DEF Position
    <3>9. new(k) = ToWrite(k)
      <4>1. writes[d + 1] \in Range(writes) BY <3>2, <3>5 DEF Range
      <4>2. writes[d + 1] = [place |-> first + d, number |-> asked[first + d]]
        <5>1. first + (d + 1) - 1 = first + d BY <2>2, <3>4
        <5>2. writes[d + 1] = [place |-> first + (d + 1) - 1, number |-> asked[first + (d + 1) - 1]]
          BY <2>2, <3>5
        <5> QED BY <5>1, <5>2
      <4>3. ASSUME NEW w \in Range(writes), w.place = first + d PROVE w = writes[d + 1]
        <5>1. PICK j \in 1 .. n : w = writes[j] BY <3>2 DEF Range
        <5>2. w.place = first + j - 1 BY <2>2, <5>1
        <5>3. j = d + 1 BY <2>2, <3>4, <4>3, <5>2
        <5> QED BY <5>1, <5>3
      <4>4. writes[d + 1].place = first + d BY <4>2
      <4>5. (CHOOSE w \in Range(writes) : w.place = first + d) = writes[d + 1] BY <4>1, <4>3, <4>4
      <4>6. place(k) = first + d BY <3>5, <3>7
      <4> HIDE DEF place
      <4>7. new(k) = (CHOOSE w \in Range(writes) : w.place = first + d).number BY <4>6
      <4>8. new(k) = writes[d + 1].number BY <4>5, <4>7
      <4>9. writes[d + 1].number = asked[first + d] BY <4>2
      <4> QED BY <3>5, <4>8, <4>9
    <3> QED BY <3>7, <3>8, <3>9
  <2>6. ASSUME NEW k \in 1 .. Total
        PROVE  now(k) \in CASE k <= m -> {new(k)}
                            [] k = m + 1 -> {old(k), Broken}
                            [] OTHER -> {old(k)}
    <3>1. now(k) = Now(k) /\ old(k) = Old(k) /\ new(k) = ToWrite(k) BY <2>5 DEF Now, Old
    <3> HIDE DEF now, old, new
    <3>2. CASE k <= m
      <4>1. k # m + 1 BY <2>3, <3>2
      <4> QED BY <2>4, <3>1, <3>2, <4>1
    <3>3. CASE k = m + 1
      <4>1. ~(k <= m) BY <2>3, <3>3
      <4> QED BY <2>4, <3>1, <3>3, <4>1
    <3>4. CASE k > m + 1
      <4>1. ~(k <= m) /\ k # m + 1 BY <2>3, <3>4
      <4> QED BY <2>4, <3>1, <3>4, <4>1
    <3> QED BY <2>3, <3>2, <3>3, <3>4
  <2> QED BY <2>6 DEF Prefix
<1> QED BY <1>1, Invariant, PTL

===============================================================================
