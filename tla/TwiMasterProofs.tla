---------------------------- MODULE TwiMasterProofs ----------------------------
(***************************************************************************)
(* Proofs about TwiMaster, for all addresses and octets, samples of 8 bits *)
(* and transactions of every length: the types, what the master promises   *)
(* of the bus and of its return value, and what tempr and lightr promise   *)
(* of what they have measured.                                             *)
(***************************************************************************)
EXTENDS TwiMaster, TLAPS, SequenceTheorems

Names == {"init", "twiw", "twir", "tempr", "lightr_0", "lightr_1"}

(* What may be selected in a sensor. *)
Registers == Octets \cup {PowerDown, PowerUp, Standard, Extended, Channel0, Channel1}

Received == [register : Registers, octet : 0 .. 255, extended : BOOLEAN]

Sends == [write : {TRUE}, address : Addresses, octets : Seq(Registers)]
Receives == [write : {FALSE}, address : Addresses, size : Nat]
Transactions == Sends \cup Receives

(* A command by its transactions: how many it has, and what each may be. *)
Total(name) ==
  CASE name \in {"twiw", "twir"} -> 1 [] name = "init" -> 2 [] name = "tempr" -> 3 [] OTHER -> 8

TempStep(k) ==
  CASE k = 1 -> Send(Sensor, <<Config, Config>>)
    [] k = 2 -> Send(Sensor, <<Temperature>>)
    [] OTHER -> Receive(Sensor, 2)

(* What lightr asks the sensor for, with its transactions 1, 3, 5 and 7; the *)
(* others fetch what it has to say.                                          *)
Asked(name, j) ==
  CASE j = 1 -> PowerUp [] j = 2 -> RangeOf(name) [] j = 3 -> Channel0 [] OTHER -> Channel1

LightStep(name, k) ==
  IF k \in {1, 3, 5, 7} THEN Send(Light, <<Asked(name, (k + 1) \div 2)>>) ELSE Receive(Light, 1)

Planned(name, k) ==
  CASE name = "twiw" -> {Send(address, octets) : address \in Addresses, octets \in Strings}
    [] name = "twir" -> {Receive(address, ReadSize) : address \in Addresses}
    [] name = "tempr" -> {TempStep(k)}
    [] OTHER -> {LightStep(name, k)}

(* Which of them is under way. *)
Position == Total(command) - Len(script) + 1

-------------------------------------------------------------------------------
(* The invariant. *)

Typed ==
  /\ twi_address \in Addresses
  /\ pc \in Steps \cup {"stop", "idle", "hung"}
  /\ command \in Names
  /\ script \in Seq(Transactions) /\ taken \in Nat
  /\ bytes \in Seq(Received) /\ kept \in Seq(Received)
  /\ rv \in 0 .. 255 /\ reply \in {"none", "ok", "overflow", "twi_error"}
  /\ reported \in 0 .. no_state
  /\ bus \in {"free", "taken", "locked"} /\ led \in BOOLEAN
  /\ pointer \in [{Sensor, Light} -> Registers] /\ extended \in BOOLEAN

(* The script is what is left of the command. *)
Scripted ==
  /\ Len(script) \in 1 .. Total(command)
  /\ \A i \in 1 .. Len(script) : script[i] \in Planned(command, Position + i - 1)

(* How far the transaction has come. *)
Transferred ==
  /\ pc \in {"start", "address_w", "address_r"} => taken = 0 /\ bytes = <<>>
  /\ pc \in {"address_w", "send"} => Current.write
  /\ pc \in {"address_r", "receive", "nack"} => ~Current.write /\ Len(bytes) <= Current.size
  /\ pc = "send" => taken \in 1 .. Len(Current.octets)
  /\ pc = "receive" => taken = 1 /\ Len(bytes) < Current.size
  /\ pc = "nack" => taken = 1 /\ Len(bytes) = Current.size
  /\ Current.write => bytes = <<>> /\ taken <= 1 + Len(Current.octets)
  /\ ~Current.write => taken <= 1 /\ Len(bytes) <= Current.size

(* Who has the bus. *)
Held ==
  /\ pc = "start" => bus # "taken"
  /\ pc \in {"address_w", "address_r", "send", "receive", "nack"} => bus = "taken"
  /\ pc = "stop" => ~led

(* What earlier transactions have received. *)
Kept == Len(kept) = IF command \in Lightrs THEN (Position - 1) \div 2 ELSE 0

(* What the thermometer is asked for is the temperature. *)
Measured ==
  command = "tempr" =>
    /\ Position = 3 \/ (Position = 2 /\ taken = 2) => pointer[Sensor] = Temperature
    /\ \A i \in 1 .. Len(bytes) : bytes[i].register = Temperature

(* Whether the light sensor has been told, and what it makes of it: it does  *)
(* as it was told or is off, and what it says with a sample is in range.     *)
Delivered == Position \in {2, 4, 6, 8} \/ taken = 2

InRange == extended = (RangeOf(command) = Extended)

Selected ==
  command \in Lightrs /\ pointer[Light] # PowerDown =>
    /\ Delivered => pointer[Light] = Asked(command, (Position + 1) \div 2)
    /\ Position > 4 \/ (Position > 2 /\ Delivered) => InRange

(* An octet of lightr that is not 0 is what was asked for. *)
Sampled ==
  command \in Lightrs =>
    \A i \in 1 .. Len(Read) :
      Read[i].octet # 0 =>
        /\ Read[i].register = Asked(command, i)
        /\ i > 2 => Read[i].extended = (RangeOf(command) = Extended)

(* It has gone on only when what the sensor said of itself was accepted. *)
Confirmed ==
  command \in Lightrs =>
    \A i \in (1 .. Len(kept)) \cap {1, 2} :
      kept[i].octet \in Reaction[IF i = 1 THEN PowerUp ELSE RangeOf(command)]

Replied == reply # "none" => pc = "idle"

IInv ==
  /\ Typed /\ Scripted /\ Transferred /\ Held /\ OkMeansWhole /\ ErrorTells /\ Released
  /\ Kept /\ Measured /\ Selected /\ Sampled /\ Confirmed /\ Replied
  /\ LightRead /\ LightRefused
-------------------------------------------------------------------------------
(* Transactions and scripts.                                                 *)

LEMMA ConstantFacts ==
  /\ Sensor \in Addresses /\ Light \in Addresses /\ Sensor # Light
  /\ Samples \subseteq 0 .. 255 /\ Temperature \in Octets /\ Config \in Octets
  /\ Temperature \in Registers /\ Config \in Registers /\ PowerDown \in Registers
  /\ MaxWrite \in Nat \ {0} /\ ReadSize \in Nat \ {0, 1}
BY TwiAssumption DEF TwiAssumption, Registers

LEMMA AskedFacts ==
  ASSUME NEW name, NEW j \in 1 .. 4
  PROVE  Asked(name, j) \in Registers \ {PowerDown}
BY DEF Asked, RangeOf, Registers, PowerDown, PowerUp, Standard, Extended, Channel0, Channel1

(* A string of octets is a sequence of registers to select. *)
LEMMA StringType ==
  ASSUME NEW octets \in Strings
  PROVE  octets \in Seq(Registers) /\ Len(octets) \in 1 .. MaxWrite
<1>1. PICK n \in 1 .. MaxWrite : octets \in [1 .. n -> Octets] BY DEF Strings
<1>2. Octets \subseteq Registers BY DEF Registers
<1>3. octets \in [1 .. n -> Registers] BY <1>1, <1>2
<1>4. n \in Nat BY ConstantFacts
<1>5. octets \in Seq(Registers) BY <1>3, <1>4
<1>6. Len(octets) = n BY <1>3, <1>4, <1>5
<1> QED BY <1>5, <1>6, ConstantFacts

(* The size of a transaction that a command may consist of. *)
Sized(t) ==
  /\ t.write => t.octets \in Seq(Registers) /\ Len(t.octets) \in 1 .. MaxWrite + 1
  /\ ~t.write => t.size \in 1 .. ReadSize

LEMMA SendType ==
  ASSUME NEW address \in Addresses, NEW octets \in Seq(Registers), Len(octets) \in 1 .. MaxWrite + 1
  PROVE  Send(address, octets) \in Transactions /\ Sized(Send(address, octets))
BY DEF Send, Transactions, Sends, Sized

LEMMA ReceiveType ==
  ASSUME NEW address \in Addresses, NEW size \in 1 .. ReadSize
  PROVE  Receive(address, size) \in Transactions /\ Sized(Receive(address, size))
BY ConstantFacts DEF Receive, Transactions, Receives, Sized

LEMMA SingleType ==
  ASSUME NEW n \in Registers
  PROVE  <<n>> \in Seq(Registers) /\ Len(<<n>>) = 1 /\ <<n>>[1] = n
OBVIOUS

LEMMA PlannedType ==
  ASSUME NEW name \in Names, NEW k \in 1 .. Total(name), NEW t \in Planned(name, k)
  PROVE  t \in Transactions /\ Sized(t)
<1>1. CASE name = "twiw"
  <2>1. PICK address \in Addresses, octets \in Strings : t = Send(address, octets)
    BY <1>1 DEF Planned
  <2> QED BY <2>1, StringType, SendType, ConstantFacts
<1>2. CASE name = "twir"
  <2>1. PICK address \in Addresses : t = Receive(address, ReadSize) BY <1>2 DEF Planned
  <2> QED BY <2>1, ReceiveType, ConstantFacts
<1>3. CASE name = "tempr"
  <2>1. <<Config, Config>> \in Seq(Registers) /\ Len(<<Config, Config>>) = 2 BY ConstantFacts
  <2>2. t = TempStep(k) BY <1>3 DEF Planned
  <2>3. t \in {Send(Sensor, <<Config, Config>>), Send(Sensor, <<Temperature>>), Receive(Sensor, 2)}
    BY <2>2 DEF TempStep
  <2>4. 1 \in 1 .. MaxWrite + 1 /\ 2 \in 1 .. MaxWrite + 1 /\ 2 \in 1 .. ReadSize BY ConstantFacts
  <2>5. CASE t = Send(Sensor, <<Config, Config>>) BY <2>1, <2>4, <2>5, SendType, ConstantFacts
  <2>6. CASE t = Send(Sensor, <<Temperature>>)
    BY <2>4, <2>6, SendType, SingleType, ConstantFacts
  <2>7. CASE t = Receive(Sensor, 2) BY <2>4, <2>7, ReceiveType, ConstantFacts
  <2> QED BY <2>3, <2>5, <2>6, <2>7
<1>4. CASE name \in {"init", "lightr_0", "lightr_1"}
  <2>1. t = LightStep(name, k) BY <1>4 DEF Planned
  <2>2. CASE k \in {1, 3, 5, 7}
    <3>1. (k + 1) \div 2 \in 1 .. 4 BY <2>2
    <3>2. t = Send(Light, <<Asked(name, (k + 1) \div 2)>>) BY <2>1, <2>2 DEF LightStep
    <3> DEFINE n == Asked(name, (k + 1) \div 2)
    <3>3. n \in Registers BY <3>1, AskedFacts
    <3> HIDE DEF n
    <3>4. <<n>> \in Seq(Registers) /\ Len(<<n>>) \in 1 .. MaxWrite + 1
      BY <3>3, SingleType, ConstantFacts
    <3>5. t = Send(Light, <<n>>) BY <3>2 DEF n
    <3> QED BY <3>4, <3>5, SendType, ConstantFacts
  <2>3. CASE k \notin {1, 3, 5, 7}
    <3>1. t = Receive(Light, 1) BY <2>1, <2>3 DEF LightStep
    <3> QED BY <3>1, ReceiveType, ConstantFacts
  <2> QED BY <2>2, <2>3
<1> QED BY <1>1, <1>2, <1>3, <1>4 DEF Names

LEMMA TotalType ==
  ASSUME NEW name \in Names
  PROVE  Total(name) \in 1 .. 8
BY DEF Names, Total

LEMMA CurrentFacts ==
  ASSUME Typed, Scripted
  PROVE  /\ Position \in 1 .. Total(command) /\ Len(script) = Total(command) + 1 - Position
         /\ Current = script[1] /\ Current \in Planned(command, Position)
         /\ Current \in Transactions /\ Sized(Current)
<1>1. command \in Names /\ script \in Seq(Transactions) BY DEF Typed
<1>2. Total(command) \in 1 .. 8 BY <1>1, TotalType
<1>3. Len(script) \in 1 .. Total(command) BY DEF Scripted
<1>4. Position \in 1 .. Total(command) /\ Len(script) = Total(command) + 1 - Position
  BY <1>2, <1>3 DEF Position
<1>5. Current = script[1] BY <1>1, <1>3 DEF Current
<1>6. 1 \in 1 .. Len(script) /\ Position + 1 - 1 = Position BY <1>2, <1>3, <1>4
<1>7. Current \in Planned(command, Position) BY <1>5, <1>6 DEF Scripted
<1> QED BY <1>1, <1>4, <1>5, <1>7, PlannedType

LEMMA WriteReadFacts ==
  ASSUME NEW n \in Registers
  PROVE  /\ WriteRead(n) \in Seq(Transactions) /\ Len(WriteRead(n)) = 2
         /\ WriteRead(n)[1] = Send(Light, <<n>>) /\ WriteRead(n)[2] = Receive(Light, 1)
<1>1. <<n>> \in Seq(Registers) /\ Len(<<n>>) \in 1 .. MaxWrite + 1 /\ 1 \in 1 .. ReadSize
  BY SingleType, ConstantFacts
<1>2. Send(Light, <<n>>) \in Transactions /\ Receive(Light, 1) \in Transactions
  BY <1>1, SendType, ReceiveType, ConstantFacts
<1> QED BY <1>2 DEF WriteRead

LEMMA PairAppended ==
  ASSUME NEW T, NEW s \in Seq(T), NEW t \in Seq(T), Len(t) = 2
  PROVE  /\ s \o t \in Seq(T) /\ Len(s \o t) = Len(s) + 2
         /\ \A i \in 1 .. Len(s) : (s \o t)[i] = s[i]
         /\ (s \o t)[Len(s) + 1] = t[1] /\ (s \o t)[Len(s) + 2] = t[2]
<1> DEFINE u == s \o t
<1>1. u \in Seq(T) /\ Len(u) = Len(s) + Len(t) BY ConcatProperties
<1>2. \A i \in 1 .. Len(s) + Len(t) : u[i] = IF i <= Len(s) THEN s[i] ELSE t[i - Len(s)]
  BY ConcatProperties
<1>3. Len(s) \in Nat /\ Len(s) + Len(t) = Len(s) + 2 OBVIOUS
<1> HIDE DEF u
<1>4. \A i \in 1 .. Len(s) : u[i] = s[i] BY <1>2, <1>3
<1>5. u[Len(s) + 1] = t[1] /\ u[Len(s) + 2] = t[2]
  <2>1. Len(s) + 1 - Len(s) = 1 /\ Len(s) + 2 - Len(s) = 2 BY <1>3
  <2> QED BY <1>2, <1>3, <2>1
<1>6. Len(u) = Len(s) + 2 BY <1>1, <1>3
<1> QED BY <1>1, <1>4, <1>5, <1>6 DEF u

(* Four registers are selected, and each has an answer. *)
Four(s, a, b, c, d) ==
  /\ s \in Seq(Transactions) /\ Len(s) = 8
  /\ s[1] = Send(Light, <<a>>) /\ s[3] = Send(Light, <<b>>)
  /\ s[5] = Send(Light, <<c>>) /\ s[7] = Send(Light, <<d>>)
  /\ \A i \in {2, 4, 6, 8} : s[i] = Receive(Light, 1)

LEMMA FourFacts ==
  ASSUME NEW a \in Registers, NEW b \in Registers, NEW c \in Registers, NEW d \in Registers
  PROVE  Four(WriteRead(a) \o WriteRead(b) \o WriteRead(c) \o WriteRead(d), a, b, c, d)
<1> DEFINE wa == WriteRead(a)
           wb == WriteRead(b)
           wc == WriteRead(c)
           wd == WriteRead(d)
           s == wa \o wb
           t == s \o wc
           u == t \o wd
<1>0. /\ wa \in Seq(Transactions) /\ wb \in Seq(Transactions)
      /\ wc \in Seq(Transactions) /\ wd \in Seq(Transactions)
      /\ Len(wa) = 2 /\ Len(wb) = 2 /\ Len(wc) = 2 /\ Len(wd) = 2
      /\ wa[1] = Send(Light, <<a>>) /\ wb[1] = Send(Light, <<b>>)
      /\ wc[1] = Send(Light, <<c>>) /\ wd[1] = Send(Light, <<d>>)
      /\ wa[2] = Receive(Light, 1) /\ wb[2] = Receive(Light, 1)
      /\ wc[2] = Receive(Light, 1) /\ wd[2] = Receive(Light, 1)
  BY WriteReadFacts
<1> HIDE DEF wa, wb, wc, wd
<1>1. /\ s \in Seq(Transactions) /\ Len(s) = Len(wa) + 2 /\ \A i \in 1 .. Len(wa) : s[i] = wa[i]
      /\ s[Len(wa) + 1] = wb[1] /\ s[Len(wa) + 2] = wb[2]
  BY <1>0, PairAppended
<1>2. /\ Len(s) = 4 /\ s[1] = Send(Light, <<a>>) /\ s[2] = Receive(Light, 1)
      /\ s[3] = Send(Light, <<b>>) /\ s[4] = Receive(Light, 1)
  BY <1>0, <1>1
<1> HIDE DEF s
<1>3. /\ t \in Seq(Transactions) /\ Len(t) = Len(s) + 2 /\ \A i \in 1 .. Len(s) : t[i] = s[i]
      /\ t[Len(s) + 1] = wc[1] /\ t[Len(s) + 2] = wc[2]
  <2>1. s \in Seq(Transactions) /\ wc \in Seq(Transactions) /\ Len(wc) = 2 BY <1>0, <1>1
  <2> QED BY <2>1, PairAppended
<1>4. /\ Len(t) = 6 /\ \A i \in 1 .. 4 : t[i] = s[i]
      /\ t[5] = Send(Light, <<c>>) /\ t[6] = Receive(Light, 1)
  <2>1. Len(s) + 1 = 5 /\ Len(s) + 2 = 6 BY <1>2
  <2> QED BY <1>0, <1>2, <1>3, <2>1
<1> HIDE DEF t
<1>5. /\ u \in Seq(Transactions) /\ Len(u) = Len(t) + 2 /\ \A i \in 1 .. Len(t) : u[i] = t[i]
      /\ u[Len(t) + 1] = wd[1] /\ u[Len(t) + 2] = wd[2]
  <2>1. t \in Seq(Transactions) /\ wd \in Seq(Transactions) /\ Len(wd) = 2 BY <1>0, <1>3
  <2> QED BY <2>1, PairAppended
<1>6. /\ Len(u) = 8 /\ \A i \in 1 .. 6 : u[i] = t[i]
      /\ u[7] = Send(Light, <<d>>) /\ u[8] = Receive(Light, 1)
  <2>1. Len(t) + 1 = 7 /\ Len(t) + 2 = 8 /\ Len(t) = 6 BY <1>4
  <2> QED BY <1>0, <1>5, <2>1
<1> HIDE DEF u
<1>7. /\ u[1] = Send(Light, <<a>>) /\ u[2] = Receive(Light, 1)
      /\ u[3] = Send(Light, <<b>>) /\ u[4] = Receive(Light, 1)
  BY <1>2, <1>4, <1>6
<1>8. u[5] = Send(Light, <<c>>) /\ u[6] = Receive(Light, 1) BY <1>4, <1>6
<1>9. u = WriteRead(a) \o WriteRead(b) \o WriteRead(c) \o WriteRead(d) BY DEF u, t, s, wa, wb, wc, wd
<1> QED BY <1>5, <1>6, <1>7, <1>8, <1>9 DEF Four

(* Every script is what is planned for its command. *)
Complete(name, s) ==
  /\ s \in Seq(Transactions) /\ Len(s) = Total(name)
  /\ \A i \in 1 .. Total(name) : s[i] \in Planned(name, i)

LEMMA LightrComplete ==
  ASSUME NEW name \in Lightrs, NEW s \in Lightr(RangeOf(name))
  PROVE  Complete(name, s)
<1> DEFINE r == RangeOf(name)
<1>1. r \in Registers /\ PowerUp \in Registers /\ Channel0 \in Registers /\ Channel1 \in Registers
  BY DEF RangeOf, Registers
<1>2. s = WriteRead(PowerUp) \o WriteRead(r) \o WriteRead(Channel0) \o WriteRead(Channel1)
  BY DEF Lightr
<1> HIDE DEF r
<1>3. Four(s, PowerUp, r, Channel0, Channel1) BY <1>1, <1>2, FourFacts, Zenon
<1>4. Total(name) = 8 BY DEF Total, Lightrs
<1>5. \A i \in 1 .. 8 : Planned(name, i) = {LightStep(name, i)} BY DEF Planned, Lightrs
<1>6. (1 + 1) \div 2 = 1 /\ (3 + 1) \div 2 = 2 /\ (5 + 1) \div 2 = 3 /\ (7 + 1) \div 2 = 4
  OBVIOUS
<1>7. /\ LightStep(name, 1) = Send(Light, <<PowerUp>>) /\ LightStep(name, 3) = Send(Light, <<r>>)
      /\ LightStep(name, 5) = Send(Light, <<Channel0>>)
      /\ LightStep(name, 7) = Send(Light, <<Channel1>>)
      /\ \A i \in {2, 4, 6, 8} : LightStep(name, i) = Receive(Light, 1)
  BY <1>6 DEF LightStep, Asked, r
<1>8. \A i \in 1 .. 8 : s[i] = LightStep(name, i) BY <1>3, <1>7 DEF Four
<1> QED BY <1>3, <1>4, <1>5, <1>8 DEF Complete, Four

LEMMA ScriptsComplete ==
  ASSUME twi_address \in Addresses, NEW name \in DOMAIN Scripts, NEW s \in Scripts[name]
  PROVE  name \in Names \ {"init"} /\ Complete(name, s)
<1>1. name \in {"twiw", "twir", "tempr", "lightr_0", "lightr_1"} BY DEF Scripts
<1>2. CASE name = "twiw"
  <2>1. s \in Twiw BY <1>2 DEF Scripts
  <2>2. PICK octets \in Strings : s = <<Send(twi_address, octets)>> BY <2>1 DEF Twiw
  <2>3. Total(name) = 1 BY <1>2 DEF Total
  <2>4. Send(twi_address, octets) \in Planned(name, 1) BY <1>2 DEF Planned
  <2>5. Send(twi_address, octets) \in Transactions
    BY <1>2, <2>3, <2>4, PlannedType DEF Names
  <2> QED BY <1>2, <2>2, <2>3, <2>4, <2>5 DEF Complete, Names
<1>3. CASE name = "twir"
  <2>1. s = <<Receive(twi_address, ReadSize)>> BY <1>3 DEF Scripts, Twir
  <2>2. Total(name) = 1 BY <1>3 DEF Total
  <2>3. Receive(twi_address, ReadSize) \in Planned(name, 1) BY <1>3 DEF Planned
  <2>4. Receive(twi_address, ReadSize) \in Transactions
    BY <1>3, <2>2, <2>3, PlannedType DEF Names
  <2> QED BY <1>3, <2>1, <2>2, <2>3, <2>4 DEF Complete, Names
<1>4. CASE name = "tempr"
  <2>1. s = <<TempStep(1), TempStep(2), TempStep(3)>> BY <1>4 DEF Scripts, Tempr, TempStep
  <2>2. Total(name) = 3 BY <1>4 DEF Total
  <2>3. \A k \in 1 .. 3 : TempStep(k) \in Planned(name, k) BY <1>4 DEF Planned
  <2>4. \A k \in 1 .. 3 : TempStep(k) \in Transactions
    BY <1>4, <2>2, <2>3, PlannedType DEF Names
  <2>5. /\ s \in Seq(Transactions) /\ Len(s) = 3
        /\ s[1] = TempStep(1) /\ s[2] = TempStep(2) /\ s[3] = TempStep(3)
    BY <2>1, <2>4
  <2> QED BY <1>4, <2>2, <2>3, <2>5 DEF Complete, Names
<1>5. CASE name \in Lightrs
  <2>1. s \in Lightr(RangeOf(name)) BY <1>5 DEF Scripts, RangeOf, Lightrs
  <2> QED BY <1>5, <2>1, LightrComplete DEF Lightrs, Names
<1> QED BY <1>1, <1>2, <1>3, <1>4, <1>5 DEF Lightrs

LEMMA InitComplete == Complete("init", WriteRead(PowerUp))
<1>1. PowerUp \in Registers BY DEF Registers
<1>2. /\ WriteRead(PowerUp) \in Seq(Transactions) /\ Len(WriteRead(PowerUp)) = 2
      /\ WriteRead(PowerUp)[1] = Send(Light, <<PowerUp>>)
      /\ WriteRead(PowerUp)[2] = Receive(Light, 1)
  BY <1>1, WriteReadFacts
<1>3. Total("init") = 2 BY DEF Total
<1>4. (1 + 1) \div 2 = 1 OBVIOUS
<1>5. Planned("init", 1) = {Send(Light, <<PowerUp>>)} /\ Planned("init", 2) = {Receive(Light, 1)}
  BY <1>4 DEF Planned, LightStep, Asked
<1> QED BY <1>2, <1>3, <1>5 DEF Complete

(* A command begins with its first transaction. *)
LEMMA BeginScripted ==
  ASSUME command' \in Names, Complete(command', script')
  PROVE  Scripted' /\ script' \in Seq(Transactions) /\ Position' = 1
<1>1. Total(command') \in 1 .. 8 BY TotalType
<1>2. Len(script') = Total(command') BY DEF Complete
<1>3. Position' = 1 BY <1>1, <1>2 DEF Position
<1>4. \A i \in 1 .. Len(script') : script'[i] \in Planned(command', Position' + i - 1)
  BY <1>1, <1>2, <1>3 DEF Complete
<1> QED BY <1>1, <1>2, <1>3, <1>4 DEF Scripted, Complete

(* It goes on with the rest. *)
LEMMA TailScripted ==
  ASSUME Typed, Scripted, Len(script) > 1, script' = Tail(script), command' = command
  PROVE  Scripted' /\ script' \in Seq(Transactions) /\ Position' = Position + 1
<1>1. Total(command) \in 1 .. 8 BY TotalType DEF Typed
<1>2. script \in Seq(Transactions) /\ script # <<>>
  <2>1. script \in Seq(Transactions) BY DEF Typed
  <2>2. CASE script = <<>>
    <3>1. Len(script) = 0 BY <2>2
    <3> QED BY <3>1
  <2> QED BY <2>1, <2>2
<1>3. Len(script) \in 1 .. Total(command) BY DEF Scripted
<1>4. /\ script' \in Seq(Transactions) /\ Len(script') = Len(script) - 1
      /\ \A i \in 1 .. Len(script') : script'[i] = script[i + 1]
  BY <1>2, HeadTailProperties
<1>5. Position' = Position + 1 BY <1>1, <1>3, <1>4 DEF Position
<1>6. ASSUME NEW i \in 1 .. Len(script')
      PROVE  script'[i] \in Planned(command', Position' + i - 1)
  <2>1. i + 1 \in 1 .. Len(script) BY <1>3, <1>4
  <2>2. script[i + 1] \in Planned(command, Position + (i + 1) - 1) BY <2>1 DEF Scripted
  <2>3. Position + (i + 1) - 1 = Position' + i - 1 BY <1>1, <1>3, <1>5 DEF Position
  <2> QED BY <1>4, <1>6, <2>2, <2>3
<1>7. Len(script') \in 1 .. Total(command') BY <1>1, <1>3, <1>4
<1> QED BY <1>4, <1>5, <1>6, <1>7 DEF Scripted

(* What the actions do to the script: nothing; *)
Same == UNCHANGED <<command, script, kept>>

(* a command begins; *)
Begins ==
  /\ pc' = "start" /\ command' \in Names /\ Complete(command', script')
  /\ kept' = <<>> /\ bytes' = <<>> /\ taken' = 0 /\ reply' = "none"
  /\ UNCHANGED <<pointer, extended>>

(* or it goes on to its next transaction, and keeps what it has. *)
GoesOn ==
  /\ Stopped /\ Len(script) > 1 /\ script' = Tail(script) /\ command' = command
  /\ pc' = "start" /\ rv = tme_ok /\ Accepted

(* With the script as it is, nothing happens to the transaction and to the   *)
(* sensors, or a slave has heard its address, or an octet is transferred.    *)
Still == UNCHANGED <<taken, bytes, pointer, extended>>
Addressed == taken' = 1 /\ UNCHANGED <<bytes, pointer, extended>>

LEMMA ScriptStep ==
  ASSUME Typed, Scripted, [Next]_vars
  PROVE  \/ Begins \/ GoesOn
         \/ Same /\ (Still \/ Addressed \/ send_byte \/ receive_byte \/ LosePower)
<1>1. CASE Restart
  BY <1>1, InitComplete DEF Restart, Start, Begin, Names, Begins, sensors
<1>2. ASSUME NEW name \in DOMAIN Scripts, Call(name)
      PROVE  Begins
  BY <1>2, ScriptsComplete DEF Call, Begin, Typed, Begins, sensors
<1>3. CASE Stopped BY <1>3 DEF Stopped, Continue, Begin, Same, Still, GoesOn, sensors
<1>4. ASSUME NEW step \in Steps, Failed(step) PROVE Same /\ Still
  BY <1>4 DEF Failed, Step, Abort, Same, Still, sensors
<1>5. CASE send_start \/ send_nack
  BY <1>5 DEF send_start, send_nack, Step, Same, Still, sensors
<1>6. CASE send_address_w \/ send_address_r
  BY <1>6 DEF send_address_w, send_address_r, Step, Same, Addressed, sensors
<1>7. CASE send_byte \/ receive_byte BY <1>7 DEF send_byte, receive_byte, Step, Same
<1>8. CASE LosePower BY <1>8 DEF LosePower, Same
<1>9. ASSUME NEW address \in Addresses, Twia(address) PROVE Same /\ Still
  BY <1>9 DEF Twia, Same, Still, sensors
<1>10. CASE Silent \/ twi_master_recover \/ UNCHANGED vars
  BY <1>10 DEF Silent, twi_master_recover, vars, Same, Still, sensors
<1> QED BY <1>1, <1>2, <1>3, <1>4, <1>5, <1>6, <1>7, <1>8, <1>9, <1>10 DEF Next, Wait

LEMMA ScriptedInv ==
  ASSUME Typed, Scripted, [Next]_vars
  PROVE  Scripted' /\ script' \in Seq(Transactions) /\ command' \in Names
<1>1. CASE Same BY <1>1 DEF Same, Typed, Scripted, Position
<1>2. CASE Begins BY <1>2, BeginScripted DEF Begins
<1>3. CASE GoesOn BY <1>3, TailScripted DEF Typed, GoesOn
<1> QED BY <1>1, <1>2, <1>3, ScriptStep

-------------------------------------------------------------------------------
(* Errors.                                                                   *)

(* The hardware's states fit in four bits, and an octet that the master      *)
(* acknowledges is reported so.                                              *)
LEMMA ReportsFacts ==
  ASSUME Typed, NEW step \in Steps, NEW stat \in Reports(step)
  PROVE  /\ stat \in 0 .. 11
         /\ step = "receive" /\ stat \in Good.receive => stat = data_recvd_ack
<1>1. bus \in {"free", "taken", "locked"} BY DEF Typed
<1> USE DEF start_sent, bus_error, re_start_sent, arbitration_lost, addr_w_ack, addr_w_nack,
            addr_r_ack, addr_r_nack, data_sent_ack, data_send_nack, data_recvd_ack,
            data_recvd_nack
<1>2. CASE step = "start"
  <2>1. Reports(step) \subseteq {start_sent, bus_error, re_start_sent, arbitration_lost}
    BY <1>1, <1>2 DEF Reports
  <2> QED BY <1>2, <2>1
<1>3. CASE step \in {"address_w", "address_r"}
  <2>1. Reports(step) \subseteq
          {addr_w_ack, addr_w_nack, addr_r_ack, addr_r_nack, arbitration_lost, bus_error}
    BY <1>3 DEF Reports
  <2> QED BY <1>3, <2>1
<1>4. CASE step = "send"
  <2>1. Reports(step) = {data_sent_ack, data_send_nack, arbitration_lost, bus_error}
    BY <1>4 DEF Reports
  <2> QED BY <1>4, <2>1
<1>5. CASE step = "receive"
  <2>1. Reports(step) = {data_recvd_ack, bus_error} BY <1>5 DEF Reports
  <2>2. Good.receive = {data_recvd_ack, data_recvd_nack} BY DEF Good
  <2> QED BY <1>5, <2>1, <2>2
<1>6. CASE step = "nack"
  <2>1. Reports(step) = {data_recvd_nack, arbitration_lost, bus_error} BY <1>6 DEF Reports
  <2> QED BY <1>6, <2>1
<1> QED BY <1>2, <1>3, <1>4, <1>5, <1>6 DEF Steps, Error

(* What is received is an answer of the slave, since the hardware never      *)
(* reports that an octet was not acknowledged that it was to acknowledge.    *)
LEMMA ReceiveFacts ==
  ASSUME Typed, receive_byte
  PROVE  /\ pc = "receive" /\ ReceiveOrNack(Len(bytes'))
         /\ UNCHANGED <<twi_address, command, script, kept, reply, taken, bus, sensors>>
         /\ \E answer \in Answer(Current.address) : bytes' = Append(bytes, answer)
<1>1. PICK stat \in Good.receive :
        /\ Step("receive", stat)
        /\ \E octet \in Stored(stat) : bytes' = Append(bytes, octet)
  BY DEF receive_byte
<1>2. "receive" \in Steps BY DEF Steps, Error
<1>3. stat = data_recvd_ack BY <1>1, <1>2, ReportsFacts DEF Step
<1>4. Stored(stat) = Answer(Current.address)
  BY <1>3 DEF Stored, data_recvd_ack, data_recvd_nack
<1> QED BY <1>1, <1>4 DEF receive_byte, Step

(* An error is an octet, never ok, and both its halves can be told from it.  *)
LEMMA CodeFacts ==
  ASSUME NEW step \in Steps, NEW stat \in 0 .. 11
  PROVE  /\ Code(step, stat) \in 1 .. 255
         /\ ErrorStep(Code(step, stat)) = Error[step]
         /\ ErrorState(Code(step, stat)) = stat
<1>1. Error[step] \in 1 .. 6 BY DEF Steps, Error
<1> DEFINE e == Error[step]
<1> HIDE DEF e
<1>2. e \in 1 .. 6 BY <1>1 DEF e
<1>3. (e + 16 * stat) % 256 = e + 16 * stat BY <1>2
<1>4. (e + 16 * stat) % 16 = e /\ (e + 16 * stat) \div 16 = stat BY <1>2
<1>5. Code(step, stat) = e + 16 * stat BY <1>3 DEF Code, e
<1> QED BY <1>2, <1>4, <1>5 DEF ErrorStep, ErrorState, e

-------------------------------------------------------------------------------
(* Sensors.                                                                  *)

LEMMA PointerType ==
  ASSUME Typed
  PROVE  pointer[Sensor] \in Registers /\ pointer[Light] \in Registers
BY DEF Typed

(* What a slave sends is from the register that is selected; an octet of a   *)
(* light sensor that is off is 0.                                            *)
LEMMA AnswerFacts ==
  ASSUME Typed, NEW address, NEW answer \in Answer(address)
  PROVE  /\ answer \in Received
         /\ address = Sensor => answer.register = pointer[Sensor]
         /\ address = Light /\ command \in Lightrs /\ answer.octet # 0 =>
              /\ pointer[Light] # PowerDown
              /\ answer.register = pointer[Light] /\ answer.extended = extended
<1>1. CASE address \notin {Sensor, Light}
  <2>1. answer \in [register : {0}, octet : {0}, extended : {FALSE}] BY <1>1 DEF Answer
  <2>2. 0 \in Registers BY ConstantFacts DEF PowerDown
  <2>3. answer = [register |-> 0, octet |-> 0, extended |-> FALSE] BY <2>1
  <2> QED BY <1>1, <2>2, <2>3 DEF Received
<1>2. CASE address \in {Sensor, Light}
  <2> DEFINE o == CASE command \notin Lightrs -> {0}
                    [] command \in Lightrs /\ pointer[Light] \in DOMAIN Reaction ->
                         Reaction[pointer[Light]]
                    [] command \in Lightrs /\ pointer[Light] \in {Channel0, Channel1} -> Samples
                    [] OTHER -> {PowerDown}
  <2>1. answer \in [register : {pointer[address]}, extended : {address = Light /\ extended},
                    octet : o]
    BY <1>2 DEF Answer
  <2>2. o \subseteq 0 .. 255 /\ (command \in Lightrs /\ pointer[Light] = PowerDown => o = {0})
    <3>1. DOMAIN Reaction = {PowerUp, Standard, Extended} BY DEF Reaction
    <3>2. \A n \in DOMAIN Reaction : Reaction[n] \subseteq 0 .. 255 BY DEF Reaction
    <3>3. /\ PowerDown \notin {PowerUp, Standard, Extended, Channel0, Channel1} /\ PowerDown = 0
          /\ {PowerUp, Standard, Extended} \cap {Channel0, Channel1} = {}
      BY DEF PowerDown, PowerUp, Standard, Extended, Channel0, Channel1
    <3>4. CASE command \notin Lightrs BY <3>4
    <3>5. CASE command \in Lightrs /\ pointer[Light] \in DOMAIN Reaction
      <4>1. o = Reaction[pointer[Light]] BY <3>1, <3>3, <3>5
      <4> QED BY <3>1, <3>2, <3>3, <3>5, <4>1
    <3>6. CASE /\ command \in Lightrs /\ pointer[Light] \notin DOMAIN Reaction
               /\ pointer[Light] \in {Channel0, Channel1}
      <4>1. o = Samples BY <3>6
      <4> QED BY <3>3, <3>6, <4>1, ConstantFacts
    <3>7. CASE /\ command \in Lightrs /\ pointer[Light] \notin DOMAIN Reaction
               /\ pointer[Light] \notin {Channel0, Channel1}
      <4>1. o = {PowerDown} BY <3>7
      <4> QED BY <3>3, <3>7, <4>1
    <3> QED BY <3>4, <3>5, <3>6, <3>7
  <2> HIDE DEF o
  <2>3. answer = [register |-> answer.register, extended |-> answer.extended,
                  octet |-> answer.octet]
        /\ answer.register = pointer[address] /\ answer.extended = (address = Light /\ extended)
        /\ answer.octet \in o
    BY <2>1
  <2>4. pointer[address] \in Registers BY <1>2, PointerType
  <2>5. answer.extended \in BOOLEAN /\ (address = Light => answer.extended = extended)
    BY <2>3 DEF Typed
  <2>6. answer \in Received BY <2>2, <2>3, <2>4, <2>5 DEF Received
  <2>7. address = Light /\ command \in Lightrs /\ answer.octet # 0 => pointer[Light] # PowerDown
    BY <2>2, <2>3
  <2> QED BY <2>3, <2>5, <2>6, <2>7
<1> QED BY <1>1, <1>2

(* A register is selected, or nothing happens. *)
LEMMA ObeyedType ==
  ASSUME Typed, NEW address, NEW n \in Registers
  PROVE  Obeyed(address, n) \in [{Sensor, Light} -> Registers]
<1>1. pointer \in [{Sensor, Light} -> Registers] BY DEF Typed
<1>2. Obeyed(address, n) \in
        {pointer, [pointer EXCEPT ![Sensor] = n], [pointer EXCEPT ![Light] = n]}
  BY DEF Obeyed
<1> QED BY <1>1, <1>2

(* What the first octet of a transaction selects, if the slave takes it. *)
LEMMA ToldType ==
  ASSUME Typed, Scripted, Transferred, send_byte
  PROVE  pointer' \in [{Sensor, Light} -> Registers] /\ extended' \in BOOLEAN
<1>1. Current.write /\ taken \in 1 .. Len(Current.octets)
  BY DEF send_byte, Step, Transferred
<1>2. Current.octets \in Seq(Registers) /\ Len(Current.octets) \in Nat \ {0}
  BY <1>1, CurrentFacts DEF Sized
<1>3. Current.octets[1] \in Registers BY <1>2
<1>4. pointer' \in {pointer, Obeyed(Current.address, Current.octets[1])}
  BY DEF send_byte, Told
<1>5. pointer' \in [{Sensor, Light} -> Registers]
  <2>1. pointer \in [{Sensor, Light} -> Registers] BY DEF Typed
  <2>2. Obeyed(Current.address, Current.octets[1]) \in [{Sensor, Light} -> Registers]
    BY <1>3, ObeyedType
  <2> QED BY <1>4, <2>1, <2>2
<1>6. extended' \in {pointer'[Light] = Extended, extended} BY DEF send_byte, Told
<1> QED BY <1>5, <1>6 DEF Typed

-------------------------------------------------------------------------------
(* The transaction.                                                          *)

(* What is typed but the script, the sensors and the answer.                 *)
Plain ==
  /\ twi_address \in Addresses /\ pc \in Steps \cup {"stop", "idle", "hung"}
  /\ taken \in Nat /\ bytes \in Seq(Received) /\ kept \in Seq(Received)
  /\ rv \in 0 .. 255 /\ bus \in {"free", "taken", "locked"} /\ led \in BOOLEAN

LEMMA EmptyType == <<>> \in Seq(Received)
OBVIOUS

LEMMA PlainInv ==
  ASSUME Typed, Scripted, Transferred, Held, [Next]_vars
  PROVE  Plain'
<1>1. Plain BY DEF Typed, Plain
<1>2. tme_ok \in 0 .. 255 BY DEF tme_ok
<1>3. {"start", "address_w", "address_r", "send", "receive", "nack"} = Steps BY DEF Steps, Error
<1>4. ASSUME NEW step \in Steps, Failed(step) PROVE Plain'
  <2>1. PICK stat \in Reports(step) \ Good[step] : Step(step, stat) /\ Abort(step, stat)
    BY <1>4 DEF Failed
  <2>2. Code(step, stat) \in 0 .. 255 BY <2>1, ReportsFacts, CodeFacts DEF Step
  <2> QED BY <1>1, <1>4, <2>1, <2>2 DEF Failed, Abort, Step, Plain
<1>5. CASE send_start BY <1>1, <1>3, <1>5 DEF send_start, Step, Plain
<1>6. CASE send_address_w
  BY <1>1, <1>2, <1>3, <1>6 DEF send_address_w, SendOrFinish, Finish, Step, Plain
<1>7. CASE send_address_r
  BY <1>1, <1>3, <1>7 DEF send_address_r, ReceiveOrNack, Step, Plain
<1>8. CASE send_byte
  <2>1. taken' = taken + 1 /\ UNCHANGED <<twi_address, bytes, kept, bus>>
    BY <1>8 DEF send_byte, Step
  <2>2. (pc' = "send" /\ UNCHANGED <<rv, led>>) \/ Finish BY <1>8 DEF send_byte, SendOrFinish
  <2>3. taken' \in Nat BY <1>1, <2>1 DEF Plain
  <2>4. pc' \in Steps \cup {"stop"} /\ rv' \in 0 .. 255 /\ led' \in BOOLEAN
    BY <1>1, <1>2, <1>3, <2>2 DEF Finish, Plain
  <2> QED BY <1>1, <2>1, <2>3, <2>4 DEF Plain
<1>9. CASE receive_byte
  <2>1. PICK answer \in Answer(Current.address) : bytes' = Append(bytes, answer)
    BY <1>9, ReceiveFacts
  <2>2. answer \in Received BY <2>1, AnswerFacts
  <2>3. bytes' \in Seq(Received) BY <1>1, <2>1, <2>2 DEF Plain
  <2> QED BY <1>1, <1>3, <1>9, <2>3, ReceiveFacts DEF ReceiveOrNack, Plain
<1>10. CASE send_nack BY <1>1, <1>2, <1>10 DEF send_nack, Finish, Step, Plain
<1>11. CASE Stopped
  <2>1. Read \in Seq(Received) BY <1>1 DEF Plain, Read
  <2>2. kept' \in {kept, Read} /\ bus' \in {"locked", "free"} /\ UNCHANGED <<twi_address, rv>>
    BY <1>11 DEF Stopped
  <2>3. \/ pc' = "start" /\ led' = TRUE /\ taken' = 0 /\ bytes' = <<>>
        \/ pc' = "idle" /\ UNCHANGED <<led, taken, bytes>>
    BY <1>11 DEF Stopped, Continue, Begin
  <2>4. pc' \in Steps \cup {"idle"} /\ taken' \in Nat
    <3>1. pc' \in {"start", "idle"} /\ taken' \in {0, taken} BY <2>3
    <3> QED BY <1>1, <1>3, <3>1 DEF Plain
  <2>5. led' \in BOOLEAN BY <1>1, <2>3, Zenon DEF Plain
  <2>6. bytes' \in Seq(Received) /\ kept' \in Seq(Received)
    BY <1>1, <2>1, <2>2, <2>3, EmptyType DEF Plain
  <2> QED BY <1>1, <2>2, <2>4, <2>5, <2>6 DEF Plain
<1>12. CASE Restart
  <2>1. /\ twi_address' = NoAddress /\ pc' = "start" /\ taken' = 0 /\ bytes' = <<>> /\ kept' = <<>>
        /\ rv' = tme_ok /\ bus' \in {"free", "locked"} /\ led' = TRUE
    BY <1>12 DEF Restart, Start, Begin
  <2>2. NoAddress \in Addresses BY TwiAssumption
  <2>3. "start" \in Steps BY <1>3
  <2> QED BY <1>2, <2>1, <2>2, <2>3, EmptyType DEF Plain
<1>13. ASSUME NEW name \in DOMAIN Scripts, Call(name) PROVE Plain'
  BY <1>1, <1>3, <1>13, EmptyType DEF Call, Begin, Plain
<1>14. ASSUME NEW address \in Addresses, Twia(address) PROVE Plain'
  BY <1>1, <1>14 DEF Twia, Plain
<1>15. CASE Silent BY <1>1, <1>15 DEF Silent, Plain
<1>16. CASE twi_master_recover BY <1>1, <1>16 DEF twi_master_recover, Plain
<1>17. CASE LosePower \/ UNCHANGED vars
  <2>1. CASE LosePower BY <1>1, <2>1 DEF LosePower, Plain
  <2>2. CASE UNCHANGED vars BY <1>1, <2>2 DEF vars, Plain
  <2> QED BY <1>17, <2>1, <2>2
<1> QED BY <1>4, <1>5, <1>6, <1>7, <1>8, <1>9, <1>10, <1>11, <1>12, <1>13, <1>14, <1>15,
          <1>16, <1>17
     DEF Next, Wait

(* What the hardware has told is one of its states. *)
LEMMA ReportedInv ==
  ASSUME Typed, [Next]_vars
  PROVE  reported' \in 0 .. no_state
<1>1. {"start", "address_w", "address_r", "send", "receive", "nack"} = Steps BY DEF Steps, Error
<1>2. ASSUME NEW step \in Steps, NEW stat, Step(step, stat) PROVE reported' \in 0 .. no_state
  <2>1. stat \in Reports(step) /\ reported' = stat BY <1>2 DEF Step
  <2> QED BY <1>2, <2>1, ReportsFacts DEF no_state
<1>3. CASE UNCHANGED reported BY <1>3 DEF Typed
<1>4. CASE Stopped \/ Restart BY <1>4 DEF Stopped, Restart, Start, no_state
<1>5. ASSUME NEW step \in Steps, Failed(step) PROVE reported' \in 0 .. no_state
  BY <1>2, <1>5 DEF Failed
<1>6. CASE send_start \/ send_address_w \/ send_address_r \/ send_byte \/ receive_byte \/ send_nack
  BY <1>1, <1>2, <1>6
     DEF send_start, send_address_w, send_address_r, send_byte, receive_byte, send_nack
<1> QED BY <1>3, <1>4, <1>5, <1>6
     DEF Next, Wait, vars, Twia, Call, Silent, LosePower, twi_master_recover

LEMMA SensorsInv ==
  ASSUME Typed, Scripted, Transferred, [Next]_vars
  PROVE  pointer' \in [{Sensor, Light} -> Registers] /\ extended' \in BOOLEAN
<1>1. pointer \in [{Sensor, Light} -> Registers] /\ extended \in BOOLEAN BY DEF Typed
<1>2. CASE send_byte BY <1>2, ToldType
<1>3. CASE LosePower BY <1>1, <1>3, ConstantFacts DEF LosePower
<1>4. CASE UNCHANGED sensors BY <1>1, <1>4 DEF sensors
<1> QED BY <1>2, <1>3, <1>4
     DEF Next, Wait, vars, Failed, Twia, Call, send_start, send_address_w, send_address_r,
         receive_byte, send_nack, Stopped, Silent, twi_master_recover, Restart

(* The size of the transaction, in numbers. *)
LEMMA CurrentSize ==
  ASSUME Typed, Scripted
  PROVE  /\ Current.write \in BOOLEAN
         /\ Current.write => Len(Current.octets) \in 1 .. MaxWrite + 1
         /\ ~Current.write => Current.size \in 1 .. ReadSize
         /\ Len(bytes) \in Nat /\ taken \in Nat
<1>1. Current \in Transactions /\ Sized(Current) BY CurrentFacts
<1>2. Current.write \in BOOLEAN BY <1>1 DEF Transactions, Sends, Receives
<1>3. bytes \in Seq(Received) /\ taken \in Nat BY DEF Typed
<1>4. Len(bytes) \in Nat BY <1>3
<1> QED BY <1>1, <1>2, <1>3, <1>4 DEF Sized

(* The first transaction of a script. *)
LEMMA HeadSized ==
  ASSUME NEW name \in Names, NEW s \in Seq(Transactions), Len(s) \in 1 .. Total(name),
         \A i \in 1 .. Len(s) : s[i] \in Planned(name, Total(name) - Len(s) + 1 + i - 1)
  PROVE  Head(s) \in Transactions /\ Sized(Head(s))
<1>1. Total(name) \in 1 .. 8 BY TotalType
<1>2. 1 \in 1 .. Len(s) /\ Head(s) = s[1] BY <1>1
<1>3. Total(name) - Len(s) + 1 + 1 - 1 \in 1 .. Total(name) BY <1>1
<1> QED BY <1>2, <1>3, PlannedType

(* A transaction that begins. *)
LEMMA BeginTransferred ==
  ASSUME Typed', Scripted', pc' \in {"start", "idle"}, taken' = 0, bytes' = <<>>
  PROVE  Transferred'
<1>1. /\ Current'.write => Len(Current'.octets) \in Nat
      /\ ~Current'.write => Current'.size \in Nat
  <2>1. command' \in Names /\ script' \in Seq(Transactions) BY DEF Typed
  <2>2. Sized(Head(script')) BY <2>1, HeadSized DEF Scripted, Position
  <2> QED BY <2>2, ConstantFacts DEF Sized, Current
<1>2. Len(bytes') = 0 OBVIOUS
<1> QED BY <1>1, <1>2 DEF Transferred

LEMMA TransferredInv ==
  ASSUME Typed, Scripted, Transferred, Typed', Scripted', [Next]_vars
  PROVE  Transferred'
<1>1. /\ Current.write \in BOOLEAN
      /\ Current.write => Len(Current.octets) \in Nat \ {0}
      /\ ~Current.write => Current.size \in Nat \ {0}
      /\ Len(bytes) \in Nat /\ taken \in Nat
  BY CurrentSize, ConstantFacts
<1>2. pc' \in {"idle", "stop", "hung"} /\ UNCHANGED <<script, taken, bytes>> => Transferred'
  BY DEF Transferred, Current
<1>3. ASSUME NEW step \in Steps, Failed(step) PROVE Transferred'
  BY <1>2, <1>3 DEF Failed, Step, Abort
<1>4. CASE send_start
  <2>1. pc = "start" /\ UNCHANGED <<script, taken, bytes>>
        /\ pc' = IF Current.write THEN "address_w" ELSE "address_r"
    BY <1>4 DEF send_start, Step
  <2>2. Current' = Current BY <2>1 DEF Current
  <2>3. Len(<<>>) = 0 OBVIOUS
  <2> QED BY <1>1, <2>1, <2>2, <2>3 DEF Transferred
<1>5. CASE send_address_w
  <2>1. pc = "address_w" /\ UNCHANGED <<script, bytes>> /\ taken' = 1
    BY <1>5 DEF send_address_w, Step
  <2>2. (pc' = "send" /\ 1 <= Len(Current.octets)) \/ pc' = "stop"
    BY <1>5 DEF send_address_w, SendOrFinish, Finish
  <2>3. Current' = Current BY <2>1 DEF Current
  <2> QED BY <1>1, <2>1, <2>2, <2>3 DEF Transferred
<1>6. CASE send_address_r
  <2>1. pc = "address_r" /\ UNCHANGED <<script, bytes>> /\ taken' = 1
    BY <1>6 DEF send_address_r, Step
  <2>2. pc' = "receive"
    BY <1>1, <1>6, <2>1 DEF send_address_r, ReceiveOrNack, Transferred
  <2>3. Current' = Current BY <2>1 DEF Current
  <2>4. Len(<<>>) = 0 OBVIOUS
  <2> QED BY <1>1, <2>1, <2>2, <2>3, <2>4 DEF Transferred
<1>7. CASE send_byte
  <2>1. pc = "send" /\ UNCHANGED <<script, bytes>> /\ taken' = taken + 1
    BY <1>7 DEF send_byte, Step
  <2>2. (pc' = "send" /\ taken' <= Len(Current.octets)) \/ pc' = "stop"
    BY <1>7 DEF send_byte, SendOrFinish, Finish
  <2>3. Current' = Current BY <2>1 DEF Current
  <2> QED BY <1>1, <2>1, <2>2, <2>3 DEF Transferred
<1>8. CASE receive_byte
  <2>1. pc = "receive" /\ UNCHANGED <<script, taken>> BY <1>8, ReceiveFacts
  <2>2. Len(bytes') = Len(bytes) + 1
    <3>1. PICK answer \in Answer(Current.address) : bytes' = Append(bytes, answer)
      BY <1>8, ReceiveFacts
    <3>2. bytes \in Seq(Received) /\ answer \in Received BY <3>1, AnswerFacts DEF Typed
    <3> QED BY <3>1, <3>2, AppendProperties
  <2>3. pc' = IF Len(bytes') < Current.size THEN "receive" ELSE "nack"
    BY <1>8 DEF receive_byte, ReceiveOrNack
  <2>4. Current' = Current BY <2>1 DEF Current
  <2>5. ~Current.write /\ taken = 1 /\ Len(bytes) < Current.size BY <2>1 DEF Transferred
  <2> QED BY <1>1, <2>1, <2>2, <2>3, <2>4, <2>5 DEF Transferred
<1>9. CASE send_nack BY <1>2, <1>9 DEF send_nack, Finish, Step
<1>10. CASE Stopped
  <2>1. \/ pc' = "start" /\ taken' = 0 /\ bytes' = <<>>
        \/ pc' = "idle" /\ UNCHANGED <<script, taken, bytes>>
    BY <1>10 DEF Stopped, Continue, Begin
  <2> QED BY <1>2, <2>1, BeginTransferred
<1>11. CASE Restart BY <1>11, BeginTransferred DEF Restart, Start, Begin
<1>12. ASSUME NEW name \in DOMAIN Scripts, Call(name) PROVE Transferred'
  BY <1>12, BeginTransferred DEF Call, Begin
<1>13. CASE Silent BY <1>2, <1>13 DEF Silent
<1>14. CASE UNCHANGED <<pc, script, taken, bytes>>
  BY <1>14 DEF Transferred, Current
<1> QED BY <1>3, <1>4, <1>5, <1>6, <1>7, <1>8, <1>9, <1>10, <1>11, <1>12, <1>13, <1>14
     DEF Next, Wait, vars, Twia, twi_master_recover, LosePower

LEMMA HeldInv ==
  ASSUME Typed, Held, Released, [Next]_vars
  PROVE  Held' /\ Released'
<1>1. /\ {"start", "address_w", "address_r", "send", "receive", "nack"} = Steps
      /\ bus \in {"free", "taken", "locked"}
  BY DEF Steps, Error, Typed
<1>2. ASSUME NEW step \in Steps, Failed(step) PROVE Held' /\ Released'
  <2>1. pc' = "stop" /\ led' = FALSE BY <1>2 DEF Failed, Abort
  <2> QED BY <2>1 DEF Held, Released
<1>3. CASE send_start BY <1>3 DEF send_start, Held, Released
<1>4. CASE send_address_w \/ send_address_r \/ send_byte \/ receive_byte \/ send_nack
  <2>1. pc \in {"address_w", "address_r", "send", "receive", "nack"} /\ bus' = bus
    BY <1>4 DEF send_address_w, send_address_r, send_byte, receive_byte, send_nack, Step
  <2>2. \/ pc' \in {"send", "receive", "nack"}
        \/ pc' = "stop" /\ led' = FALSE
    BY <1>4 DEF send_address_w, send_address_r, send_byte, receive_byte, send_nack,
                SendOrFinish, ReceiveOrNack, Finish
  <2> QED BY <2>1, <2>2 DEF Held, Released
<1>5. CASE Stopped
  <2>1. pc = "stop" /\ bus' \in {"locked", "free"} BY <1>5 DEF Stopped
  <2>2. pc' = "start" \/ (pc' = "idle" /\ led' = led)
    BY <1>5 DEF Stopped, Continue, Begin
  <2> QED BY <2>1, <2>2 DEF Held, Released
<1>6. CASE Restart
  <2>1. pc' = "start" /\ bus' \in {"locked", "free"} BY <1>6 DEF Restart, Start, Begin
  <2> QED BY <2>1 DEF Held, Released
<1>7. ASSUME NEW name \in DOMAIN Scripts, Call(name) PROVE Held' /\ Released'
  <2>1. pc = "idle" /\ pc' = "start" /\ bus' = bus BY <1>7 DEF Call, Begin
  <2> QED BY <2>1 DEF Held, Released
<1>8. CASE Silent BY <1>8 DEF Silent, Held, Released
<1>9. CASE twi_master_recover
  <2>1. pc = "idle" /\ pc' = "idle" /\ led' = led /\ bus' \in {"free", bus}
    BY <1>9 DEF twi_master_recover
  <2> QED BY <2>1 DEF Held, Released
<1>10. CASE UNCHANGED <<pc, bus, led>> BY <1>10 DEF Held, Released
<1> QED BY <1>2, <1>3, <1>4, <1>5, <1>6, <1>7, <1>8, <1>9, <1>10
     DEF Next, Wait, vars, Twia, LosePower

(* ok is what Finish returns, and only when the transaction is whole. *)
LEMMA WholeInv ==
  ASSUME Typed, Scripted, Transferred, Held, OkMeansWhole, [Next]_vars
  PROVE  OkMeansWhole'
<1>1. /\ Current.write \in BOOLEAN
      /\ Current.write => Len(Current.octets) \in Nat \ {0}
      /\ ~Current.write => Current.size \in Nat \ {0}
      /\ Len(bytes) \in Nat /\ taken \in Nat
  BY CurrentSize, ConstantFacts
<1>2. ASSUME NEW step \in Steps, Failed(step) PROVE rv' # tme_ok
  <2>1. PICK stat \in Reports(step) \ Good[step] : Step(step, stat) /\ Abort(step, stat)
    BY <1>2 DEF Failed
  <2>2. Code(step, stat) \in 1 .. 255 BY <2>1, ReportsFacts, CodeFacts DEF Step
  <2> QED BY <2>1, <2>2 DEF Abort, tme_ok
<1>3. CASE send_address_w \/ send_byte
  <2>1. UNCHANGED script /\ taken' \in Nat /\ Current.write /\ taken' <= 1 + Len(Current.octets)
    BY <1>1, <1>3 DEF send_address_w, send_byte, Step, Transferred
  <2>2. pc' = "send" \/ ~(taken' <= Len(Current.octets))
    BY <1>3 DEF send_address_w, send_byte, SendOrFinish
  <2>3. Current' = Current BY <2>1 DEF Current
  <2> QED BY <1>1, <2>1, <2>2, <2>3 DEF OkMeansWhole, Whole
<1>4. CASE send_nack
  <2>1. pc = "nack" /\ UNCHANGED <<script, taken, bytes>> BY <1>4 DEF send_nack, Step
  <2>2. Current' = Current BY <2>1 DEF Current
  <2> QED BY <2>1, <2>2 DEF OkMeansWhole, Whole, Transferred
<1>5. CASE pc' # "stop" BY <1>5 DEF OkMeansWhole
<1>6. CASE UNCHANGED <<pc, rv, script, taken, bytes>>
  BY <1>6 DEF OkMeansWhole, Whole, Current
<1>7. CASE send_start \/ send_address_r \/ receive_byte
  BY <1>5, <1>7 DEF send_start, send_address_r, receive_byte, ReceiveOrNack
<1>8. CASE Stopped BY <1>5, <1>8 DEF Stopped, Continue, Begin
<1>9. CASE Restart \/ Silent \/ \E name \in DOMAIN Scripts : Call(name)
  BY <1>5, <1>9 DEF Restart, Start, Begin, Silent, Call
<1> QED BY <1>2, <1>3, <1>4, <1>6, <1>7, <1>8, <1>9
     DEF Next, Wait, vars, Twia, twi_master_recover, LosePower, OkMeansWhole

(* How far the transaction has come says which step is under way. *)
LEMMA StepReached ==
  ASSUME Typed, Scripted, Transferred, Held, pc \in Steps
  PROVE  Reached = pc
<1>1. Current.write \in BOOLEAN /\ taken \in Nat BY CurrentSize
<1>2. pc \in {"start", "address_w", "address_r", "send", "receive", "nack"} BY DEF Steps, Error
<1>3. CASE pc = "start" BY <1>3 DEF Transferred, Held, Reached
<1>4. CASE pc \in {"address_w", "address_r"} BY <1>4 DEF Transferred, Held, Reached
<1>5. CASE pc = "send"
  <2>1. taken > 0 /\ Current.write BY <1>1, <1>5 DEF Transferred
  <2> QED BY <1>1, <1>5, <2>1 DEF Reached
<1>6. CASE pc = "receive"
  <2>1. taken = 1 /\ ~Current.write /\ Len(bytes) < Current.size BY <1>6 DEF Transferred
  <2> QED BY <1>6, <2>1 DEF Reached
<1>7. CASE pc = "nack"
  <2>1. taken = 1 /\ ~Current.write /\ Len(bytes) = Current.size BY <1>7 DEF Transferred
  <2>2. ~(Len(bytes) < Current.size) BY <1>1, <2>1, CurrentSize
  <2> QED BY <1>7, <2>1, <2>2 DEF Reached
<1> QED BY <1>2, <1>3, <1>4, <1>5, <1>6, <1>7

(* An error is returned by Abort alone. *)
LEMMA ErrorInv ==
  ASSUME Typed, Scripted, Transferred, Held, ErrorTells, [Next]_vars
  PROVE  ErrorTells'
<1>1. ASSUME UNCHANGED <<script, taken, bytes, bus>> PROVE Reached' = Reached
  BY <1>1 DEF Reached, Current
<1>2. ASSUME NEW step \in Steps, Failed(step) PROVE ErrorTells'
  <2>1. PICK stat \in Reports(step) \ Good[step] : Step(step, stat) /\ Abort(step, stat)
    BY <1>2 DEF Failed
  <2>2. /\ pc = step /\ rv' = Code(step, stat) /\ reported' = stat
        /\ UNCHANGED <<script, taken, bytes, bus>>
    BY <1>2, <2>1 DEF Failed, Step, Abort
  <2>3. ErrorStep(rv') = Error[step] /\ ErrorState(rv') = stat
    BY <2>1, <2>2, ReportsFacts, CodeFacts
  <2>4. Reached' = step BY <1>1, <2>2, StepReached
  <2> QED BY <2>1, <2>2, <2>3, <2>4 DEF ErrorTells, ErrorStep, ErrorState
<1>3. CASE pc' # "stop" \/ rv' = tme_ok BY <1>3 DEF ErrorTells
<1>4. CASE send_address_w \/ send_byte \/ send_nack
  BY <1>3, <1>4 DEF send_address_w, send_byte, send_nack, SendOrFinish, Finish
<1>5. CASE send_start \/ send_address_r \/ receive_byte
  BY <1>3, <1>5 DEF send_start, send_address_r, receive_byte, ReceiveOrNack
<1>6. CASE Stopped BY <1>3, <1>6 DEF Stopped, Continue, Begin
<1>7. CASE Restart \/ Silent \/ twi_master_recover \/ \E name \in DOMAIN Scripts : Call(name)
  BY <1>3, <1>7 DEF Restart, Start, Begin, Silent, Call, twi_master_recover
<1>8. CASE UNCHANGED <<pc, rv, script, taken, bytes, bus, reported>>
  BY <1>1, <1>8 DEF ErrorTells, ErrorStep, ErrorState
<1> QED BY <1>2, <1>4, <1>5, <1>6, <1>7, <1>8 DEF Next, Wait, vars, Twia, LosePower

-------------------------------------------------------------------------------
(* What was received.                                                        *)

(* The size of what is received: nothing, but for what the last transaction  *)
(* of a reading command and the answers of the light sensor.                 *)
LEMMA PlannedFacts ==
  ASSUME Typed, Scripted
  PROVE  /\ command \in {"tempr", "lightr_0", "lightr_1"} => Current.address \in {Sensor, Light}
         /\ command = "tempr" =>
              /\ Position \in 1 .. 3 /\ (Current.write <=> Position < 3)
              /\ Current.address = Sensor
              /\ Position = 2 => Current.octets = <<Temperature>>
         /\ command = "init" => Position \in 1 .. 2 /\ (Current.write <=> Position = 1)
         /\ command \in Lightrs =>
              /\ Position \in 1 .. 8 /\ Current.address = Light
              /\ Current.write <=> Position \in {1, 3, 5, 7}
              /\ Current.write => Current.octets = <<Asked(command, (Position + 1) \div 2)>>
              /\ ~Current.write => Current.size = 1
         /\ command \in {"twiw", "twir"} => Position = 1 /\ Len(script) = 1
<1>1. Position \in 1 .. Total(command) /\ Current \in Planned(command, Position)
      /\ Len(script) = Total(command) + 1 - Position
  BY CurrentFacts
<1>2. CASE command = "tempr"
  <2>1. Position \in 1 .. 3 BY <1>1, <1>2 DEF Total
  <2>2. Current = TempStep(Position) BY <1>1, <1>2 DEF Planned
  <2>3. CASE Position = 1
    <3>1. Current = Send(Sensor, <<Config, Config>>) BY <2>2, <2>3 DEF TempStep
    <3> QED BY <1>2, <2>1, <2>3, <3>1 DEF Send, Lightrs
  <2>4. CASE Position = 2
    <3>1. Current = Send(Sensor, <<Temperature>>) BY <2>2, <2>4 DEF TempStep
    <3> QED BY <1>2, <2>1, <2>4, <3>1 DEF Send, Lightrs
  <2>5. CASE Position = 3
    <3>1. Current = Receive(Sensor, 2) BY <2>2, <2>5 DEF TempStep
    <3> QED BY <1>2, <2>1, <2>5, <3>1 DEF Receive, Lightrs
  <2> QED BY <2>1, <2>3, <2>4, <2>5
<1>3. CASE command \in {"init", "lightr_0", "lightr_1"}
  <2>1. Position \in 1 .. 8 /\ (command = "init" => Position \in 1 .. 2)
    BY <1>1, <1>3 DEF Total
  <2>2. Current = LightStep(command, Position) BY <1>1, <1>3 DEF Planned
  <2>3. CASE Position \in {1, 3, 5, 7}
    <3>1. Current = Send(Light, <<Asked(command, (Position + 1) \div 2)>>)
      BY <2>2, <2>3 DEF LightStep
    <3> HIDE DEF Position
    <3> QED BY <1>3, <2>1, <2>3, <3>1 DEF Send, Lightrs
  <2>4. CASE Position \notin {1, 3, 5, 7}
    <3>1. Current = Receive(Light, 1) BY <2>2, <2>4 DEF LightStep
    <3> QED BY <1>3, <2>1, <2>4, <3>1 DEF Receive, Lightrs
  <2> QED BY <2>3, <2>4
<1>4. CASE command \in {"twiw", "twir"}
  <2>1. Total(command) = 1 BY <1>4 DEF Total
  <2> QED BY <1>1, <1>4, <2>1 DEF Lightrs
<1> QED BY <1>2, <1>3, <1>4 DEF Typed, Names

LEMMA GoesOnFacts ==
  ASSUME Typed, Scripted, Transferred, OkMeansWhole, GoesOn
  PROVE  /\ Position' = Position + 1 /\ Position \in 1 .. 7 /\ Position < Total(command)
         /\ Whole /\ kept' = Read /\ bytes' = <<>> /\ taken' = 0
         /\ Len(Read) = Len(kept) + Len(bytes)
         /\ Current.write => bytes = <<>>
         /\ UNCHANGED <<pointer, extended>> /\ reply' = "none"
<1>1. Position' = Position + 1 BY TailScripted DEF GoesOn
<1>2. Position \in 1 .. Total(command) /\ Len(script) = Total(command) + 1 - Position
  BY CurrentFacts
<1>3. Total(command) \in 1 .. 8 BY TotalType DEF Typed
<1>4. Position \in 1 .. 7 /\ Position < Total(command) BY <1>2, <1>3 DEF GoesOn
<1>5. kept \in Seq(Received) /\ bytes \in Seq(Received) BY DEF Typed
<1>6. Len(Read) = Len(kept) + Len(bytes) BY <1>5, ConcatProperties DEF Read
<1>7. Whole BY DEF GoesOn, Stopped, OkMeansWhole
<1>8. kept' = Read /\ reply' = "none" BY DEF GoesOn, Stopped
<1>9. bytes' = <<>> /\ taken' = 0 BY DEF GoesOn, Stopped, Continue, Begin
<1>10. Current.write => bytes = <<>> BY DEF Transferred
<1>11. UNCHANGED <<pointer, extended>> BY DEF GoesOn, Stopped, sensors
<1> QED BY <1>1, <1>4, <1>6, <1>7, <1>8, <1>9, <1>10, <1>11

LEMMA KeptInv ==
  ASSUME Typed, Scripted, Transferred, OkMeansWhole, Kept, [Next]_vars
  PROVE  Kept'
<1>1. CASE Begins
  <2>1. Position' = 1 BY <1>1, BeginScripted DEF Begins
  <2>2. Len(kept') = 0 BY <1>1 DEF Begins
  <2>3. (1 - 1) \div 2 = 0 OBVIOUS
  <2> QED BY <2>1, <2>2, <2>3 DEF Kept
<1>2. CASE GoesOn
  <2> DEFINE p == Position
  <2>1. /\ Position' = p + 1 /\ p \in 1 .. 7 /\ p < Total(command) /\ Whole
        /\ Len(kept') = Len(kept) + Len(bytes) /\ (Current.write => bytes = <<>>)
        /\ command' = command
    <3>1. /\ Position' = Position + 1 /\ Position \in 1 .. 7 /\ Position < Total(command)
          /\ Whole /\ kept' = Read /\ Len(Read) = Len(kept) + Len(bytes)
          /\ Current.write => bytes = <<>>
      BY <1>2, GoesOnFacts
    <3>2. command' = command BY <1>2 DEF GoesOn
    <3> QED BY <3>1, <3>2
  <2>2. Len(<<>>) = 0 OBVIOUS
  <2>3. Len(kept) \in Nat /\ Len(bytes) \in Nat
    <3>1. kept \in Seq(Received) /\ bytes \in Seq(Received) BY DEF Typed
    <3> QED BY <3>1
  <2> HIDE DEF p
  <2>4. CASE command \in Lightrs
    <3>1. /\ Len(kept) = (p - 1) \div 2
          /\ Current.write <=> p \in {1, 3, 5, 7}
          /\ ~Current.write => Len(bytes) = 1
      BY <2>1, <2>4, PlannedFacts DEF Kept, Whole, p
    <3>2. CASE p \in {1, 3, 5, 7}
      <4>1. Len(kept') = (p - 1) \div 2 BY <2>1, <2>2, <2>3, <3>1, <3>2
      <4>2. (p - 1) \div 2 = (p + 1 - 1) \div 2 BY <3>2
      <4> QED BY <2>1, <2>4, <4>1, <4>2 DEF Kept
    <3>3. CASE p \in {2, 4, 6}
      <4>1. Len(kept') = (p - 1) \div 2 + 1
        <5>1. Len(bytes) = 1 BY <3>1, <3>3
        <5>2. Len(kept') = Len(kept) + 1 BY <2>1, <5>1
        <5> QED BY <3>1, <5>2
      <4>2. (p - 1) \div 2 + 1 = (p + 1 - 1) \div 2 BY <3>3
      <4> QED BY <2>1, <2>4, <4>1, <4>2 DEF Kept
    <3> QED BY <2>1, <3>2, <3>3
  <2>5. CASE command \notin Lightrs
    <3>1. Len(kept) = 0 BY <2>5 DEF Kept
    <3>2. Current.write
      <4>1. command \in {"init", "twiw", "twir", "tempr"} BY <2>5 DEF Typed, Names, Lightrs
      <4> QED BY <2>1, <4>1, PlannedFacts DEF Total, p
    <3> QED BY <2>1, <2>2, <2>5, <3>1, <3>2 DEF Kept
  <2> QED BY <2>4, <2>5
<1>3. CASE Same
  <2>1. UNCHANGED <<command, script, kept>> BY <1>3 DEF Same
  <2> QED BY <2>1 DEF Kept, Position
<1> QED BY <1>1, <1>2, <1>3, ScriptStep

(* A receive appends an answer of the slave. *)
LEMMA ReceivedFacts ==
  ASSUME Typed, receive_byte
  PROVE  \E answer \in Answer(Current.address) :
           /\ bytes' \in Seq(Received) /\ Len(bytes') = Len(bytes) + 1
           /\ \A i \in 1 .. Len(bytes) : bytes'[i] = bytes[i]
           /\ bytes'[Len(bytes) + 1] = answer
<1>1. PICK answer \in Answer(Current.address) : bytes' = Append(bytes, answer)
  BY ReceiveFacts
<1>2. bytes \in Seq(Received) BY DEF Typed
<1>3. answer \in Received BY AnswerFacts
<1> QED BY <1>1, <1>2, <1>3, AppendProperties

LEMMA MeasuredInv ==
  ASSUME Typed, Scripted, Transferred, OkMeansWhole, Measured, [Next]_vars
  PROVE  Measured'
<1> SUFFICES ASSUME command' = "tempr" PROVE Measured' BY DEF Measured
<1>1. CASE Begins
  <2>1. Position' = 1 /\ bytes' = <<>> BY <1>1, BeginScripted DEF Begins
  <2>2. Len(bytes') = 0 BY <2>1
  <2> QED BY <2>1, <2>2 DEF Measured
<1>2. CASE GoesOn
  <2>1. command = "tempr" BY <1>2 DEF GoesOn
  <2>2. /\ Position' = Position + 1 /\ Position < Total(command) /\ Whole
        /\ bytes' = <<>> /\ taken' = 0 /\ UNCHANGED pointer
    BY <1>2, GoesOnFacts
  <2>3. Position \in 1 .. 2 /\ Current.write BY <2>1, <2>2, PlannedFacts DEF Total
  <2>4. Position = 2 => taken = 2
    <3> SUFFICES ASSUME Position = 2 PROVE taken = 2 OBVIOUS
    <3>1. Current.octets = <<Temperature>> BY <2>1, PlannedFacts
    <3>2. Len(Current.octets) = 1 BY <3>1
    <3>3. taken = 1 + Len(Current.octets) BY <2>2, <2>3 DEF Whole
    <3> QED BY <3>2, <3>3
  <2>5. Len(bytes') = 0 BY <2>2
  <2> QED BY <2>1, <2>2, <2>3, <2>4, <2>5 DEF Measured
<1>3. ASSUME Same PROVE command = "tempr" /\ Position' = Position /\ Position \in 1 .. 3
  BY <1>3, PlannedFacts DEF Same, Position
<1>4. CASE Same /\ Still BY <1>3, <1>4 DEF Measured, Still
<1>5. CASE Same /\ Addressed BY <1>3, <1>5 DEF Measured, Addressed
<1>6. CASE Same /\ send_byte
  <2>1. Current.write /\ taken \in 1 .. Len(Current.octets) /\ taken' = taken + 1
        /\ bytes' = bytes
    BY <1>6 DEF send_byte, Step, Transferred
  <2>2. Current.address = Sensor /\ Position \in 1 .. 2
    BY <1>3, <1>6, <2>1, PlannedFacts
  <2>3. Position = 2 => pointer'[Sensor] = Temperature
    <3> SUFFICES ASSUME Position = 2 PROVE pointer'[Sensor] = Temperature OBVIOUS
    <3>1. Current.octets = <<Temperature>> BY <1>3, <1>6, PlannedFacts
    <3>2. Len(Current.octets) = 1 /\ Current.octets[1] = Temperature BY <3>1
    <3>3. taken = 1 BY <2>1, <3>2
    <3>4. pointer' = Obeyed(Sensor, Temperature) BY <1>6, <2>2, <3>2, <3>3 DEF send_byte, Told
    <3>5. Obeyed(Sensor, Temperature) = [pointer EXCEPT ![Sensor] = Temperature]
      BY ConstantFacts DEF Obeyed
    <3> QED BY <3>4, <3>5 DEF Typed
  <2> QED BY <1>3, <1>6, <2>1, <2>2, <2>3 DEF Measured
<1>7. CASE Same /\ receive_byte
  <2>1. pc = "receive" /\ ~Current.write /\ taken' = taken /\ pointer' = pointer
    BY <1>7, ReceiveFacts DEF Transferred, sensors
  <2>2. Position = 3 /\ Current.address = Sensor BY <1>3, <1>7, <2>1, PlannedFacts
  <2>3. pointer[Sensor] = Temperature BY <1>3, <1>7, <2>2 DEF Measured
  <2>4. PICK answer \in Answer(Sensor) :
          /\ Len(bytes') = Len(bytes) + 1
          /\ \A i \in 1 .. Len(bytes) : bytes'[i] = bytes[i]
          /\ bytes'[Len(bytes) + 1] = answer
    BY <1>7, <2>2, ReceivedFacts
  <2>5. answer.register = Temperature BY <2>3, AnswerFacts
  <2>6. \A i \in 1 .. Len(bytes) : bytes[i].register = Temperature
    BY <1>3, <1>7 DEF Measured
  <2>7. Len(bytes) \in Nat BY CurrentSize
  <2>8. \A i \in 1 .. Len(bytes') : bytes'[i].register = Temperature
    BY <2>4, <2>5, <2>6, <2>7
  <2> QED BY <1>3, <1>7, <2>1, <2>3, <2>8 DEF Measured
<1>8. CASE Same /\ LosePower
  <2>1. pointer' = [pointer EXCEPT ![Light] = PowerDown] /\ UNCHANGED <<taken, bytes>>
    BY <1>8 DEF LosePower
  <2>2. pointer'[Sensor] = pointer[Sensor] BY <2>1, ConstantFacts DEF Typed
  <2> QED BY <1>3, <1>8, <2>1, <2>2 DEF Measured
<1> QED BY <1>1, <1>2, <1>4, <1>5, <1>6, <1>7, <1>8, ScriptStep

(* A light sensor that is on does as it is told, and is in range from the    *)
(* time it was told the range.                                               *)
LEMMA LightTold ==
  ASSUME Typed, Scripted, Transferred, Selected, command \in Lightrs, send_byte
  PROVE  /\ taken = 1 /\ taken' = 2 /\ Position \in {1, 3, 5, 7}
         /\ pointer'[Light] # PowerDown =>
              /\ pointer'[Light] = Asked(command, (Position + 1) \div 2)
              /\ Position > 2 => extended' = (RangeOf(command) = Extended)
<1> DEFINE j == (Position + 1) \div 2
<1>1. Current.write /\ taken \in 1 .. Len(Current.octets) /\ taken' = taken + 1
  BY DEF send_byte, Step, Transferred
<1>2. /\ Current.address = Light /\ Position \in {1, 3, 5, 7}
      /\ Current.octets = <<Asked(command, j)>>
  BY <1>1, PlannedFacts
<1>3. Len(Current.octets) = 1 /\ Current.octets[1] = Asked(command, j) BY <1>2
<1>4. taken = 1 /\ taken' = 2 BY <1>1, <1>3
<1> DEFINE n == Asked(command, j)
<1>5. pointer' = Obeyed(Light, n) BY <1>2, <1>3, <1>4 DEF send_byte, Told
<1>6. extended' = IF pointer'[Light] \in {Standard, Extended, PowerDown}
                  THEN pointer'[Light] = Extended ELSE extended
  BY DEF send_byte, Told
<1>7. j \in 1 .. 4 /\ (Position = 1 <=> j = 1) /\ (Position = 3 <=> j = 2)
  BY <1>2
<1> HIDE DEF j
<1>8. /\ n \in {PowerUp, Standard, Extended, Channel0, Channel1}
      /\ j = 1 <=> n = PowerUp
      /\ j = 2 => n = RangeOf(command)
      /\ j > 2 => n \in {Channel0, Channel1}
  BY <1>7 DEF Asked, RangeOf, PowerUp, Standard, Extended, Channel0, Channel1
<1> HIDE DEF n
<1>9. pointer'[Light] = n \/ (pointer[Light] = PowerDown /\ pointer'[Light] = PowerDown)
  <2>1. DOMAIN Reaction = {PowerUp, Standard, Extended} BY DEF Reaction
  <2>2. CASE n = PowerUp \/ pointer[Light] # PowerDown
    <3>1. Obeyed(Light, n) = [pointer EXCEPT ![Light] = n]
      BY <1>8, <2>1, <2>2, ConstantFacts DEF Obeyed
    <3> QED BY <1>5, <3>1 DEF Typed
  <2>3. CASE n # PowerUp /\ pointer[Light] = PowerDown
    <3>1. Obeyed(Light, n) = pointer BY <2>3, ConstantFacts DEF Obeyed
    <3> QED BY <1>5, <2>3, <3>1
  <2> QED BY <2>2, <2>3
<1>10. ASSUME pointer'[Light] # PowerDown, Position > 2
       PROVE  extended' = (RangeOf(command) = Extended)
  <2>1. pointer'[Light] = n BY <1>9, <1>10
  <2>2. CASE Position = 3
    <3>1. n = RangeOf(command) /\ n \in {Standard, Extended} BY <1>7, <1>8, <2>2 DEF RangeOf
    <3> QED BY <1>6, <2>1, <3>1
  <2>3. CASE Position # 3
    <3>1. Position > 4 /\ n \in {Channel0, Channel1} BY <1>2, <1>7, <1>8, <1>10, <2>3
    <3>2. extended' = extended
      BY <1>6, <2>1, <3>1 DEF PowerDown, Standard, Extended, Channel0, Channel1
    <3>3. n # PowerUp BY <3>1 DEF PowerUp, Channel0, Channel1
    <3>4. pointer[Light] # PowerDown
      <4>1. CASE pointer[Light] = PowerDown
        <5>1. Obeyed(Light, n) = pointer BY <3>3, <4>1, ConstantFacts DEF Obeyed
        <5> QED BY <1>5, <1>10, <4>1, <5>1
      <4> QED BY <4>1
    <3>5. extended = (RangeOf(command) = Extended) BY <3>1, <3>4 DEF Selected, InRange
    <3> QED BY <3>2, <3>5
  <2> QED BY <2>2, <2>3
<1> QED BY <1>2, <1>4, <1>9, <1>10 DEF n, j

LEMMA SelectedInv ==
  ASSUME Typed, Scripted, Transferred, OkMeansWhole, Selected, [Next]_vars
  PROVE  Selected'
<1> SUFFICES ASSUME command' \in Lightrs, pointer'[Light] # PowerDown
             PROVE  Selected'
  BY DEF Selected
<1>1. CASE Begins
  <2>1. Position' = 1 /\ taken' = 0 BY <1>1, BeginScripted DEF Begins
  <2> QED BY <2>1 DEF Selected, Delivered
<1>2. CASE GoesOn
  <2> DEFINE p == Position
  <2>1. /\ Position' = p + 1 /\ p \in 1 .. 7 /\ Whole
        /\ taken' = 0 /\ UNCHANGED <<pointer, extended>>
    BY <1>2, GoesOnFacts
  <2>2. command' = command /\ command \in Lightrs BY <1>2 DEF GoesOn
  <2>3. p \in {1, 3, 5, 7} => taken = 2
    <3> SUFFICES ASSUME p \in {1, 3, 5, 7} PROVE taken = 2 OBVIOUS
    <3>1. Current.write /\ Current.octets = <<Asked(command, (p + 1) \div 2)>>
      BY <2>2, PlannedFacts
    <3>2. Len(Current.octets) = 1 BY <3>1
    <3>3. taken = 1 + Len(Current.octets) BY <2>1, <3>1 DEF Whole
    <3> QED BY <3>2, <3>3
  <2>4. Delivered => pointer[Light] = Asked(command, (p + 1) \div 2)
    BY <2>1, <2>2 DEF Selected
  <2>5. p > 4 \/ (p > 2 /\ Delivered) => InRange BY <2>1, <2>2 DEF Selected
  <2>6. Delivered
    BY <2>1, <2>3 DEF Delivered
  <2>7. InRange' = InRange BY <2>1, <2>2 DEF InRange
  <2>8. Delivered' <=> p \in {1, 3, 5, 7} BY <2>1 DEF Delivered
  <2> HIDE DEF p
  <2>9. p \in {1, 3, 5, 7} => (p + 1) \div 2 = (p + 1 + 1) \div 2 OBVIOUS
  <2>10. Delivered' => pointer'[Light] = Asked(command', (Position' + 1) \div 2)
    BY <2>1, <2>2, <2>4, <2>6, <2>8, <2>9
  <2>11. Position' > 4 \/ (Position' > 2 /\ Delivered') => InRange'
    BY <2>1, <2>5, <2>6, <2>7, <2>8
  <2> QED BY <2>10, <2>11 DEF Selected
<1>3. ASSUME Same PROVE command \in Lightrs /\ command' = command /\ Position' = Position
                        /\ Position \in 1 .. 8
  BY <1>3, PlannedFacts DEF Same, Position
<1>4. CASE Same /\ Still BY <1>3, <1>4 DEF Selected, Delivered, InRange, Still
<1>5. CASE Same /\ Addressed BY <1>3, <1>5 DEF Selected, Delivered, InRange, Addressed
<1>6. CASE Same /\ send_byte
  <2>1. /\ taken' = 2 /\ Position \in {1, 3, 5, 7}
        /\ pointer'[Light] = Asked(command, (Position + 1) \div 2)
        /\ Position > 2 => extended' = (RangeOf(command) = Extended)
    BY <1>3, <1>6, LightTold
  <2>2. Position' = Position /\ command' = command BY <1>3, <1>6
  <2> QED BY <2>1, <2>2 DEF Selected, InRange
<1>7. CASE Same /\ receive_byte
  <2>1. UNCHANGED <<taken, pointer, extended>> BY <1>7 DEF receive_byte, sensors
  <2> QED BY <1>3, <1>7, <2>1 DEF Selected, Delivered, InRange
<1>8. CASE Same /\ LosePower
  <2>1. pointer' = [pointer EXCEPT ![Light] = PowerDown] BY <1>8 DEF LosePower
  <2>2. pointer'[Light] = PowerDown BY <2>1 DEF Typed
  <2> QED BY <2>2
<1> QED BY <1>1, <1>2, <1>4, <1>5, <1>6, <1>7, <1>8, ScriptStep

(* Read, when an octet was received and when a command goes on. *)
LEMMA ReadFacts ==
  ASSUME Typed
  PROVE  /\ Read \in Seq(Received) /\ Len(Read) = Len(kept) + Len(bytes)
         /\ Len(kept) \in Nat /\ Len(bytes) \in Nat
         /\ \A i \in 1 .. Len(kept) : Read[i] = kept[i]
<1>1. kept \in Seq(Received) /\ bytes \in Seq(Received) BY DEF Typed
<1>2. Len(kept) \in Nat /\ Len(bytes) \in Nat BY <1>1
<1>3. /\ Read \in Seq(Received) /\ Len(Read) = Len(kept) + Len(bytes)
      /\ \A i \in 1 .. Len(kept) + Len(bytes) :
           Read[i] = IF i <= Len(kept) THEN kept[i] ELSE bytes[i - Len(kept)]
  BY <1>1, ConcatProperties DEF Read
<1> QED BY <1>2, <1>3

LEMMA ReadGoesOn ==
  ASSUME Typed, Scripted, Transferred, OkMeansWhole, GoesOn
  PROVE  Read' = Read /\ kept' = Read
<1>1. kept' = Read /\ bytes' = <<>> BY GoesOnFacts
<1>2. Read' = Read \o <<>> BY <1>1 DEF Read
<1> QED BY <1>1, <1>2, ReadFacts, ConcatEmptySeq

LEMMA ReadSame ==
  ASSUME Same, Still \/ Addressed \/ send_byte \/ LosePower
  PROVE  Read' = Read
BY DEF Same, Still, Addressed, send_byte, LosePower, Read

LEMMA ReadBegins ==
  ASSUME Begins
  PROVE  Read' = <<>> /\ Len(Read') = 0 /\ Len(kept') = 0
<1>1. Read' = <<>> \o <<>> /\ kept' = <<>> BY DEF Begins, Read
<1>2. <<>> \o <<>> = <<>> BY ConcatEmptySeq, EmptyType
<1> QED BY <1>1, <1>2

LEMMA SampledInv ==
  ASSUME Typed, Scripted, Transferred, OkMeansWhole, Kept, Selected, Sampled, Typed', [Next]_vars
  PROVE  Sampled'
<1> SUFFICES ASSUME command' \in Lightrs PROVE Sampled' BY DEF Sampled
<1>1. CASE Begins BY <1>1, ReadBegins DEF Sampled
<1>2. CASE GoesOn
  <2>1. Read' = Read /\ command' = command BY <1>2, ReadGoesOn DEF GoesOn
  <2> QED BY <2>1 DEF Sampled
<1>3. CASE Same /\ (Still \/ Addressed \/ send_byte \/ LosePower)
  <2>1. Read' = Read /\ command' = command BY <1>3, ReadSame DEF Same
  <2> QED BY <2>1 DEF Sampled
<1>4. CASE Same /\ receive_byte
  <2> DEFINE p == Position
             k == Len(kept)
  <2>1. command' = command /\ command \in Lightrs /\ kept' = kept BY <1>4 DEF Same
  <2>2. ~Current.write /\ Len(bytes) < Current.size
    BY <1>4, ReceiveFacts DEF Transferred
  <2>3. p \in {2, 4, 6, 8} /\ Current.address = Light /\ Current.size = 1
    BY <2>1, <2>2, PlannedFacts
  <2>4. Len(bytes) = 0 /\ k \in Nat BY <2>2, <2>3, ReadFacts
  <2>5. k = (p - 1) \div 2 BY <2>1 DEF Kept
  <2>6. PICK answer \in Answer(Light) : Len(bytes') = 1 /\ bytes'[1] = answer
    <3>1. PICK answer \in Answer(Light) :
            Len(bytes') = Len(bytes) + 1 /\ bytes'[Len(bytes) + 1] = answer
      BY <1>4, <2>3, ReceivedFacts
    <3>2. Len(bytes) + 1 = 1 BY <2>4
    <3> QED BY <3>1, <3>2
  <2>7. /\ Len(Read') = k + 1 /\ Read'[k + 1] = answer
        /\ \A i \in 1 .. k : Read'[i] = Read[i]
    <3>1. kept \in Seq(Received) /\ bytes' \in Seq(Received) BY DEF Typed
    <3>2. Read' = kept \o bytes' BY <2>1 DEF Read
    <3>3. /\ Len(Read') = k + Len(bytes')
          /\ \A i \in 1 .. k + Len(bytes') :
               Read'[i] = IF i <= k THEN kept[i] ELSE bytes'[i - k]
      BY <3>1, <3>2, ConcatProperties
    <3> HIDE DEF k
    <3>4. k + 1 - k = 1 /\ k + 1 \in 1 .. k + Len(bytes') /\ ~(k + 1 <= k) BY <2>4, <2>6
    <3>5. Read'[k + 1] = bytes'[1]
      <4> DEFINE i == k + 1
      <4>1. Read'[i] = IF i <= k THEN kept[i] ELSE bytes'[i - k] BY <3>3, <3>4
      <4> QED BY <2>4, <3>4, <4>1
    <3>6. \A i \in 1 .. k : Read'[i] = kept[i] BY <2>4, <2>6, <3>3 DEF k
    <3> QED BY <2>6, <3>3, <3>4, <3>5, <3>6, ReadFacts DEF k
  <2>8. ASSUME answer.octet # 0
        PROVE  /\ answer.register = Asked(command, k + 1)
               /\ k + 1 > 2 => answer.extended = (RangeOf(command) = Extended)
    <3>1. /\ pointer[Light] # PowerDown
          /\ answer.register = pointer[Light] /\ answer.extended = extended
      BY <2>1, <2>6, <2>8, AnswerFacts
    <3>2. Delivered BY <2>3 DEF Delivered
    <3>3. pointer[Light] = Asked(command, (p + 1) \div 2) BY <2>1, <3>1, <3>2 DEF Selected
    <3>4. p > 4 => extended = (RangeOf(command) = Extended)
      BY <2>1, <3>1 DEF Selected, InRange
    <3> HIDE DEF p
    <3>5. (p + 1) \div 2 = k + 1 /\ (k + 1 > 2 => p > 4) BY <2>3, <2>5
    <3> QED BY <3>1, <3>3, <3>4, <3>5
  <2>9. ASSUME NEW i \in 1 .. Len(Read'), Read'[i].octet # 0
        PROVE  /\ Read'[i].register = Asked(command, i)
               /\ i > 2 => Read'[i].extended = (RangeOf(command) = Extended)
    <3>1. CASE i = k + 1 BY <2>7, <2>8, <2>9, <3>1
    <3>2. CASE i \in 1 .. k
      <4>1. i \in 1 .. Len(Read) BY <2>4, <3>2, ReadFacts
      <4>2. Read'[i] = Read[i] BY <2>7, <3>2
      <4> QED BY <2>1, <2>9, <4>1, <4>2 DEF Sampled
    <3> QED BY <2>4, <2>7, <3>1, <3>2
  <2> QED BY <2>1, <2>9 DEF Sampled
<1> QED BY <1>1, <1>2, <1>3, <1>4, ScriptStep

LEMMA ConfirmedInv ==
  ASSUME Typed, Scripted, Transferred, OkMeansWhole, Confirmed, [Next]_vars
  PROVE  Confirmed'
<1>1. CASE Begins BY <1>1, ReadBegins DEF Confirmed
<1>2. CASE GoesOn
  <2>1. kept' = Read /\ command' = command /\ Accepted BY <1>2, ReadGoesOn DEF GoesOn
  <2>2. DOMAIN Read = 1 .. Len(Read) BY ReadFacts
  <2> QED BY <2>1, <2>2 DEF Confirmed, Accepted
<1>3. CASE Same BY <1>3 DEF Same, Confirmed
<1> QED BY <1>1, <1>2, <1>3, ScriptStep

-------------------------------------------------------------------------------
(* The answer.                                                               *)

(* How an answer comes about. *)
LEMMA ReplyStep ==
  ASSUME Typed, Replied, [Next]_vars
  PROVE  \/ reply' = "none"
         \/ UNCHANGED <<pc, reply, rv, kept, bytes, command>>
         \/ /\ Stopped /\ pc' = "idle" /\ reply' \in Replies
            /\ UNCHANGED <<rv, kept, bytes, command, script>>
<1>1. CASE pc = "idle"
  <2>1. ~Wait /\ ~Silent /\ ~Restart
    BY <1>1 DEF Wait, Failed, Step, send_start, send_address_w, send_address_r, send_byte,
                receive_byte, send_nack, Stopped, Silent, Restart, Steps, Error
  <2> QED BY <2>1 DEF Next, Twia, Call, twi_master_recover, LosePower, vars
<1>2. CASE pc # "idle"
  <2>1. reply = "none" BY <1>2 DEF Replied
  <2>2. CASE Stopped BY <2>2 DEF Stopped, Continue, Begin
  <2>3. CASE ~Stopped
    <3>1. reply' = reply \/ reply' = "none"
      BY <2>3 DEF Next, Wait, Twia, Call, Failed, Step, send_start, send_address_w,
                  send_address_r, send_byte, receive_byte, send_nack, Silent, Restart, Start,
                  twi_master_recover, LosePower, vars
    <3> QED BY <2>1, <3>1
  <2> QED BY <2>2, <2>3
<1> QED BY <1>1, <1>2

(* What is said about two octets: ok is said about valid ones alone, and of  *)
(* valid ones it is twi_error if the second counts more.                   *)
LEMMA EvaluationFacts ==
  ASSUME NEW a, NEW b
  PROVE  /\ Evaluation(a, b) \subseteq {"ok", "overflow", "twi_error"}
         /\ "ok" \in Evaluation(a, b) => Valid(a) /\ Valid(b)
         /\ "twi_error" \in Evaluation(a, b) /\ Valid(a) /\ Valid(b) =>
              adc2count(a) < adc2count(b)
<1>1. CASE ~Valid(a)
  <2>1. Evaluation(a, b) = {"twi_error"} BY <1>1 DEF Evaluation
  <2> QED BY <1>1, <2>1
<1>2. CASE Valid(a) /\ Overflow(a)
  <2>1. Evaluation(a, b) = {"overflow"} BY <1>2 DEF Evaluation
  <2> QED BY <1>2, <2>1
<1>3. CASE Valid(a) /\ ~Overflow(a) /\ ~Valid(b)
  <2>1. Evaluation(a, b) = {"twi_error"} BY <1>3 DEF Evaluation
  <2> QED BY <1>3, <2>1
<1>4. CASE Valid(a) /\ ~Overflow(a) /\ Valid(b) /\ Overflow(b)
  <2>1. Evaluation(a, b) = {"overflow"} BY <1>4 DEF Evaluation
  <2> QED BY <1>4, <2>1
<1>5. CASE Valid(a) /\ ~Overflow(a) /\ Valid(b) /\ ~Overflow(b)
  <2>1. Evaluation(a, b) =
          IF adc2count(a) < adc2count(b) THEN {"ok", "twi_error"} ELSE {"ok"}
    BY <1>5 DEF Evaluation
  <2>2. CASE adc2count(a) < adc2count(b)
    <3>1. Evaluation(a, b) = {"ok", "twi_error"} BY <2>1, <2>2
    <3> QED BY <1>5, <2>2, <3>1
  <2>3. CASE ~(adc2count(a) < adc2count(b))
    <3>1. Evaluation(a, b) = {"ok"} BY <2>1, <2>3
    <3> QED BY <1>5, <3>1
  <2> QED BY <2>2, <2>3
<1> QED BY <1>1, <1>2, <1>3, <1>4, <1>5

LEMMA RepliesFacts ==
  ASSUME NEW r \in Replies
  PROVE  /\ r \in {"none", "ok", "overflow", "twi_error"}
         /\ command \in Lightrs /\ (r = "ok" \/ (rv = tme_ok /\ Accepted /\ Len(Read) = 4)) =>
              /\ Accepted /\ Len(Read) = 4
              /\ r \in Evaluation(Read[3].octet, Read[4].octet)
<1>1. CASE command \notin Lightrs
  <2>1. Replies \subseteq {"none", "ok", "twi_error"}
    <3>1. CASE command = "init"
      <4>1. Replies = {"none"} BY <1>1, <3>1 DEF Replies
      <4> QED BY <4>1
    <3>2. CASE command \in {"twiw", "twir"}
      <4>1. Replies = {IF rv = tme_ok THEN "ok" ELSE "twi_error"} BY <1>1, <3>2 DEF Replies
      <4> QED BY <4>1
    <3>3. CASE command = "tempr"
      <4>1. Replies = {"ok"} BY <1>1, <3>3 DEF Replies
      <4> QED BY <4>1
    <3>4. CASE command \notin {"init", "twiw", "twir", "tempr"}
      <4>1. Replies = {"twi_error"} BY <1>1, <3>4 DEF Replies
      <4> QED BY <4>1
    <3> QED BY <3>1, <3>2, <3>3, <3>4
  <2> QED BY <1>1, <2>1
<1>2. CASE command \in Lightrs /\ rv = tme_ok /\ Accepted /\ Len(Read) = 4
  <2>1. Replies = Evaluation(Read[3].octet, Read[4].octet) BY <1>2 DEF Replies, Lightrs
  <2> QED BY <1>2, <2>1, EvaluationFacts
<1>3. CASE command \in Lightrs /\ ~(rv = tme_ok /\ Accepted /\ Len(Read) = 4)
  <2>1. Replies = {"twi_error"} BY <1>3 DEF Replies, Lightrs
  <2> QED BY <1>3, <2>1
<1> QED BY <1>1, <1>2, <1>3

LEMMA RepliedInv ==
  ASSUME Typed, Replied, [Next]_vars
  PROVE  Replied' /\ reply' \in {"none", "ok", "overflow", "twi_error"}
<1>1. CASE reply' = "none" BY <1>1 DEF Replied
<1>2. CASE UNCHANGED <<pc, reply, rv, kept, bytes, command>> BY <1>2 DEF Replied, Typed
<1>3. CASE pc' = "idle" /\ reply' \in Replies BY <1>1, <1>3, RepliesFacts DEF Replied
<1> QED BY <1>1, <1>2, <1>3, ReplyStep

(* A count by its chord, as long as the step value keeps to its 8 bits.      *)
Chords == <<[v |-> 0, w |-> 1], [v |-> 16, w |-> 2], [v |-> 49, w |-> 4], [v |-> 115, w |-> 8],
            [v |-> 247, w |-> 16], [v |-> 511, w |-> 32], [v |-> 1039, w |-> 64],
            [v |-> 2095, w |-> 128]>>

LEMMA Powers ==
  /\ 2 ^ 0 = 1 /\ 2 ^ 1 = 2 /\ 2 ^ 2 = 4 /\ 2 ^ 3 = 8
  /\ 2 ^ 4 = 16 /\ 2 ^ 5 = 32 /\ 2 ^ 6 = 64 /\ 2 ^ 7 = 128
BY SMT

LEMMA CountByChord ==
  ASSUME NEW n \in 128 .. 255, StepValue(n) < 256
  PROVE  LET c == Chord(n) + 1
         IN  /\ c \in 1 .. 8 /\ StepNumber(n) \in 0 .. 15
             /\ n = 128 + 16 * (c - 1) + StepNumber(n)
             /\ StepNumber(n) * Chords[c].w < 256
             /\ adc2count(n) = Chords[c].v + StepNumber(n) * Chords[c].w
<1> DEFINE d == Chord(n)
           s == StepNumber(n)
<1>1. d \in 0 .. 7 /\ s \in 0 .. 15 /\ n = 128 + 16 * d + s
  BY DEF Chord, StepNumber
<1>2. ASSUME NEW k \in 0 .. 7, d = k, NEW w \in 1 .. 128, NEW v \in Nat, 2 ^ k = w,
             (33 * (w - 1)) \div 2 = v
      PROVE  s * w < 256 /\ adc2count(n) = v + s * w
  <2>1. StepValue(n) = s * w BY <1>2 DEF StepValue
  <2>2. ChordValue(n) = v BY <1>2 DEF ChordValue
  <2> HIDE DEF d, s
  <2>3. s * w \in Nat BY <1>1
  <2>4. s * w < 256 BY <2>1
  <2>5. (s * w) % 256 = s * w BY <2>3, <2>4
  <2>6. adc2count(n) = v + ((s * w) % 256) BY <2>1, <2>2 DEF adc2count
  <2> QED BY <2>4, <2>5, <2>6
<1> HIDE DEF d, s
<1>3. /\ (33 * (1 - 1)) \div 2 = 0 /\ (33 * (2 - 1)) \div 2 = 16
      /\ (33 * (4 - 1)) \div 2 = 49 /\ (33 * (8 - 1)) \div 2 = 115
      /\ (33 * (16 - 1)) \div 2 = 247 /\ (33 * (32 - 1)) \div 2 = 511
      /\ (33 * (64 - 1)) \div 2 = 1039 /\ (33 * (128 - 1)) \div 2 = 2095
  OBVIOUS
<1>4. \A k \in 0 .. 7 : d = k =>
        s * Chords[k + 1].w < 256 /\ adc2count(n) = Chords[k + 1].v + s * Chords[k + 1].w
  <2>0. CASE d = 0 BY <1>2, <1>3, <2>0, Powers DEF Chords
  <2>1. CASE d = 1 BY <1>2, <1>3, <2>1, Powers DEF Chords
  <2>2. CASE d = 2 BY <1>2, <1>3, <2>2, Powers DEF Chords
  <2>3. CASE d = 3 BY <1>2, <1>3, <2>3, Powers DEF Chords
  <2>4. CASE d = 4 BY <1>2, <1>3, <2>4, Powers DEF Chords
  <2>5. CASE d = 5 BY <1>2, <1>3, <2>5, Powers DEF Chords
  <2>6. CASE d = 6 BY <1>2, <1>3, <2>6, Powers DEF Chords
  <2>7. CASE d = 7 BY <1>2, <1>3, <2>7, Powers DEF Chords
  <2> QED BY <1>1, <2>0, <2>1, <2>2, <2>3, <2>4, <2>5, <2>6, <2>7
<1> QED BY <1>1, <1>4 DEF d, s

(* More light does not count less, up to where the step value wraps.         *)
LEMMA CountMonotonic ==
  ASSUME NEW a \in 128 .. 255, NEW b \in 128 .. 255, StepValue(a) < 256, StepValue(b) < 256, b <= a
  PROVE  adc2count(a) \in Nat /\ adc2count(b) \in Nat /\ adc2count(b) <= adc2count(a)
<1> DEFINE c == Chord(a) + 1
           d == Chord(b) + 1
           s == StepNumber(a)
           t == StepNumber(b)
<1>1. /\ c \in 1 .. 8 /\ s \in 0 .. 15 /\ a = 128 + 16 * (c - 1) + s
      /\ s * Chords[c].w < 256 /\ adc2count(a) = Chords[c].v + s * Chords[c].w
  BY CountByChord
<1>2. /\ d \in 1 .. 8 /\ t \in 0 .. 15 /\ b = 128 + 16 * (d - 1) + t
      /\ t * Chords[d].w < 256 /\ adc2count(b) = Chords[d].v + t * Chords[d].w
  BY CountByChord
<1> HIDE DEF c, d, s, t
<1>3. d < c \/ (d = c /\ t <= s) BY <1>1, <1>2
<1>4. \A k \in 1 .. 8 : Chords[k].w \in Nat /\ Chords[k].v \in Nat BY DEF Chords
<1>5. adc2count(b) \in Nat /\ adc2count(a) \in Nat
  <2>1. \A m, n \in Nat : m * n \in Nat OBVIOUS
  <2>2. s * Chords[c].w \in Nat /\ t * Chords[d].w \in Nat BY <1>1, <1>2, <1>4, <2>1
  <2> QED BY <1>1, <1>2, <1>4, <2>2
<1>6. CASE d = c /\ t <= s
  <2> DEFINE w == Chords[c].w
             v == Chords[c].v
  <2>1. w \in Nat /\ v \in Nat BY <1>1, <1>4
  <2> HIDE DEF w, v
  <2>2. t * w <= s * w BY <1>1, <1>2, <1>6, <2>1
  <2>3. adc2count(a) = v + s * w /\ adc2count(b) = v + t * w BY <1>1, <1>2, <1>6 DEF v, w
  <2>4. t * w \in Nat /\ s * w \in Nat
    <3>1. \A m, n \in Nat : m * n \in Nat OBVIOUS
    <3> QED BY <1>1, <1>2, <2>1, <3>1
  <2> QED BY <2>1, <2>2, <2>3, <2>4
<1>7. CASE d < c
  <2>1. \A k \in 2 .. 8 : Chords[k - 1].v <= Chords[k].v
    BY DEF Chords
  <2>2. Chords[d + 1].v <= Chords[c].v
    BY <1>1, <1>2, <1>7 DEF Chords
  <2>3. \A k \in 1 .. 7 : \A m \in 0 .. 15 :
          m * Chords[k].w < 256 => Chords[k].v + m * Chords[k].w <= Chords[k + 1].v
    BY DEF Chords
  <2>4. adc2count(b) <= Chords[d + 1].v BY <1>1, <1>2, <1>7, <2>3
  <2>5. Chords[c].v <= adc2count(a)
    <3>1. s * Chords[c].w \in Nat BY <1>1, <1>4
    <3> QED BY <1>1, <1>4, <3>1
  <2>6. Chords[d + 1].v \in Nat /\ Chords[c].v \in Nat BY <1>1, <1>2, <1>4, <1>7
  <2> QED BY <1>5, <2>2, <2>4, <2>5, <2>6
<1> QED BY <1>3, <1>5, <1>6, <1>7

(* The answer of a lightr, from what was sampled. *)
(* Four octets, of which the first two have been kept, and accepted. *)
Full == Len(Read) = 4

LEMMA FourAccepted ==
  ASSUME Typed, Scripted, Transferred, Confirmed, command \in Lightrs, Full
  PROVE  Accepted
<1>1. ~Current.write => Current.size = 1 BY PlannedFacts
<1>3. Len(kept) \in Nat /\ Len(bytes) \in Nat /\ Len(Read) = Len(kept) + Len(bytes)
  BY ReadFacts
<1>4. Len(bytes) \in 0 .. 1
  <2> DEFINE n == Len(bytes)
  <2>1. CASE Current.write
    <3>1. bytes = <<>> BY <2>1 DEF Transferred
    <3>2. Len(bytes) = 0 BY <3>1
    <3> QED BY <3>2
  <2>2. CASE ~Current.write
    <3>1. n <= 1 /\ n \in Nat BY <1>1, <1>3, <2>2 DEF Transferred
    <3> HIDE DEF n
    <3>2. n \in 0 .. 1 BY <3>1
    <3> QED BY <3>2 DEF n
  <2> QED BY <2>1, <2>2, Zenon
<1>5. {1, 2} \subseteq 1 .. Len(kept)
  <2>1. Len(kept) \in Nat /\ Len(kept) + Len(bytes) = 4 BY <1>3 DEF Full
  <2> QED BY <1>4, <2>1
<1>6. \A i \in {1, 2} :
        kept[i].octet \in Reaction[IF i = 1 THEN PowerUp ELSE RangeOf(command)]
  BY <1>5 DEF Confirmed
<1>7. \A i \in {1, 2} : Read[i] = kept[i] BY <1>5, ReadFacts
<1> QED BY <1>6, <1>7 DEF Accepted

LEMMA FourReceived ==
  ASSUME Typed, Full
  PROVE  DOMAIN Read = 1 .. 4 /\ \A i \in 1 .. 4 : Read[i] \in Received /\ Read[i].octet \in 0 .. 255
<1>1. Read \in Seq(Received) BY ReadFacts
<1>2. DOMAIN Read = 1 .. Len(Read) /\ \A i \in 1 .. Len(Read) : Read[i] \in Received BY <1>1
<1>3. \A i \in 1 .. 4 : Read[i] \in Received BY <1>2 DEF Full
<1> QED BY <1>2, <1>3 DEF Received, Full

LEMMA LightReadInv ==
  ASSUME Typed, Sampled, Replied, LightRead, [Next]_vars
  PROVE  LightRead'
<1> SUFFICES ASSUME command' \in Lightrs, reply' = "ok" PROVE LightRead' BY DEF LightRead
<1>1. CASE UNCHANGED <<pc, reply, rv, kept, bytes, command>>
  BY <1>1 DEF LightRead, Read
<1>2. CASE reply' \in Replies /\ UNCHANGED <<rv, kept, bytes, command, script>>
  <2> DEFINE R == Read
             r == RangeOf(command)
  <2>1. /\ command \in Lightrs /\ Accepted /\ Full
        /\ "ok" \in Evaluation(R[3].octet, R[4].octet)
    BY <1>2, RepliesFacts DEF Full
  <2>2. Valid(R[3].octet) /\ Valid(R[4].octet) BY <2>1, EvaluationFacts
  <2>3. DOMAIN R = 1 .. 4 BY <2>1, FourReceived
  <2>4. \A i \in 1 .. 4 : R[i].octet \in 0 .. 255 BY <2>1, FourReceived
  <2>5. R[3].octet # 0 /\ R[4].octet # 0 BY <2>2, <2>4 DEF Valid
  <2>6. R[1].octet # 0 /\ R[2].octet # 0
    <3>1. R[1].octet \in Reaction[PowerUp] /\ R[2].octet \in Reaction[r]
      BY <2>1, <2>3 DEF Accepted
    <3>2. r \in {Standard, Extended} BY DEF RangeOf
    <3>3. \A n \in {PowerUp, Standard, Extended} : 0 \notin Reaction[n] BY DEF Reaction
    <3> HIDE DEF R, r
    <3> QED BY <3>1, <3>2, <3>3
  <2>7. /\ \A i \in 1 .. 4 : R[i].register = Asked(command, i)
        /\ \A i \in {3, 4} : R[i].extended = (r = Extended)
    BY <2>1, <2>5, <2>6 DEF Sampled, Full
  <2>8. [i \in DOMAIN R |-> R[i].register] = <<PowerUp, r, Channel0, Channel1>>
    <3> DEFINE f == [i \in DOMAIN R |-> R[i].register]
               g == <<PowerUp, r, Channel0, Channel1>>
    <3>1. DOMAIN f = 1 .. 4 /\ DOMAIN g = 1 .. 4 BY <2>3
    <3>2. \A i \in 1 .. 4 : f[i] = Asked(command, i) BY <2>3, <2>7
    <3>3. \A i \in 1 .. 4 : g[i] = Asked(command, i) BY DEF Asked
    <3>4. \A i \in 1 .. 4 : f[i] = g[i] BY <3>2, <3>3
    <3>5. f = [i \in 1 .. 4 |-> f[i]] /\ g = [i \in 1 .. 4 |-> g[i]] BY <2>3
    <3> HIDE DEF f, g
    <3>6. f = g BY <3>4, <3>5
    <3> QED BY <3>6 DEF f, g
  <2>9. Read' = Read /\ command' = command BY <1>2 DEF Read
  <2> QED BY <2>7, <2>8, <2>9 DEF LightRead
<1> QED BY <1>1, <1>2, ReplyStep

LEMMA LightRefusedInv ==
  ASSUME Typed, Scripted, Transferred, Confirmed, Replied, LightRefused, [Next]_vars
  PROVE  LightRefused'
<1>1. CASE reply' = "none" BY <1>1 DEF LightRefused
<1>2. CASE UNCHANGED <<pc, reply, rv, kept, bytes, command>>
  BY <1>2 DEF LightRefused, Read
<1>3. CASE reply' \in Replies /\ UNCHANGED <<rv, kept, bytes, command, script>>
  <2> DEFINE a == Read[3].octet
             b == Read[4].octet
             Bright == a >= 128 /\ b >= 128
             Narrow == StepValue(a) < 256 /\ StepValue(b) < 256
  <2>1. Read' = Read /\ rv' = rv BY <1>3 DEF Read
  <2> HIDE DEF Bright, Narrow
  <2> SUFFICES ASSUME command' \in Lightrs, reply' = "twi_error", rv = tme_ok, Full, Bright, Narrow
               PROVE  a < b
    BY <2>1 DEF LightRefused, Full, Bright, Narrow
  <2>2. command \in Lightrs BY <1>3
  <2>3. Accepted BY <2>2, FourAccepted
  <2>4. "twi_error" \in Evaluation(a, b) BY <1>3, <2>2, <2>3, RepliesFacts DEF Full
  <2>5. a \in 0 .. 255 /\ b \in 0 .. 255
    <3>1. 3 \in 1 .. 4 /\ 4 \in 1 .. 4 OBVIOUS
    <3> QED BY <3>1, FourReceived, Zenon
  <2> HIDE DEF a, b
  <2>6. a \in 128 .. 255 /\ b \in 128 .. 255 BY <2>5 DEF Bright
  <2>7. adc2count(a) < adc2count(b)
    <3>1. Valid(a) /\ Valid(b) BY <2>6 DEF Valid
    <3> QED BY <2>4, <3>1, EvaluationFacts, Zenon
  <2>8. CASE b <= a
    <3>1. adc2count(a) \in Nat /\ adc2count(b) \in Nat /\ adc2count(b) <= adc2count(a)
      BY <2>6, <2>8, CountMonotonic DEF Narrow
    <3> QED BY <2>7, <3>1
  <2> QED BY <2>6, <2>8
<1> QED BY <1>1, <1>2, <1>3, ReplyStep

-------------------------------------------------------------------------------
(* Together.                                                                 *)

LEMMA TypedInv ==
  ASSUME Typed, Scripted, Transferred, Held, Replied, [Next]_vars
  PROVE  Typed'
<1>1. Plain' BY PlainInv
<1>2. script' \in Seq(Transactions) /\ command' \in Names BY ScriptedInv
<1>3. pointer' \in [{Sensor, Light} -> Registers] /\ extended' \in BOOLEAN BY SensorsInv
<1>4. reply' \in {"none", "ok", "overflow", "twi_error"} BY RepliedInv
<1>5. reported' \in 0 .. no_state BY ReportedInv
<1> QED BY <1>1, <1>2, <1>3, <1>4, <1>5, Zenon DEF Plain, Typed

LEMMA InitIInv ==
  ASSUME Init
  PROVE  IInv
<1>1. /\ script = WriteRead(PowerUp) /\ command = "init" /\ taken = 0 /\ bytes = <<>>
      /\ kept = <<>> /\ pc = "start" /\ bus = "free" /\ reply = "none"
  BY DEF Init
<1>2. /\ script \in Seq(Transactions) /\ Len(script) = Total(command)
      /\ Total(command) = 2
      /\ \A i \in 1 .. Total(command) : script[i] \in Planned(command, i)
  BY <1>1, InitComplete DEF Complete, Total
<1>3. Position = 1
  <2>1. Len(script) = 2 BY <1>2
  <2> QED BY <1>2, <2>1 DEF Position
<1>4. Typed
  <2>1. pointer \in [{Sensor, Light} -> Registers] BY ConstantFacts DEF Init
  <2>2. NoAddress \in Addresses BY TwiAssumption DEF TwiAssumption
  <2>3. tme_ok \in 0 .. 255 BY DEF tme_ok
  <2>4. twi_address \in Addresses /\ pc \in Steps /\ command \in Names /\ rv \in 0 .. 255
    BY <1>1, <2>2, <2>3 DEF Init, Steps, Error, Names
  <2>5. led \in BOOLEAN /\ extended \in BOOLEAN BY DEF Init
  <2>6. reported \in 0 .. no_state BY DEF Init, no_state
  <2> QED BY <1>1, <1>2, <2>1, <2>4, <2>5, <2>6, EmptyType DEF Typed
<1>5. Scripted
  <2>1. \A i \in 1 .. 2 : Position + i - 1 = i BY <1>3
  <2> QED BY <1>2, <2>1 DEF Scripted
<1>6. Transferred
  <2>1. Len(<<>>) = 0 OBVIOUS
  <2>2. /\ Current.write => Len(Current.octets) \in 1 .. MaxWrite + 1
        /\ ~Current.write => Current.size \in 1 .. ReadSize
    BY <1>4, <1>5, CurrentSize
  <2> QED BY <1>1, <2>1, <2>2, ConstantFacts DEF Transferred
<1>7. Held /\ Released BY <1>1 DEF Held, Released
<1>8. OkMeansWhole /\ ErrorTells BY <1>1 DEF OkMeansWhole, ErrorTells
<1>9. Kept /\ Measured /\ Selected /\ Sampled /\ Confirmed
  BY <1>1 DEF Kept, Measured, Selected, Sampled, Confirmed, Lightrs
<1>10. Replied /\ LightRead /\ LightRefused BY <1>1 DEF Replied, LightRead, LightRefused
<1> QED BY <1>4, <1>5, <1>6, <1>7, <1>8, <1>9, <1>10 DEF IInv

LEMMA NextIInv ==
  ASSUME IInv, [Next]_vars
  PROVE  IInv'
<1> USE DEF IInv
<1>1. Typed' BY TypedInv
<1>2. Scripted' BY ScriptedInv
<1>3. Transferred' BY <1>1, <1>2, TransferredInv
<1>4. Held' /\ Released' BY HeldInv
<1>5. OkMeansWhole' BY WholeInv
<1>6. ErrorTells' BY ErrorInv
<1>7. Kept' BY KeptInv
<1>8. Measured' BY MeasuredInv
<1>9. Selected' BY SelectedInv
<1>10. Sampled' BY <1>1, SampledInv
<1>11. Confirmed' BY ConfirmedInv
<1>12. Replied' BY RepliedInv
<1>13. LightRead' BY LightReadInv
<1>14. LightRefused' BY LightRefusedInv
<1> QED BY <1>1, <1>2, <1>3, <1>4, <1>5, <1>6, <1>7, <1>8, <1>9, <1>10, <1>11, <1>12, <1>13,
           <1>14

LEMMA Invariant == Spec => []IInv
<1>1. Init => IInv BY InitIInv
<1>2. IInv /\ [Next]_vars => IInv' BY NextIInv
<1> QED BY <1>1, <1>2, PTL DEF Spec

(* Every state is one that TypeOK describes: no transaction receives more    *)
(* than it asks for, and no script is longer than the longest command.       *)
LEMMA IInvTypes ==
  ASSUME IInv
  PROVE  TypeOK
<1>1. Typed /\ Scripted /\ Transferred /\ Kept BY DEF IInv
<1>2. DOMAIN Scripts \cup {"init"} = Names BY DEF Scripts, Names
<1>3. /\ Position \in 1 .. Total(command) /\ Len(script) = Total(command) + 1 - Position
  BY <1>1, CurrentFacts
<1>4. Total(command) \in 1 .. 8 BY <1>1, TotalType DEF Typed
<1>5. Len(script) <= 8 BY <1>3, <1>4
<1>6. /\ Current.write \in BOOLEAN
      /\ Current.write => Len(Current.octets) \in 1 .. MaxWrite + 1
      /\ ~Current.write => Current.size \in 1 .. ReadSize
      /\ Len(bytes) \in Nat /\ taken \in Nat
  BY <1>1, CurrentSize
<1>7. taken \in 0 .. MaxWrite + 2 BY <1>1, <1>6, ConstantFacts DEF Transferred
<1>8. Len(bytes) <= ReadSize
  <2>1. CASE Current.write
    <3>1. bytes = <<>> BY <1>1, <2>1 DEF Transferred
    <3>2. Len(bytes) = 0 BY <3>1
    <3> QED BY <3>2, ConstantFacts
  <2>2. CASE ~Current.write BY <1>1, <1>6, <2>2, ConstantFacts DEF Transferred
  <2> QED BY <2>1, <2>2, Zenon
<1>9. Len(kept) <= 3
  <2>1. CASE command \in Lightrs
    <3>1. Total(command) = 8 BY <2>1 DEF Total, Lightrs
    <3>2. Len(kept) = (Position - 1) \div 2 BY <1>1, <2>1 DEF Kept
    <3> QED BY <1>3, <3>1, <3>2
  <2>2. CASE command \notin Lightrs
    <3>1. Len(kept) = 0 BY <1>1, <2>2 DEF Kept
    <3> QED BY <3>1
  <2> QED BY <2>1, <2>2
<1> QED BY <1>1, <1>2, <1>5, <1>7, <1>8, <1>9 DEF TypeOK, Typed

(* No transaction receives more octets than its buffer is asked to hold, and *)
(* no script runs on past its command (twi_master.c:137-199).                *)
THEOREM TypeCorrect == Spec => []TypeOK
BY Invariant, IInvTypes, PTL

(* Whichever way a command ends, the bus is free for the next start and the  *)
(* LED is off (twi_master.c:22-30).                                          *)
THEOREM BusReleased == Spec => []Released
<1>1. IInv => Released BY DEF IInv
<1> QED BY <1>1, Invariant, PTL

(* ok is returned of whole transactions alone (twi_master.c:137-199). *)
THEOREM WholeIfOk == Spec => []OkMeansWhole
<1>1. IInv => OkMeansWhole BY DEF IInv
<1> QED BY <1>1, Invariant, PTL

(* The octet that is returned names the step that failed, which is as far as *)
(* the bus and the slave have seen the transaction come, and what the        *)
(* hardware said then (twi_master.c:225-231).                                *)
THEOREM ErrorIsTold == Spec => []ErrorTells
<1>1. IInv => ErrorTells BY DEF IInv
<1> QED BY <1>1, Invariant, PTL

(* tempr reads the temperature register alone                                *)
(* (application-temperature.c:133-156).                                      *)
THEOREM TemperatureIsRead == Spec => []TemperatureRead
<1>1. IInv => TemperatureRead
  <2> SUFFICES ASSUME IInv, command = "tempr" PROVE TemperatureRead BY DEF TemperatureRead
  <2>1. Typed /\ Kept /\ Measured BY DEF IInv
  <2>2. kept = <<>>
    <3>1. Len(kept) = 0 BY <2>1 DEF Kept, Lightrs
    <3>2. kept \in Seq(Received) BY <2>1 DEF Typed
    <3> QED BY <3>1, <3>2, EmptySeq
  <2>3. bytes \in Seq(Received) BY <2>1 DEF Typed
  <2>4. Read = bytes BY <2>2, <2>3, ConcatEmptySeq DEF Read
  <2>5. DOMAIN bytes = 1 .. Len(bytes) BY <2>3
  <2> QED BY <2>1, <2>4, <2>5 DEF Measured, TemperatureRead
<1> QED BY <1>1, Invariant, PTL

(* ok is said of samples of both channels, each from its register and in the *)
(* range asked for (application-light.c:76-126).                             *)
THEOREM LightIsRead == Spec => []LightRead
<1>1. IInv => LightRead BY DEF IInv
<1> QED BY <1>1, Invariant, PTL

(* Good samples are refused only if the second channel has more, as long as  *)
(* stepval does not wrap (application-light.c:20-38).                        *)
THEOREM LightIsRefused == Spec => []LightRefused
<1>1. IInv => LightRefused BY DEF IInv
<1> QED BY <1>1, Invariant, PTL
===============================================================================
