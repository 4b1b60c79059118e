------------------------------- MODULE TwiMaster -------------------------------
(***************************************************************************)
(* The two-wire bus: the transactions of twi_master.c, the commands that   *)
(* are made of them (application-twi.c, sensors 2 and 3 of                 *)
(* application-temperature.c, the two ranges of application-light.c), and  *)
(* what the slaves may make of it: answer as they should, refuse, disturb, *)
(* keep the bus, or lose their power.  Every wait for the hardware is a    *)
(* step.                                                                   *)
(***************************************************************************)
EXTENDS Integers, Sequences

CONSTANTS
  Addresses,    \* the addresses that twia may set, that of the sensor among them
  NoAddress,    \* the address after a restart
  Sensor,       \* 0x48 or 0x49, a thermometer
  Light,        \* 0x39, a light sensor
  Samples,      \* what its channels may answer
  Octets,       \* what twiw may write; a register is selected by an octet
  MaxWrite,     \* 3, the octets that twiw may write: application_num_args - 1
  ReadSize      \* 8, the octets that twir reads; tempr reads 2

(* The thermometer's registers. *)
Temperature == 0
Config == 1

(* What the light sensor takes: off, on, the ranges, the channels.  It says  *)
(* by an octet what it has done.                                             *)
PowerDown == 0
PowerUp == 3
Standard == 24
Extended == 29
Channel0 == 67
Channel1 == 131

Reaction == [n \in {PowerUp, Standard, Extended} |-> IF n = PowerUp THEN {3} ELSE {27}]

ASSUME TwiAssumption ==
  /\ {Sensor, Light, NoAddress} \subseteq Addresses /\ Sensor # Light
  /\ Samples \subseteq 0 .. 255
  /\ {Temperature, Config} \subseteq Octets
  /\ MaxWrite \in Nat \ {0} /\ ReadSize \in Nat \ {0, 1}

VARIABLES
  twi_address,  \* the slave that twir and twiw address
  pc,           \* what is to be done next
  command,      \* which command is under way, or was the last one
  script,       \* its transactions, the one under way first
  taken,        \* what the slave has acknowledged of this transaction: 0 is nothing,
                \* 1 the address, ...
  bytes,        \* what was received: the octet, the register and the range it is from
  kept,         \* what earlier transactions of the command have received
  reply,        \* what the command has answered
  reported,     \* the state that the hardware is in, as status tells it
  rv,           \* the octet that the last transaction returned
  bus,          \* "free", "taken" by the master, or "locked" by a slave
  led,          \* PORTD bit 4
  pointer,      \* the register that is selected in each of the sensors
  extended      \* the range of the light sensor

sensors == <<pointer, extended>>
vars == <<twi_address, pc, command, script, taken, bytes, kept, reply, reported, rv, bus, led,
          sensors>>

-------------------------------------------------------------------------------
(* twi_master.h. *)

tme_ok == 0

(* The steps of a transaction, as an error names them.  There is no error    *)
(* for a stop.                                                               *)
Error == [start |-> 1, address_w |-> 2, address_r |-> 3, send |-> 4, receive |-> 5, nack |-> 6]

(* The states of the hardware. *)
bus_error == 0
start_sent == 1
re_start_sent == 2
addr_w_ack == 3
addr_w_nack == 4
data_sent_ack == 5
data_send_nack == 6
arbitration_lost == 7
addr_r_ack == 8
addr_r_nack == 9
data_recvd_ack == 10
data_recvd_nack == 11

(* What status tells when none of them is there: after a reset or a stop. *)
no_state == 31

(* With which of them a step has done what it is for. *)
Good == [start |-> {start_sent}, address_w |-> {addr_w_ack}, address_r |-> {addr_r_ack},
         send |-> {data_sent_ack}, receive |-> {data_recvd_ack, data_recvd_nack},
         nack |-> {data_recvd_ack, data_recvd_nack}]

(* Mutant of Code: an address that fails is told as a start, whose lines it  *)
(* was copied from.                                                          *)
CodeOfStart(step, stat) ==
  (Error[IF step \in {"address_w", "address_r"} THEN "start" ELSE step] + 16 * stat) % 256

(* The step in the low half of an octet, the state in the high half. *)
Code(step, stat) == (Error[step] + 16 * stat) % 256

(* What twi_master_error makes of it. *)
ErrorStep(code) == code % 16
ErrorState(code) == code \div 16

Steps == DOMAIN Error

(* External: what the hardware may report.  A restart in the middle of an    *)
(* octet may leave a slave that keeps SDA low, and whatever the master sends *)
(* may be disturbed.  Whether an octet received is acknowledged is for the   *)
(* master to say, and the hardware reports what it was told to do.           *)
Reports(step) ==
  CASE step = "start" /\ bus = "free" -> {start_sent, bus_error}
    [] step = "start" /\ bus = "taken" -> {re_start_sent}
    [] step = "start" /\ bus = "locked" -> {arbitration_lost}
    [] step = "address_w" -> {addr_w_ack, addr_w_nack, arbitration_lost, bus_error}
    [] step = "address_r" -> {addr_r_ack, addr_r_nack, arbitration_lost, bus_error}
    [] step = "send" -> {data_sent_ack, data_send_nack, arbitration_lost, bus_error}
    [] step = "receive" -> {data_recvd_ack, bus_error}
    [] step = "nack" -> {data_recvd_nack, arbitration_lost, bus_error}

-------------------------------------------------------------------------------
(* Transactions and the commands that consist of them. *)

Send(address, octets) == [write |-> TRUE, address |-> address, octets |-> octets]
Receive(address, size) == [write |-> FALSE, address |-> address, size |-> size]

Strings == UNION {[1 .. n -> Octets] : n \in 1 .. MaxWrite}

Twiw == {<<Send(twi_address, octets)>> : octets \in Strings}
Twir == {<<Receive(twi_address, ReadSize)>>}

(* Select the configuration register and write it, select the temperature    *)
(* register, read it.                                                        *)
Tempr ==
  {<<Send(Sensor, <<Config, Config>>), Send(Sensor, <<Temperature>>), Receive(Sensor, 2)>>}

(* twi_write_read: one octet out, one octet in. *)
WriteRead(n) == <<Send(Light, <<n>>), Receive(Light, 1)>>

Lightr(range) ==
  {WriteRead(PowerUp) \o WriteRead(range) \o WriteRead(Channel0) \o WriteRead(Channel1)}

Scripts == [twiw |-> Twiw, twir |-> Twir, tempr |-> Tempr,
            lightr_0 |-> Lightr(Standard), lightr_1 |-> Lightr(Extended)]

Lightrs == {"lightr_0", "lightr_1"}

RangeOf(name) == IF name = "lightr_1" THEN Extended ELSE Standard

(* The transaction that is under way or was the last one. *)
Current == Head(script)

(* All that the command has received. *)
Read == kept \o bytes

-------------------------------------------------------------------------------
(* The light sensor's samples. *)

Chord(n) == (n \div 16) % 8
StepNumber(n) == n % 16

(* Mutant of Valid: the bit that says so is not looked at. *)
ValidAlways(n) == TRUE

Valid(n) == n >= 128

Overflow(n) == n % 128 = 127

ChordValue(n) == (33 * (2 ^ Chord(n) - 1)) \div 2
StepValue(n) == StepNumber(n) * 2 ^ Chord(n)

(* Mutant of adc2count: chordval has 8 bits as well. *)
adc2countNarrow(n) == (ChordValue(n) % 256) + (StepValue(n) % 256)

(* stepval has 8 bits. *)
adc2count(n) == ChordValue(n) + (StepValue(n) % 256)

(* read_sensor, with both samples there.  A negative result is not believed; *)
(* but it may be rounded to zero.                                            *)
Evaluation(ch0, ch1) ==
  CASE ~Valid(ch0) -> {"twi_error"}
    [] Valid(ch0) /\ Overflow(ch0) -> {"overflow"}
    [] Valid(ch0) /\ ~Overflow(ch0) /\ ~Valid(ch1) -> {"twi_error"}
    [] Valid(ch0) /\ ~Overflow(ch0) /\ Valid(ch1) /\ Overflow(ch1) -> {"overflow"}
    [] OTHER -> IF adc2count(ch0) < adc2count(ch1) THEN {"ok", "twi_error"} ELSE {"ok"}

(* The sensor has said that it is on and in the range asked for. *)
Accepted ==
  command \in Lightrs =>
    \A i \in DOMAIN Read \cap {1, 2} :
      Read[i].octet \in Reaction[IF i = 1 THEN PowerUp ELSE RangeOf(command)]

(* tempr writes a reading over what it said about an error, even if there is *)
(* none (application-temperature.c:168-171).                                 *)
Replies ==
  CASE command = "init" -> {"none"}
    [] command \in {"twiw", "twir"} -> {IF rv = tme_ok THEN "ok" ELSE "twi_error"}
    [] command = "tempr" -> {"ok"}
    [] command \in Lightrs /\ rv = tme_ok /\ Accepted /\ Len(Read) = 4 ->
         Evaluation(Read[3].octet, Read[4].octet)
    [] OTHER -> {"twi_error"}

-------------------------------------------------------------------------------
(* A transaction begins. *)
Begin(transactions) ==
  /\ pc' = "start" /\ led' = TRUE
  /\ script' = transactions
  /\ taken' = 0 /\ bytes' = <<>>

(* twi_master_init, and application_init_light, which does not look at the   *)
(* answer.                                                                   *)
Start ==
  /\ twi_address' = NoAddress
  /\ command' = "init" /\ Begin(WriteRead(PowerUp)) /\ kept' = <<>> /\ reply' = "none"
  /\ reported' = no_state /\ rv' = tme_ok

Init ==
  /\ twi_address = NoAddress
  /\ command = "init" /\ script = WriteRead(PowerUp) /\ kept = <<>> /\ reply = "none"
  /\ reported = no_state
  /\ pc = "start" /\ led = TRUE /\ taken = 0 /\ bytes = <<>> /\ rv = tme_ok
  /\ bus = "free"
  /\ pointer = [s \in {Sensor, Light} |-> IF s = Sensor THEN Temperature ELSE PowerDown]
  /\ extended = FALSE

Twia(address) ==
  /\ pc = "idle"
  /\ twi_address' = address
  /\ UNCHANGED <<pc, command, script, taken, bytes, kept, reply, reported, rv, bus, led, sensors>>

Call(name) ==
  /\ pc = "idle"
  /\ command' = name
  /\ \E transactions \in Scripts[name] : Begin(transactions)
  /\ kept' = <<>> /\ reply' = "none"
  /\ UNCHANGED <<twi_address, reported, rv, bus, sensors>>

(* Mutant of Abort: the error is returned without a stop. *)
AbortAtOnce(step, stat) ==
  /\ rv' = Code(step, stat)
  /\ pc' = "idle" /\ led' = led
  /\ UNCHANGED <<taken, bytes>>

(* Whatever goes wrong, the bus is given back. *)
Abort(step, stat) ==
  /\ rv' = Code(step, stat)
  /\ pc' = "stop" /\ led' = FALSE
  /\ UNCHANGED <<taken, bytes>>

(* The hardware reports how a step went. *)
Step(step, stat) ==
  /\ pc = step /\ stat \in Reports(step)
  /\ reported' = stat
  /\ UNCHANGED <<twi_address, command, script, kept, reply>>

Failed(step) ==
  \E stat \in Reports(step) \ Good[step] :
    /\ Step(step, stat)
    /\ Abort(step, stat)
    /\ UNCHANGED <<bus, sensors>>

(* All octets are sent: send_stop. *)
Finish == pc' = "stop" /\ led' = FALSE /\ rv' = tme_ok

send_start ==
  /\ Step("start", start_sent)
  /\ pc' = IF Current.write THEN "address_w" ELSE "address_r"
  /\ bus' = "taken"
  /\ UNCHANGED <<taken, bytes, rv, led, sensors>>

(* Go on with the next octet, if there is one. *)
SendOrFinish(n) ==
  IF n <= Len(Current.octets) THEN pc' = "send" /\ UNCHANGED <<rv, led>> ELSE Finish

(* Mutant of ReceiveOrNack: one octet more is received than asked for. *)
ReceiveOneMore(n) ==
  /\ pc' = IF n <= Current.size THEN "receive" ELSE "nack"
  /\ UNCHANGED <<rv, led>>

(* Receive all octets, and then one more that is not acknowledged. *)
ReceiveOrNack(n) ==
  /\ pc' = IF n < Current.size THEN "receive" ELSE "nack"
  /\ UNCHANGED <<rv, led>>

send_address_w ==
  /\ Step("address_w", addr_w_ack)
  /\ taken' = 1 /\ SendOrFinish(1)
  /\ UNCHANGED <<bytes, bus, sensors>>

send_address_r ==
  /\ Step("address_r", addr_r_ack)
  /\ taken' = 1 /\ ReceiveOrNack(0)
  /\ UNCHANGED <<bytes, bus, sensors>>

(* External: the first octet written selects a register of the thermometer;  *)
(* the light sensor does what it is told if it is on or told to be.          *)
Obeyed(address, n) ==
  CASE address = Sensor -> [pointer EXCEPT ![Sensor] = n]
    [] address = Light /\ (n = PowerUp \/ pointer[Light] # PowerDown) ->
         IF n \in DOMAIN Reaction \cup {PowerDown, Channel0, Channel1}
         THEN [pointer EXCEPT ![Light] = n] ELSE pointer
    [] OTHER -> pointer

Told ==
  /\ pointer' = IF taken = 1 THEN Obeyed(Current.address, Current.octets[1]) ELSE pointer
  /\ extended' = IF pointer'[Light] \in {Standard, Extended, PowerDown}
                 THEN pointer'[Light] = Extended ELSE extended

(* Mutant of send_byte: one octet too few is sent. *)
send_byte_but_last ==
  /\ Step("send", data_sent_ack)
  /\ taken' = taken + 1 /\ SendOrFinish(taken' + 1)
  /\ Told
  /\ UNCHANGED <<bytes, bus>>

send_byte ==
  /\ Step("send", data_sent_ack)
  /\ taken' = taken + 1 /\ SendOrFinish(taken')
  /\ Told
  /\ UNCHANGED <<bytes, bus>>

(* External: what a slave sends.  A light sensor that is off has no samples. *)
(* Only lightr looks at the octet.                                           *)
Answer(address) ==
  IF address \notin {Sensor, Light} THEN [register : {0}, octet : {0}, extended : {FALSE}]
  ELSE [register : {pointer[address]}, extended : {address = Light /\ extended},
        octet : CASE command \notin Lightrs -> {0}
                  [] command \in Lightrs /\ pointer[Light] \in DOMAIN Reaction ->
                       Reaction[pointer[Light]]
                  [] command \in Lightrs /\ pointer[Light] \in {Channel0, Channel1} -> Samples
                  [] OTHER -> {PowerDown}]

(* What is stored for an octet that was not acknowledged: it is from nowhere. *)
Unacknowledged == [register |-> -1, octet |-> 254, extended |-> FALSE]

Stored(stat) ==
  IF stat = data_recvd_nack THEN {Unacknowledged} ELSE Answer(Current.address)

receive_byte ==
  /\ \E stat \in Good.receive :
       /\ Step("receive", stat)
       /\ \E octet \in Stored(stat) : bytes' = Append(bytes, octet)
  /\ ReceiveOrNack(Len(bytes'))
  /\ UNCHANGED <<taken, bus, sensors>>

(* One octet more is received, not acknowledged, and forgotten. *)
send_nack ==
  /\ \E stat \in Good.nack : Step("nack", stat)
  /\ Finish
  /\ UNCHANGED <<taken, bytes, bus, sensors>>

(* Mutants of Continue: what a transaction returns is not looked at; one     *)
(* that has failed is tried again.                                           *)
ContinueAnyhow ==
  IF Len(script) > 1
  THEN Begin(Tail(script))
  ELSE pc' = "idle" /\ UNCHANGED <<led, script, taken, bytes>>

ContinueRetrying ==
  IF rv # tme_ok
  THEN Begin(script)
  ELSE pc' = "idle" /\ UNCHANGED <<led, script, taken, bytes>>

(* The command goes on to its next transaction if this one went well. *)
Continue ==
  IF rv = tme_ok /\ Accepted /\ Len(script) > 1
  THEN Begin(Tail(script))
  ELSE pc' = "idle" /\ UNCHANGED <<led, script, taken, bytes>>

(* send_stop has been waited for.  A slave may keep SDA nevertheless. *)
Stopped ==
  /\ pc = "stop"
  /\ bus' = IF bus = "locked" THEN "locked" ELSE "free"
  /\ Continue
  /\ kept' = IF pc' # "idle" /\ rv = tme_ok THEN Read ELSE kept
  /\ reply' \in IF pc' = "idle" THEN Replies ELSE {"none"}
  /\ reported' = no_state
  /\ UNCHANGED <<twi_address, command, rv, sensors>>

(* The hardware never reports, and the loop that waits for it does not end. *)
Silent ==
  /\ pc \in Steps \cup {"stop"}
  /\ pc' = "hung"
  /\ UNCHANGED <<twi_address, command, script, taken, bytes, kept, reply, reported, rv, bus, led,
                 sensors>>

(* The watchdog restarts the board, the slave may have been left in the      *)
(* middle of an octet.                                                       *)
Restart ==
  /\ pc = "hung"
  /\ Start
  /\ bus' \in {"free", "locked"}
  /\ UNCHANGED sensors

(* External: the light sensor loses its power, and is off when it has it     *)
(* again.                                                                    *)
LosePower ==
  /\ pointer' = [pointer EXCEPT ![Light] = PowerDown] /\ extended' = FALSE
  /\ UNCHANGED <<twi_address, pc, command, script, taken, bytes, kept, reply, reported, rv, bus,
                 led>>

(* Whether the slave lets go is the matter of TwiRecover. *)
twi_master_recover ==
  /\ pc = "idle"
  /\ bus' \in {"free", bus}
  /\ UNCHANGED <<twi_address, pc, command, script, taken, bytes, kept, reply, reported, rv, led,
                 sensors>>

Wait ==
  \/ \E step \in Steps : Failed(step)
  \/ send_start \/ send_address_w \/ send_address_r \/ send_byte \/ receive_byte \/ send_nack
  \/ Stopped

Next ==
  \/ \E address \in Addresses : Twia(address)
  \/ \E name \in DOMAIN Scripts : Call(name)
  \/ Wait \/ Silent \/ Restart \/ twi_master_recover \/ LosePower

(* The hardware reports in the end, or the watchdog restarts the board. *)
Spec == Init /\ [][Next]_vars /\ WF_vars(Wait) /\ WF_vars(Restart)

-------------------------------------------------------------------------------
TypeOK ==
  /\ twi_address \in Addresses
  /\ pc \in Steps \cup {"stop", "idle", "hung"}
  /\ command \in DOMAIN Scripts \cup {"init"} /\ Len(script) <= 8
  /\ taken \in 0 .. MaxWrite + 2 /\ Len(bytes) <= ReadSize /\ Len(kept) <= 3
  /\ rv \in 0 .. 255 /\ reported \in 0 .. no_state
  /\ reply \in {"none", "ok", "overflow", "twi_error"}
  /\ bus \in {"free", "taken", "locked"} /\ led \in BOOLEAN /\ extended \in BOOLEAN

(* Whichever way a command has ended, the master has given the bus back and  *)
(* the LED is off (twi_master.c:22-30): the next command can begin with a    *)
(* start that is not a repeated one.                                         *)
Released == pc = "idle" => bus # "taken" /\ ~led

(* A transaction returns ok if and only if the slave has acknowledged all of *)
(* it, and what was received is complete.                                    *)
Whole ==
  IF Current.write THEN taken = 1 + Len(Current.octets)
  ELSE taken = 1 /\ Len(bytes) = Current.size

OkMeansWhole == pc = "stop" /\ rv = tme_ok => Whole

(* How far a transaction has come, as the bus and the slave have seen it. *)
Reached ==
  CASE taken = 0 /\ bus # "taken" -> "start"
    [] taken = 0 /\ bus = "taken" -> IF Current.write THEN "address_w" ELSE "address_r"
    [] taken > 0 /\ Current.write -> "send"
    [] OTHER -> IF Len(bytes) < Current.size THEN "receive" ELSE "nack"

(* From the octet that a transaction returns twi_master_error can tell the   *)
(* step that failed, which is the one that the slave has seen last, and the  *)
(* state that the hardware reported then (twi_master.c:225-231).  It does    *)
(* not tell how many octets the slave had taken before one that failed.      *)
ErrorTells ==
  pc = "stop" /\ rv # tme_ok =>
    /\ ErrorStep(rv) = Error[Reached]
    /\ ErrorState(rv) = reported /\ reported \notin Good[Reached]

(* What tempr takes for a temperature comes from the temperature register,   *)
(* whatever earlier commands have left selected and wherever a transaction   *)
(* has failed (application-temperature.c:133-156).                           *)
TemperatureRead ==
  command = "tempr" => \A i \in DOMAIN Read : Read[i].register = Temperature

(* lightr says ok only about samples of both channels, each from its own     *)
(* register and in the range that was asked for, although the sensor may be  *)
(* switched off at any time (application-light.c:76-126).                    *)
LightRead ==
  command \in Lightrs /\ reply = "ok" =>
    /\ [i \in DOMAIN Read |-> Read[i].register] = <<PowerUp, RangeOf(command), Channel0, Channel1>>
    /\ \A i \in {3, 4} : Read[i].extended = (RangeOf(command) = Extended)

(* When lightr refuses two good samples, the second channel has more than    *)
(* the first.  This holds as long as stepval does not exceed its 8 bits      *)
(* (application-light.c:34): where there is more light the count wraps, and  *)
(* good samples are refused.                                                 *)
LightRefused ==
  (/\ command \in Lightrs /\ reply = "twi_error" /\ rv = tme_ok /\ Len(Read) = 4
   /\ \A i \in {3, 4} : Read[i].octet >= 128 /\ StepValue(Read[i].octet) < 256)
  => Read[3].octet < Read[4].octet

(* Every command ends, if only by a restart of the board.  The start itself  *)
(* talks to the light sensor, and may be repeated as long as the bus hangs.  *)
CommandEnds == (pc # "idle") ~> (pc = "idle" \/ command = "init")
===============================================================================
