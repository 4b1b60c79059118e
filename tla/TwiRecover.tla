------------------------------ MODULE TwiRecover ------------------------------
(***************************************************************************)
(* twi_master_recover, pin by pin, against a slave that was left in the    *)
(* middle of an octet that it sends, and that keeps SDA low with a bit of  *)
(* it.  The attempt to send a stop has failed: SDA does not rise.          *)
(***************************************************************************)
EXTENDS Integers

CONSTANTS
  Octets    \* what the slave may have to send: for each octet, which of its bits are 1

VARIABLES
  pc,       \* the next statement
  ix,       \* the pulses that are left
  DDRC,     \* the pins of port C that are outputs, among 4, 5 and 6
  PORTC,    \* those of them that are high
  twen,     \* TWEN: the pins belong to the bus hardware
  octet,    \* what the slave sends
  bit,      \* which bit of it is on the bus; 8 is the acknowledgement
  ack,      \* what the slave has read as the last acknowledgement
  sending   \* the slave has not given up the bus

vars == <<pc, ix, DDRC, PORTC, twen, octet, bit, ack, sending>>

(* The wires: features:44-45 and main.c:63-64. *)
SCL == 5
SDA == 4

-------------------------------------------------------------------------------
(* External: a wire is high unless somebody pulls it low.                    *)

BoardLow(wire, ddrc, portc, enabled) == ~enabled /\ wire \in ddrc /\ wire \notin portc

SlaveLow == sending /\ bit < 8 /\ bit \notin octet

SclLow == BoardLow(SCL, DDRC, PORTC, twen)
SdaLow == BoardLow(SDA, DDRC, PORTC, twen) \/ SlaveLow

(* The slave puts the next bit on the bus when SCL falls, and goes on to the *)
(* next octet if this one was acknowledged.                                  *)
Shift ==
  /\ IF bit < 8
     THEN bit' = bit + 1 /\ UNCHANGED <<octet, sending>>
     ELSE bit' = 0 /\ sending' = (sending /\ ack) /\ octet' \in Octets
  /\ UNCHANGED ack

(* It reads the acknowledgement when SCL rises. *)
Sample(sda) ==
  /\ ack' = IF bit = 8 THEN sda ELSE ack
  /\ UNCHANGED <<octet, bit, sending>>

(* When SDA rises and SCL is high, that is a stop. *)
Stop ==
  /\ sending' = FALSE
  /\ UNCHANGED <<octet, bit, ack>>

(* The board sets its pins, and the slave does what it does about it. *)
Set(ddrc, portc, enabled) ==
  /\ DDRC' = ddrc /\ PORTC' = portc /\ twen' = enabled
  /\ LET scl == BoardLow(SCL, ddrc, portc, enabled)
         sda == BoardLow(SDA, ddrc, portc, enabled) \/ SlaveLow
     IN CASE ~SclLow /\ scl -> Shift
          [] SclLow /\ ~scl -> Sample(sda)
          [] ~SclLow /\ ~scl /\ SdaLow /\ ~sda -> Stop
          [] OTHER -> UNCHANGED <<octet, bit, ack, sending>>

-------------------------------------------------------------------------------
(* twi_master_recover. *)

Goto(from, to) == pc = from /\ pc' = to

Disable == Goto("disable", "scl") /\ Set(DDRC, PORTC, FALSE) /\ UNCHANGED ix

SclOutput == Goto("scl", "sda") /\ Set(DDRC \cup {5}, PORTC, twen) /\ UNCHANGED ix

(* SDA -> HiZ *)
SdaHiZ == Goto("sda", "low") /\ Set(DDRC \ {6}, PORTC, twen) /\ UNCHANGED ix

PulseLow == Goto("low", "high") /\ ix > 0 /\ Set(DDRC, PORTC \ {5}, twen) /\ UNCHANGED ix

PulseHigh == Goto("high", "low") /\ Set(DDRC, PORTC \cup {5}, twen) /\ ix' = ix - 1

(* twi_master_init *)
Release == Goto("low", "enable") /\ ix = 0 /\ Set(DDRC \ {5, 6}, PORTC, FALSE) /\ UNCHANGED ix

Enable == Goto("enable", "done") /\ Set(DDRC, PORTC, TRUE) /\ UNCHANGED ix

Next == Disable \/ SclOutput \/ SdaHiZ \/ PulseLow \/ PulseHigh \/ Release \/ Enable

(* After main.c:79 and twi_master_init. *)
Init ==
  /\ pc = "disable" /\ ix = 16
  /\ DDRC = {4} /\ PORTC = {} /\ twen = TRUE
  /\ octet \in Octets /\ bit \in 0 .. 7 /\ bit \notin octet
  /\ ack = TRUE /\ sending = TRUE

Spec == Init /\ [][Next]_vars

-------------------------------------------------------------------------------
(* What the comment at twi_master.c:166 says: a bus that was locked by a     *)
(* slave is not locked any more when twi_master_recover returns.             *)
Recovers == pc = "done" => ~SdaLow
===============================================================================
