------------------------------- MODULE Enc28j60 -------------------------------
(***************************************************************************)
(* enc.c and the ENC28J60 it drives.  The chip writes frames into a ring   *)
(* of octets, each behind a header that points to the next one;            *)
(* enc_receive_frame follows the pointers, copies a frame out, gives its   *)
(* room back and then counts it down.  The chip goes on writing meanwhile, *)
(* so each access of the driver is a step of its own.  enc_send_frame      *)
(* writes a frame into another buffer, has it sent and waits for the end;  *)
(* a chip that never ends is left to the watchdog, which restarts board    *)
(* and chip.                                                               *)
(*                                                                         *)
(* A cell of a buffer stands for a header or for some octets of a frame.   *)
(***************************************************************************)
EXTENDS Integers, Sequences

CONSTANTS
  RingLength,     \* RXBUFLEN, in cells
  MaxCount,       \* 255, the frames EPKTCNT can count
  Cells,          \* what a cell may hold of a frame
  Frames,         \* what may arrive: [data, good], data being a sequence of cells
  Garbage,        \* a cell that has never been written
  BufferLength,   \* rx_frame, the buffer of the main loop
  Crc,            \* the cells behind a frame that the chip counts as its own
  Outgoing,       \* what the main loop may send: sequences of cells
  Control         \* the octet in front of a frame to be sent

ASSUME EncAssumption ==
  /\ RingLength \in Nat \ {0} /\ MaxCount \in Nat /\ Crc \in Nat
  /\ BufferLength \in Nat \ {0}
  /\ Frames \subseteq [data : Seq(Cells), good : BOOLEAN]
  /\ \A f \in Frames : Len(f.data) >= Crc
  /\ Outgoing \subseteq Seq(Cells)
  /\ \A f \in Outgoing : Len(f) <= BufferLength

VARIABLES
  memory,               \* the receive ring of the chip
  ERXWRPT,              \* where the chip writes next
  ERXRDPT,              \* how far the chip may write
  EPKTCNT,              \* the frames in the ring
  next_frame_pointer,   \* the header of the frame to be read next
  pc,                   \* what enc_receive_frame does next
  at,                   \* the cell to be read next
  length,               \* the cells that have still to be copied
  frame,                \* what has been copied
  rx_frame,             \* what the main loop has got by the last call
  transmit,             \* the transmit buffer of the chip
  ETXND,                \* the last cell of it that is to be sent
  TXRTS,                \* the chip is sending
  TXERIF,               \* it has failed to
  tx_frame,             \* what the main loop has asked to be sent last
  uncounted             \* how many failures eth_txerr is behind

chip == <<memory, ERXWRPT, ERXRDPT, EPKTCNT>>
driver == <<next_frame_pointer, at, length, frame, rx_frame>>
receiver == <<chip, driver>>
transmitter == <<transmit, ETXND, TXRTS, TXERIF, tx_frame, uncounted>>
vars == <<receiver, pc, transmitter>>

-------------------------------------------------------------------------------
Ring == 0 .. RingLength - 1

(* Both the chip and a driver that reads on wrap at ERXND. *)
Plus(p, n) == (p + n) % RingLength

(* The chip leaves one octet free, so that a full ring is not an empty one. *)
FreeSpace == RingLength - 1 - ((ERXWRPT - ERXRDPT) % RingLength)

(* What is in the ring when f has been written at p. *)
Written(f, p) ==
  [a \in Ring |->
     LET i == (a - p) % RingLength
     IN CASE i = 0 -> [next |-> Plus(p, Len(f.data) + 1), length |-> Len(f.data), good |-> f.good]
          [] i \in 1 .. Len(f.data) -> f.data[i]
          [] OTHER -> memory[a]]

Fits(f) == EPKTCNT < MaxCount /\ Len(f.data) + 1 <= FreeSpace

(* The chip has received a frame that fits. *)
Arrive(f) ==
  /\ Fits(f)
  /\ memory' = Written(f, ERXWRPT)
  /\ ERXWRPT' = Plus(ERXWRPT, Len(f.data) + 1)
  /\ EPKTCNT' = EPKTCNT + 1
  /\ UNCHANGED <<ERXRDPT, driver, pc, transmitter>>

(* A frame that does not fit is given up, and has spoilt what was free. *)
Drop(f) ==
  /\ ~Fits(f)
  /\ memory' = [a \in Ring |-> IF (a - ERXWRPT) % RingLength < FreeSpace THEN Garbage ELSE memory[a]]
  /\ UNCHANGED <<ERXWRPT, ERXRDPT, EPKTCNT, driver, pc, transmitter>>

-------------------------------------------------------------------------------
(* enc_receive_frame. *)

At(here, there) == pc = here /\ pc' = there

Receiving(here, there) == At(here, there) /\ UNCHANGED transmitter

NoFrame ==
  /\ pc = "idle" /\ EPKTCNT = 0
  /\ UNCHANGED vars

(* Mutant of Select: a frame waits for the next one. *)
SelectOfTwo ==
  /\ Receiving("idle", "header") /\ EPKTCNT > 1
  /\ at' = next_frame_pointer
  /\ frame' = <<>>
  /\ UNCHANGED <<chip, next_frame_pointer, length, rx_frame>>

Select ==
  /\ Receiving("idle", "header") /\ EPKTCNT # 0
  /\ at' = next_frame_pointer
  /\ frame' = <<>>
  /\ UNCHANGED <<chip, next_frame_pointer, length, rx_frame>>

(* Mutant of Cut: a frame that is too long is not cut. *)
CutNot(n) == n

(* The length without the CRC, and cut to one less than the buffer holds if  *)
(* it is more than that.                                                     *)
Cut(n) == IF n > BufferLength THEN BufferLength - 1 ELSE n

(* A damaged frame has no length. *)
LengthOf(n, good) == IF good THEN Cut(n - Crc) ELSE 0

(* Mutant of ReadHeader: nobody looks whether the frame is damaged. *)
ReadHeaderUnchecked ==
  /\ Receiving("header", "data")
  /\ next_frame_pointer' = memory[at].next
  /\ length' = LengthOf(memory[at].length, TRUE)
  /\ at' = Plus(at, 1)
  /\ UNCHANGED <<chip, frame, rx_frame>>

ReadHeader ==
  /\ Receiving("header", "data")
  /\ next_frame_pointer' = memory[at].next
  /\ length' = LengthOf(memory[at].length, memory[at].good)
  /\ at' = Plus(at, 1)
  /\ UNCHANGED <<chip, frame, rx_frame>>

Copy ==
  /\ Receiving("data", "data") /\ length > 0
  /\ frame' = Append(frame, memory[at])
  /\ at' = Plus(at, 1)
  /\ length' = length - 1
  /\ UNCHANGED <<chip, next_frame_pointer, rx_frame>>

(* Mutant of Free: the room is not given back. *)
FreeNot ==
  /\ Receiving("data", "count") /\ length = 0
  /\ UNCHANGED <<chip, next_frame_pointer, at, length, frame, rx_frame>>

(* ERXRDPT = next_frame_pointer: the chip may write over the frame. *)
Free ==
  /\ Receiving("data", "count") /\ length = 0
  /\ ERXRDPT' = next_frame_pointer
  /\ UNCHANGED <<memory, ERXWRPT, EPKTCNT, next_frame_pointer, at, length, frame, rx_frame>>

PktDec ==
  /\ Receiving("count", "idle")
  /\ EPKTCNT' = EPKTCNT - 1
  /\ rx_frame' = frame
  /\ UNCHANGED <<memory, ERXWRPT, ERXRDPT, next_frame_pointer, at, length, frame>>

enc_receive_frame == NoFrame \/ Select \/ ReadHeader \/ Copy \/ Free \/ PktDec

-------------------------------------------------------------------------------
(* enc_send_frame. *)

Sending(here, there) == At(here, there) /\ UNCHANGED receiver

Send(f) ==
  /\ Sending("idle", "check")
  /\ tx_frame' = f
  /\ UNCHANGED <<transmit, ETXND, TXRTS, TXERIF, uncounted>>

(* The last frame was not sent: count that, and reset the transmitter. *)
ResetTransmitter ==
  /\ Sending("check", "wait") /\ TXERIF
  /\ uncounted' = uncounted - 1
  /\ TXERIF' = FALSE /\ TXRTS' = FALSE
  /\ UNCHANGED <<transmit, ETXND, tx_frame>>

NothingToReset == Sending("check", "wait") /\ ~TXERIF /\ UNCHANGED transmitter

WaitBefore == Sending("wait", "write") /\ ~TXRTS /\ UNCHANGED transmitter

(* Mutant of Write: the control octet is forgotten in ETXND. *)
WriteShort ==
  /\ Sending("write", "start")
  /\ ETXND' = Len(tx_frame) - 1
  /\ transmit' = [i \in DOMAIN transmit |->
                    IF i = 0 THEN Control ELSE IF i <= Len(tx_frame) THEN tx_frame[i] ELSE transmit[i]]
  /\ UNCHANGED <<TXRTS, TXERIF, tx_frame, uncounted>>

Write ==
  /\ Sending("write", "start")
  /\ ETXND' = Len(tx_frame)
  /\ transmit' = [i \in DOMAIN transmit |->
                    IF i = 0 THEN Control ELSE IF i <= Len(tx_frame) THEN tx_frame[i] ELSE transmit[i]]
  /\ UNCHANGED <<TXRTS, TXERIF, tx_frame, uncounted>>

SetTXRTS ==
  /\ Sending("start", "poll")
  /\ TXERIF' = FALSE /\ TXRTS' = TRUE
  /\ UNCHANGED <<transmit, ETXND, tx_frame, uncounted>>

(* Mutant of Poll: the driver does not wait for the end. *)
PollNot == Sending("poll", "idle") /\ UNCHANGED transmitter

Poll == Sending("poll", "idle") /\ ~TXRTS /\ UNCHANGED transmitter

enc_send_frame ==
  ResetTransmitter \/ NothingToReset \/ WaitBefore \/ Write \/ SetTXRTS \/ Poll

(* External: the chip has sent the frame, has given it up, or has given it   *)
(* up and hangs.                                                             *)
Sent ==
  /\ TXRTS /\ ~TXERIF
  /\ \E failed, hangs \in BOOLEAN :
       /\ hangs => failed
       /\ TXERIF' = failed /\ TXRTS' = hangs
       /\ uncounted' = uncounted + IF failed THEN 1 ELSE 0
  /\ UNCHANGED <<receiver, pc, transmit, ETXND, tx_frame>>

-------------------------------------------------------------------------------
(* enc_init: the ring is empty and begins at its first octet. *)
EmptyRing(wrpt, rdpt, count, next) == wrpt = 0 /\ rdpt = 0 /\ count = 0 /\ next = 0

Init ==
  /\ memory = [a \in Ring |-> Garbage]
  /\ EmptyRing(ERXWRPT, ERXRDPT, EPKTCNT, next_frame_pointer)
  /\ pc = "idle" /\ at = 0 /\ length = 0 /\ frame = <<>> /\ rx_frame = <<>>
  /\ transmit = [i \in 0 .. BufferLength |-> Garbage]
  /\ ETXND = 0 /\ TXRTS = FALSE /\ TXERIF = FALSE /\ tx_frame = <<>> /\ uncounted = 0

(* The board is restarted, and resets the chip.  What is in the buffers is   *)
(* not looked at again.                                                      *)
enc_init ==
  /\ memory' = [a \in Ring |-> Garbage]
  /\ EmptyRing(ERXWRPT', ERXRDPT', EPKTCNT', next_frame_pointer')
  /\ pc' = "idle" /\ at' = 0 /\ length' = 0 /\ frame' = <<>> /\ rx_frame' = <<>>
  /\ transmit' = [i \in 0 .. BufferLength |-> Garbage]
  /\ ETXND' = 0 /\ TXRTS' = FALSE /\ TXERIF' = FALSE /\ tx_frame' = <<>> /\ uncounted' = 0

(* The transmitter hangs, and so does whoever waits for it. *)
Hangs == pc = "poll" /\ TXRTS /\ TXERIF

Next ==
  \/ enc_receive_frame \/ enc_send_frame
  \/ \E f \in Outgoing : Send(f)
  \/ \E f \in Frames : Arrive(f) \/ Drop(f)
  \/ Sent
  \/ enc_init

(* The main loop asks for frames again and again, the chip gets to an end    *)
(* with a frame, and the watchdog restarts a board that hangs.               *)
Spec ==
  /\ Init /\ [][Next]_vars
  /\ SF_vars(enc_receive_frame) /\ WF_vars(enc_send_frame)
  /\ WF_vars(Sent) /\ WF_vars(Hangs /\ enc_init)

-------------------------------------------------------------------------------
TypeOK ==
  /\ {ERXWRPT, ERXRDPT, next_frame_pointer, at} \subseteq Ring
  /\ EPKTCNT \in 0 .. MaxCount
  /\ pc \in {"idle", "header", "data", "count", "check", "wait", "write", "start", "poll"}
  /\ length \in 0 .. BufferLength
  /\ Len(frame) + length <= BufferLength /\ Len(rx_frame) <= BufferLength

(* Whenever the chip is told to send, what it sends is the frame of this     *)
(* call and nothing of an earlier, longer one (enc.c:269-287).               *)
SentWhole ==
  TXRTS => SubSeq([i \in 1 .. BufferLength + 1 |-> transmit[i - 1]], 1, ETXND + 1)
             = <<Control>> \o tx_frame

(* Every frame that the chip failed to send is counted by the next call, and *)
(* none twice: enc.c:286 clears the flag, but never before enc.c:258 looked. *)
ErrorsCounted == uncounted = IF TXERIF THEN 1 ELSE 0

(* The frames between ERXRDPT and ERXWRPT. *)
Unread == IF pc = "count" THEN EPKTCNT - 1 ELSE EPKTCNT

(* Where the i-th of them begins, and where the chip goes on behind the last. *)
Begins == LET b[i \in 1 .. MaxCount + 1] == IF i = 1 THEN ERXRDPT ELSE memory[b[i - 1]].next IN b

FrameAt(p) ==
  [data |-> [i \in 1 .. memory[p].length |-> memory[Plus(p, i)]], good |-> memory[p].good]

Stored == [i \in 1 .. Unread |-> FrameAt(Begins[i])]

(* What the driver is to make of a frame. *)
Reading(f) == SubSeq(f.data, 1, LengthOf(Len(f.data), f.good))

(* All room that is not free holds a frame that will be read: the pointers   *)
(* lead from ERXRDPT through EPKTCNT frames to where the chip writes, in the *)
(* middle of a call as well (enc.c:314-337).                                 *)
NoRoomLost == Begins[Unread + 1] = ERXWRPT

(* The chip and enc_receive_frame together are a queue of frames, although   *)
(* the one writes while the other reads, frames are sent in between, and the *)
(* board restarts at any time.                                               *)
Queue == INSTANCE RxQueue WITH
  queue <- Stored, handed <- IF pc = "count" THEN frame ELSE rx_frame

IsQueue == Queue!Ordered

(* And no frame stays in the ring for ever, unless the board is restarted    *)
(* (enc.c:306-339, main.c:118).                                              *)
Delivers == Queue!Delivery
===============================================================================
