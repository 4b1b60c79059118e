---------------------------- MODULE MainLoopProofs ----------------------------
(***************************************************************************)
(* Proofs about MainLoop, for octets and timeouts of every size, turns and *)
(* watchdog periods of every length, and every number of frames in the     *)
(* chip: the types, and what the loop promises about time.                 *)
(***************************************************************************)
EXTENDS MainLoop, SequenceTheorems, TLAPS

(* From the wait for an interrupt until the handler of a frame is called,    *)
(* the turn that received last is over.                                      *)
Ahead == pc \in {"arm", "receive"} \/ (pc \in {"load", "clear"} /\ caller = "loop")

(* The ticks that may have passed since the turn before this one began.      *)
Elapsed == IF Ahead THEN Busy + 1 + busy ELSE busy

(* While WDIE is clear the watchdog has not run for longer than this.        *)
Watched == ~wdie /\ pc # "hung" => watchdog <= IF pc = "arm" THEN Elapsed ELSE busy

(* Of a loop that hangs, the watchdog has not seen more than one timeout.    *)
Seen == hung <= IF wdie THEN watchdog ELSE watchdog + Period

(* So many turns, each with the tick that wakes the loop. *)
Turns(k) == k * (Busy + 1)

(* The frames that have been taken since this one came. *)
Overtaken(frames, i) == frames[i].behind - (i - 1)

(* A frame has not waited longer than since the turn began before those that *)
(* have taken others: it would have been taken in the first.                 *)
Waits(frames, elapsed) ==
  \A i \in 1 .. Len(frames) :
    Overtaken(frames, i) \in Nat /\ frames[i].waited <= elapsed + Turns(Overtaken(frames, i))

Waiting == pc # "hung" => Waits(pending, Elapsed)

(* What is known of time. *)
Timing ==
  /\ Watched /\ Waiting
  /\ pc = "hung" => Seen
  /\ pc # "hung" => hung = 0

-------------------------------------------------------------------------------
(* Octets.                                                                   *)

(* An octet stays below Base, and so do both octets of a number. *)
LEMMA AsOctetsType ==
  ASSUME NEW n \in Nat
  PROVE  AsOctets(n) \in [Octets -> 0 .. Base - 1]
<1>1. Base \in Nat \ {0} BY MainLoopAssumption
<1>2. \A k \in Nat : k % Base \in 0 .. Base - 1 BY <1>1
<1>3. n \div Base \in Nat BY <1>1
<1> QED BY <1>2, <1>3 DEF AsOctets

(* What two octets stand for is a number. *)
LEMMA ValueType ==
  ASSUME NEW x \in [Octets -> 0 .. Base - 1]
  PROVE  Value(x) \in Nat
<1>1. Base \in Nat BY MainLoopAssumption
<1>2. x["low"] \in Nat /\ x["high"] \in Nat BY <1>1 DEF Octets
<1>3. \A m, n \in Nat : m * n \in Nat OBVIOUS
<1>4. Base * x["high"] \in Nat BY <1>1, <1>2, <1>3
<1> QED BY <1>2, <1>4 DEF Value

LEMMA NoughtType == Nought \in [Octets -> 0 .. Base - 1]
BY MainLoopAssumption DEF Nought

-------------------------------------------------------------------------------
(* Types.                                                                    *)

(* What is neither a counter nor a number. *)
States ==
  /\ pc \in {"pause", "asleep", "arm", "load", "clear", "receive", "handle", "hung"}
  /\ caller \in {"loop", "handler"}
  /\ todo \subseteq Octets
  /\ led \in BOOLEAN /\ wdie \in BOOLEAN /\ late \in BOOLEAN

LEMMA StatesInv ==
  ASSUME TypeOK, [Next]_vars
  PROVE  States'
<1> USE DEF TypeOK, States, counter, leds, ghosts
<1>1. CASE Tick BY <1>1, Zenon DEF Tick, Waking, TIMER1_OVF, Timeout
<1>2. CASE Restart BY <1>2, Zenon DEF Restart
<1>3. CASE Arrive BY <1>3, Zenon DEF Arrive, Wake
<1>4. CASE pause_idle \/ Arm \/ ReceiveNothing \/ ReceiveFrame \/ Handled
  BY <1>4, Zenon DEF pause_idle, Arm, ReceiveNothing, ReceiveFrame, Handled, Goto, Call
<1>5. CASE application_periodic
  BY <1>5, Zenon DEF application_periodic, Copy, Clear, NothingMissed, Missed, Spend, Return, Goto
<1>6. CASE Command \/ Periodic \/ Hang
  BY <1>6, Zenon DEF Command, Periodic, Hang, Call
<1>7. CASE UNCHANGED vars BY <1>7, Zenon DEF vars
<1> QED BY <1>1, <1>2, <1>3, <1>4, <1>5, <1>6, <1>7 DEF Next, Loop

(* The two copies of the counter. *)
Counts ==
  /\ t1_unhandled \in [Octets -> 0 .. Base - 1]
  /\ missed_ticks \in [Octets -> 0 .. Base - 1]

LEMMA CountsInv ==
  ASSUME TypeOK, [Next]_vars
  PROVE  Counts'
<1> USE DEF TypeOK, Counts, counter
<1>1. CASE Tick
  <2>1. Value(t1_unhandled) + 1 \in Nat BY ValueType
  <2> QED BY <1>1, <2>1, AsOctetsType DEF Tick, TIMER1_OVF
<1>2. CASE Restart BY <1>2, NoughtType DEF Restart
<1>3. ASSUME NEW o \in Octets, Copy(o) \/ Clear(o) PROVE Counts'
  <2>1. 0 \in 0 .. Base - 1 BY MainLoopAssumption
  <2> QED BY <1>3, <2>1 DEF Copy, Clear
<1>4. CASE UNCHANGED <<t1_unhandled, missed_ticks>> BY <1>4
<1> QED BY <1>1, <1>2, <1>3, <1>4
     DEF Next, Loop, application_periodic, vars, Arrive, pause_idle, Arm, ReceiveNothing,
         ReceiveFrame, Handled, NothingMissed, Missed, Spend, Command, Periodic, Hang

(* The timeouts of the two LEDs. *)
Timeouts == timeout \in [heartbeat : 0 .. HeartbeatTime, command : 0 .. CommandTime]

(* Counted down by a number, they are still timeouts, and the LED is lit *)
(* as long as its own runs.                                              *)
LEMMA SpendInv ==
  ASSUME TypeOK, LedTimed, Spend
  PROVE  Timeouts' /\ LedTimed'
<1> DEFINE n == Value(missed_ticks)
<1>1. n \in Nat BY ValueType DEF TypeOK
<1>2. timeout.heartbeat \in 0 .. HeartbeatTime /\ timeout.command \in 0 .. CommandTime
  BY DEF TypeOK
<1>3. Runs(timeout.command, n) => timeout.command > 0 /\ timeout.command - n \in 1 .. CommandTime
  BY <1>1, <1>2, MainLoopAssumption DEF Runs
<1>4. Runs(timeout.heartbeat, n) => timeout.heartbeat - n \in 0 .. HeartbeatTime
  BY <1>1, <1>2, MainLoopAssumption DEF Runs
<1>5. 0 \in 0 .. CommandTime /\ HeartbeatTime \in 0 .. HeartbeatTime BY MainLoopAssumption
<1>6. timeout' = [heartbeat |-> IF Runs(timeout.heartbeat, n) THEN timeout.heartbeat - n
                                ELSE HeartbeatTime,
                  command |-> IF Runs(timeout.command, n) THEN timeout.command - n ELSE 0]
  BY DEF Spend
<1>7. led' = (led /\ Runs(timeout.command, n)) BY DEF Spend
<1>8. Timeouts' BY <1>3, <1>4, <1>5, <1>6 DEF Timeouts
<1>9. timeout'.command > 0 <=> Runs(timeout.command, n) BY <1>3, <1>6
<1>10. led' <=> Runs(timeout.command, n) BY <1>3, <1>7 DEF LedTimed
<1> QED BY <1>8, <1>9, <1>10 DEF LedTimed

LEMMA TimeoutsInv ==
  ASSUME TypeOK, LedTimed, [Next]_vars
  PROVE  Timeouts' /\ LedTimed'
<1>1. CASE Spend BY <1>1, SpendInv
<1>2. CASE Restart
  <2>1. timeout' = [heartbeat |-> 0, command |-> 0] /\ led' = FALSE BY <1>2 DEF Restart
  <2> QED BY <2>1, MainLoopAssumption DEF Timeouts, LedTimed
<1>3. CASE Command
  <2>1. timeout' = [timeout EXCEPT !.command = CommandTime] /\ led' = TRUE BY <1>3 DEF Command
  <2>2. timeout \in [heartbeat : 0 .. HeartbeatTime, command : 0 .. CommandTime] BY DEF TypeOK
  <2> QED BY <2>1, <2>2, MainLoopAssumption DEF Timeouts, LedTimed
<1>4. CASE UNCHANGED leds BY <1>4 DEF leds, TypeOK, Timeouts, LedTimed
<1> QED BY <1>1, <1>2, <1>3, <1>4
     DEF Next, Loop, application_periodic, vars, Tick, Arrive, pause_idle, Arm, ReceiveNothing,
         ReceiveFrame, Handled, Copy, Clear, NothingMissed, Missed, Periodic, Hang

(* Everything that is counted in ticks or frames. *)
Numbers ==
  /\ watchdog \in 0 .. Period - 1 /\ busy \in 0 .. Busy
  /\ {since, due, hung} \subseteq Nat

LEMMA NumbersInv ==
  ASSUME TypeOK, [Next]_vars
  PROVE  Numbers'
<1> USE MainLoopAssumption DEF TypeOK, Numbers, ghosts
<1>1. CASE Tick
  BY <1>1, SMT DEF Tick, MayPass, Waking, TIMER1_OVF, Timeout, TimesOut
<1>2. CASE Restart BY <1>2 DEF Restart
<1>3. CASE Arrive BY <1>3 DEF Arrive, Wake
<1>4. ASSUME NEW o \in Octets, Copy(o) PROVE Numbers' BY <1>4 DEF Copy
<1>5. CASE UNCHANGED <<watchdog, busy, since, due, hung>> BY <1>5
<1> QED BY <1>1, <1>2, <1>3, <1>4, <1>5
     DEF Next, Loop, application_periodic, vars, pause_idle, Arm, ReceiveNothing, ReceiveFrame,
         Handled, Clear, NothingMissed, Missed, Spend, Command, Periodic, Hang

(* The frames in the chip. *)
Frames == Seq([behind : Nat, waited : Nat])

Pending == pending \in Frames /\ Len(pending) <= MaxPending

(* Frames are as many when they are older, and in the same order. *)
LEMMA OlderFrames ==
  ASSUME NEW frames \in Frames
  PROVE  /\ Older(frames) \in Frames /\ Len(Older(frames)) = Len(frames)
         /\ \A i \in 1 .. Len(frames) :
              /\ frames[i].behind \in Nat /\ frames[i].waited \in Nat
              /\ Older(frames)[i].behind = frames[i].behind
              /\ Older(frames)[i].waited = frames[i].waited + 1
<1> DEFINE n == Len(frames)
<1>1. n \in Nat /\ DOMAIN frames = 1 .. n /\ \A i \in 1 .. n : frames[i] \in [behind : Nat, waited : Nat]
  BY LenProperties, ElementOfSeq DEF Frames
<1>2. \A i \in 1 .. n : /\ [frames[i] EXCEPT !.waited = @ + 1] \in [behind : Nat, waited : Nat]
                         /\ frames[i].behind \in Nat /\ frames[i].waited \in Nat
                         /\ [frames[i] EXCEPT !.waited = @ + 1].behind = frames[i].behind
                         /\ [frames[i] EXCEPT !.waited = @ + 1].waited = frames[i].waited + 1
  BY <1>1
<1>3. Older(frames) = [i \in 1 .. n |-> [frames[i] EXCEPT !.waited = @ + 1]] BY <1>1 DEF Older
<1>4. Older(frames) \in [1 .. n -> [behind : Nat, waited : Nat]] BY <1>2, <1>3
<1> DEFINE older == Older(frames)
<1> HIDE DEF n, older
<1>5. older \in [1 .. n -> [behind : Nat, waited : Nat]] BY <1>4 DEF older
<1>6. older \in Frames BY <1>1, <1>5 DEF Frames
<1>7. Len(older) = n BY <1>1, <1>5, <1>6, LenProperties DEF Frames
<1> QED BY <1>2, <1>3, <1>6, <1>7 DEF n, older

LEMMA PendingInv ==
  ASSUME TypeOK, [Next]_vars
  PROVE  Pending'
<1>1. pending \in Frames /\ Len(pending) <= MaxPending /\ MaxPending \in Nat
  BY MainLoopAssumption DEF TypeOK, Frames
<1>2. CASE Tick
  <2>1. pending' = pending \/ pending' = Older(pending) BY <1>2 DEF Tick
  <2> QED BY <1>1, <2>1, OlderFrames DEF Pending
<1>3. CASE Restart BY <1>1, <1>3 DEF Restart, Pending, Frames
<1>4. CASE Arrive
  <2>1. Len(pending) < MaxPending /\ pending' = Append(pending, [behind |-> Len(pending), waited |-> 0])
    BY <1>4 DEF Arrive
  <2>2. [behind |-> Len(pending), waited |-> 0] \in [behind : Nat, waited : Nat] BY <1>1 DEF Frames
  <2> QED BY <1>1, <2>1, <2>2 DEF Pending, Frames
<1>5. CASE ReceiveFrame BY <1>1, <1>5 DEF ReceiveFrame, Pending, Frames
<1>6. CASE UNCHANGED pending BY <1>1, <1>6 DEF Pending
<1> QED BY <1>2, <1>3, <1>4, <1>5, <1>6
     DEF Next, Loop, application_periodic, vars, pause_idle, Arm, ReceiveNothing, Handled, Copy,
         Clear, NothingMissed, Missed, Spend, Command, Periodic, Hang

LEMMA TypeInv ==
  ASSUME TypeOK, LedTimed, [Next]_vars
  PROVE  TypeOK' /\ LedTimed'
BY StatesInv, CountsInv, TimeoutsInv, NumbersInv, PendingInv
   DEF TypeOK, States, Counts, Timeouts, Numbers, Pending, Frames

-------------------------------------------------------------------------------
(* Time.                                                                     *)

LEMMA TurnsAre ==
  /\ \A k \in Nat : Turns(k) \in Nat /\ Turns(k + 1) = Turns(k) + Busy + 1
  /\ \A k, m \in Nat : k <= m => Turns(k) <= Turns(m)
<1>1. PICK t \in Nat : t = Busy + 1 BY MainLoopAssumption
<1>2. \A k \in Nat : k * t \in Nat /\ (k + 1) * t = k * t + t BY <1>1
<1>3. ASSUME NEW k \in Nat, NEW m \in Nat, k <= m PROVE k * t <= m * t
  <2>1. PICK d \in Nat : d = m - k BY <1>3
  <2>2. d * t \in Nat /\ k * t \in Nat /\ (k + d) * t = k * t + d * t BY <1>1
  <2>3. k + d = m BY <2>1
  <2> QED BY <2>2, <2>3
<1>4. \A k \in Nat : Turns(k) = k * t BY <1>1 DEF Turns
<1>5. ASSUME NEW k \in Nat PROVE Turns(k) \in Nat /\ Turns(k + 1) = Turns(k) + Busy + 1
  <2>1. Turns(k) = k * t /\ Turns(k + 1) = (k + 1) * t BY <1>4
  <2>2. k * t \in Nat /\ (k + 1) * t = k * t + t BY <1>2
  <2> QED BY <1>1, <2>1, <2>2, MainLoopAssumption
<1> QED BY <1>3, <1>4, <1>5

(* What frames have waited is no more than that later on. *)
LEMMA WaitsLonger ==
  ASSUME NEW frames \in Frames, NEW elapsed \in Nat, NEW later \in Nat, elapsed <= later,
         Waits(frames, elapsed)
  PROVE  Waits(frames, later)
<1> SUFFICES ASSUME NEW i \in 1 .. Len(frames)
             PROVE  /\ Overtaken(frames, i) \in Nat
                    /\ frames[i].waited <= later + Turns(Overtaken(frames, i))
  BY DEF Waits
<1>1. PICK k \in Nat : k = Overtaken(frames, i) /\ frames[i].waited <= elapsed + Turns(k)
  BY DEF Waits
<1>2. frames[i].waited \in Nat BY OlderFrames
<1>3. Turns(k) \in Nat BY TurnsAre
<1> QED BY <1>1, <1>2, <1>3

(* A tick later they have waited one tick more. *)
LEMMA WaitsTick ==
  ASSUME NEW frames \in Frames, NEW elapsed \in Nat, Waits(frames, elapsed)
  PROVE  Waits(Older(frames), elapsed + 1)
<1>1. Len(Older(frames)) = Len(frames) BY OlderFrames
<1> SUFFICES ASSUME NEW i \in 1 .. Len(frames)
             PROVE  /\ Overtaken(Older(frames), i) \in Nat
                    /\ Older(frames)[i].waited <= (elapsed + 1) + Turns(Overtaken(Older(frames), i))
  BY <1>1 DEF Waits
<1>2. PICK k \in Nat : k = Overtaken(frames, i) /\ frames[i].waited <= elapsed + Turns(k)
  BY DEF Waits
<1>3. Overtaken(Older(frames), i) = k BY <1>2, OlderFrames DEF Overtaken
<1>4. frames[i].waited \in Nat /\ Older(frames)[i].waited = frames[i].waited + 1 BY OlderFrames
<1>5. Turns(k) \in Nat BY TurnsAre
<1> QED BY <1>2, <1>3, <1>4, <1>5

(* A frame that comes has not waited at all. *)
LEMMA WaitsNew ==
  ASSUME NEW frames \in Frames, NEW elapsed \in Nat, Waits(frames, elapsed)
  PROVE  Waits(Append(frames, [behind |-> Len(frames), waited |-> 0]), elapsed)
<1> DEFINE new == [behind |-> Len(frames), waited |-> 0]
           more == Append(frames, new)
<1>1. Len(frames) \in Nat BY DEF Frames
<1>2. /\ Len(more) = Len(frames) + 1 /\ more[Len(frames) + 1] = new
      /\ \A i \in 1 .. Len(frames) : more[i] = frames[i]
  BY DEF Frames
<1>3. Overtaken(more, Len(frames) + 1) = 0 BY <1>1, <1>2 DEF Overtaken
<1>4. Turns(0) \in Nat BY TurnsAre
<1>5. new.waited = 0 OBVIOUS
<1> SUFFICES Waits(more, elapsed) OBVIOUS
<1> HIDE DEF more
<1> SUFFICES ASSUME NEW i \in 1 .. Len(more)
             PROVE  Overtaken(more, i) \in Nat /\ more[i].waited <= elapsed + Turns(Overtaken(more, i))
  BY DEF Waits
<1>6. CASE i = Len(frames) + 1 BY <1>2, <1>3, <1>4, <1>5, <1>6
<1>7. CASE i \in 1 .. Len(frames) BY <1>2, <1>7 DEF Waits, Overtaken
<1> QED BY <1>1, <1>2, <1>6, <1>7

(* When the first frame is taken the others are one ahead, and have a turn   *)
(* less to wait.                                                             *)
LEMMA WaitsTail ==
  ASSUME NEW frames \in Frames, frames # <<>>, NEW elapsed \in Nat,
         Waits(frames, Busy + 1 + elapsed)
  PROVE  Waits(Tail(frames), elapsed)
<1>1. PICK n \in Nat : n = Len(frames) BY DEF Frames
<1>2. /\ Len(Tail(frames)) = n - 1
      /\ \A i \in 1 .. n - 1 : Tail(frames)[i] = frames[i + 1]
  BY <1>1 DEF Frames
<1> SUFFICES ASSUME NEW i \in 1 .. n - 1
             PROVE  /\ Overtaken(Tail(frames), i) \in Nat
                    /\ Tail(frames)[i].waited <= elapsed + Turns(Overtaken(Tail(frames), i))
  BY <1>2 DEF Waits
<1>3. i + 1 \in 1 .. Len(frames) BY <1>1
<1>4. PICK k \in Nat : /\ k = Overtaken(frames, i + 1)
                       /\ frames[i + 1].waited <= Busy + 1 + elapsed + Turns(k)
  BY <1>3 DEF Waits
<1>5. frames[i + 1].waited \in Nat /\ frames[i + 1].behind \in Nat BY <1>3, OlderFrames
<1>6. Overtaken(Tail(frames), i) = k + 1 BY <1>2, <1>4, <1>5 DEF Overtaken
<1>7. Turns(k) \in Nat /\ Turns(k + 1) = Turns(k) + Busy + 1 BY TurnsAre
<1>8. Busy \in Nat BY MainLoopAssumption
<1> QED BY <1>2, <1>4, <1>5, <1>6, <1>7, <1>8

LEMMA WaitingInv ==
  ASSUME TypeOK, Waiting, [Next]_vars
  PROVE  Waiting'
<1>1. pending \in Frames /\ busy \in 0 .. Busy /\ Busy \in Nat /\ Elapsed \in Nat
  BY MainLoopAssumption DEF TypeOK, Frames, Elapsed
<1>2. Waits(<<>>, Elapsed') BY DEF Waits
<1>3. CASE Tick /\ pc # "hung"
  <2>1. /\ pending' = Older(pending) /\ pc' = (IF pc = "asleep" THEN "arm" ELSE pc)
        /\ caller' = caller /\ busy' = IF pc = "asleep" THEN 0 ELSE busy + 1
    BY <1>3 DEF Tick, Waking
  <2>2. Elapsed' \in Nat /\ Elapsed + 1 <= Elapsed' BY <1>1, <2>1 DEF Elapsed, Ahead
  <2>3. Older(pending) \in Frames /\ Waits(Older(pending), Elapsed + 1)
    BY <1>1, <1>3, OlderFrames, WaitsTick DEF Waiting
  <2> QED BY <1>1, <2>1, <2>2, <2>3, WaitsLonger DEF Waiting
<1>4. CASE Restart BY <1>2, <1>4 DEF Restart, Waiting
<1>5. CASE Arrive /\ pc # "hung"
  <2>1. /\ pending' = Append(pending, [behind |-> Len(pending), waited |-> 0]) /\ caller' = caller
        /\ IF pending = <<>> THEN Wake ELSE pc' = pc /\ busy' = busy
    BY <1>5 DEF Arrive
  <2>2. Elapsed' \in Nat BY <1>1, <2>1 DEF Elapsed, Wake
  <2>3. Waits(pending, Elapsed')
    <3>1. CASE pending = <<>> BY <1>2, <3>1
    <3>2. CASE pending # <<>> BY <1>5, <2>1, <3>2 DEF Waiting, Elapsed, Ahead
    <3> QED BY <3>1, <3>2
  <2> QED BY <1>1, <2>1, <2>2, <2>3, WaitsNew DEF Waiting
<1>6. CASE ReceiveFrame
  <2>1. pc = "receive" /\ pc' = "handle" /\ pending # <<>> /\ pending' = Tail(pending) /\ busy' = busy
    BY <1>6 DEF ReceiveFrame, Goto
  <2>2. Waits(pending, Busy + 1 + busy) BY <2>1 DEF Waiting, Elapsed, Ahead
  <2>3. Elapsed' = busy BY <2>1 DEF Elapsed, Ahead
  <2> QED BY <1>1, <2>1, <2>2, <2>3, WaitsTail DEF Waiting
<1>7. CASE ReceiveNothing BY <1>2, <1>7 DEF ReceiveNothing, Waiting
<1>8. CASE pc' = "hung" BY <1>8 DEF Waiting
<1>9. CASE /\ pc # "hung" /\ pending' = pending /\ busy' = busy
           /\ Ahead <=> Ahead'
  <2>1. Elapsed' = Elapsed BY <1>9 DEF Elapsed
  <2> QED BY <1>9, <2>1 DEF Waiting
<1>10. CASE pause_idle \/ Arm \/ Handled
  BY <1>9, <1>10 DEF pause_idle, Arm, Handled, Goto, Call, Ahead
<1>11. CASE application_periodic
  BY <1>9, <1>11 DEF application_periodic, Copy, Clear, NothingMissed, Missed, Spend, Return, Goto, Ahead
<1>12. CASE Command \/ Periodic \/ Hang
  BY <1>8, <1>9, <1>12 DEF Command, Periodic, Hang, Call, Ahead
<1>13. CASE UNCHANGED vars BY <1>8, <1>9, <1>13 DEF vars, Ahead
<1>14. CASE pc = "hung" /\ (Tick \/ Arrive) BY <1>8, <1>14 DEF Tick, Waking, Arrive, Wake
<1> QED BY <1>3, <1>4, <1>5, <1>6, <1>7, <1>10, <1>11, <1>12, <1>13, <1>14 DEF Next, Loop

LEMMA TimingInv ==
  ASSUME TypeOK, Timing, [Next]_vars
  PROVE  Timing'
<1>t. watchdog \in Nat /\ busy \in 0 .. Busy /\ hung \in Nat BY MainLoopAssumption DEF TypeOK
<1>w. Waiting' BY WaitingInv DEF Timing
<1> DEFINE Rest == Watched /\ (pc = "hung" => Seen) /\ (pc # "hung" => hung = 0)
<1>r. Rest BY DEF Timing
<1> SUFFICES Rest' BY <1>w DEF Timing
<1> USE <1>t, <1>r, MainLoopAssumption DEF Watched, Seen, Elapsed, Ahead
<1>1. CASE Tick
  <2>1. /\ (wdie' <=> wdie /\ ~TimesOut) /\ watchdog' = IF TimesOut THEN 0 ELSE watchdog + 1
        /\ (TimesOut => wdie) /\ (TimesOut <=> watchdog + 1 = Period)
        /\ pc' = (IF pc = "asleep" THEN "arm" ELSE pc) /\ caller' = caller
        /\ busy' = (IF pc \in {"asleep", "hung"} THEN 0 ELSE busy + 1)
        /\ hung' = (IF pc = "hung" THEN hung + 1 ELSE 0)
    BY <1>1 DEF Tick, Waking, Timeout, TimesOut
  <2>2. Watched' BY <2>1
  <2>3. pc' = "hung" => Seen' BY <2>1
  <2> QED BY <2>1, <2>2, <2>3
<1>2. CASE Restart BY <1>2 DEF Restart
<1>3. CASE Arrive BY <1>3 DEF Arrive, Wake
<1>4. CASE pause_idle BY <1>4 DEF pause_idle, Goto
<1>5. CASE Arm BY <1>5 DEF Arm, Call
<1>6. CASE ReceiveNothing BY <1>6 DEF ReceiveNothing, Goto
<1>7. CASE ReceiveFrame BY <1>7 DEF ReceiveFrame, Goto
<1>8. CASE Handled BY <1>8 DEF Handled, Goto
<1>9. CASE application_periodic
  BY <1>9 DEF application_periodic, Copy, Clear, NothingMissed, Missed, Spend, Return, Goto
<1>10. CASE Command BY <1>10 DEF Command
<1>11. CASE Periodic BY <1>11 DEF Periodic, Call
<1>12. CASE Hang BY <1>12 DEF Hang
<1>13. CASE UNCHANGED vars BY <1>13 DEF vars
<1> QED BY <1>1, <1>2, <1>3, <1>4, <1>5, <1>6, <1>7, <1>8, <1>9, <1>10, <1>11, <1>12, <1>13
     DEF Next, Loop

-------------------------------------------------------------------------------
(* Ticks.                                                                    *)

(* The low octet is still to be copied for the first time in this turn. *)
Uncopied == pc = "arm" \/ (pc = "load" /\ caller = "loop" /\ "low" \in todo)

(* It was copied in this turn, or in the last one. *)
Recent == since <= IF Uncopied THEN Busy + 1 + busy ELSE busy

(* While the counter is left alone, it has lost one tick at most. *)
Resting == ~Exposed => since - 1 <= t1_unhandled["low"] /\ t1_unhandled["low"] <= since

(* While it is copied and cleared, one tick at most may come. *)
Copied ==
  Exposed =>
    /\ since = (IF late THEN 1 ELSE 0) /\ due <= 2 * Busy + 1
    /\ due - 1 <= missed_ticks["low"] /\ missed_ticks["low"] <= due
    /\ IF pc = "clear" /\ "low" \notin todo
       THEN t1_unhandled["low"] <= since
       ELSE t1_unhandled["low"] = missed_ticks["low"] + since

(* The high octets are never needed. *)
High ==
  /\ t1_unhandled["high"] = 0
  /\ pc = "clear" \/ (pc = "load" /\ "high" \notin todo) => missed_ticks["high"] = 0

Ticks == pc # "hung" => Recent /\ Resting /\ Copied /\ High

(* A tick counts in the low octet, as long as that does not overflow. *)
LEMMA TickCounts ==
  ASSUME TypeOK, t1_unhandled["high"] = 0, t1_unhandled["low"] + 1 < Base, TIMER1_OVF
  PROVE  t1_unhandled'["low"] = t1_unhandled["low"] + 1 /\ t1_unhandled'["high"] = 0
<1> DEFINE n == t1_unhandled["low"] + 1
<1>1. n \in 0 .. Base - 1 /\ Base \in Nat \ {0}
  BY MainLoopAssumption DEF TypeOK, Octets
<1>2. Value(t1_unhandled) + 1 = n
  <2>1. Base * 0 = 0 BY <1>1
  <2> QED BY <1>1, <2>1 DEF Value, TypeOK, Octets
<1>3. n % Base = n /\ n \div Base = 0 /\ 0 % Base = 0 BY <1>1
<1>4. t1_unhandled' = AsOctets(n) BY <1>2 DEF TIMER1_OVF
<1> QED BY <1>3, <1>4 DEF AsOctets, Octets

LEMMA TickTicks ==
  ASSUME TypeOK, Ticks, Tick
  PROVE  Ticks'
<1> SUFFICES ASSUME pc # "hung" PROVE Ticks'
  BY DEF Ticks, Tick, Waking
<1> USE MainLoopAssumption DEF Ticks, Recent, Resting, Copied, High, Exposed, Uncopied
<1>1. /\ t1_unhandled["low"] \in Nat /\ missed_ticks["low"] \in Nat
      /\ busy \in 0 .. Busy /\ since \in Nat /\ due \in Nat /\ Busy \in Nat
  BY DEF TypeOK, Octets
<1>2. /\ pc' = (IF pc = "asleep" THEN "arm" ELSE pc)
      /\ busy' = (IF pc = "asleep" THEN 0 ELSE busy + 1)
      /\ since' = since + 1 /\ (late' <=> late \/ Exposed)
      /\ UNCHANGED <<missed_ticks, todo, due, caller>>
  BY DEF Tick, Waking, TIMER1_OVF
<1>3. (pc # "asleep" => busy < Busy) /\ ~(Exposed /\ late) BY DEF Tick, MayPass
<1>4. Recent' BY <1>1, <1>2
<1>5. since + 1 <= 2 * Busy + 1 BY <1>1, <1>3
<1>6. t1_unhandled["low"] + 1 < Base
  <2>1. CASE Exposed BY <1>1, <1>3, <2>1
  <2>2. CASE ~Exposed BY <1>1, <1>5, <2>2
  <2> QED BY <2>1, <2>2
<1>7. t1_unhandled'["low"] = t1_unhandled["low"] + 1 /\ t1_unhandled'["high"] = 0
  BY <1>6, TickCounts DEF Tick
<1>8. Resting' BY <1>1, <1>2, <1>7
<1>9. Copied' BY <1>1, <1>2, <1>3, <1>7
<1>10. High' BY <1>2, <1>7
<1> QED BY <1>4, <1>8, <1>9, <1>10

LEMMA CopyTicks ==
  ASSUME TypeOK, Ticks, NEW o \in Octets, Copy(o)
  PROVE  Ticks'
<1> USE MainLoopAssumption DEF Ticks, Recent, Resting, Copied, High, Exposed, Uncopied
<1>1. /\ t1_unhandled["low"] \in Nat /\ missed_ticks \in [Octets -> 0 .. Base - 1]
      /\ busy \in 0 .. Busy /\ since \in Nat /\ due \in Nat /\ Busy \in Nat
  BY DEF TypeOK, Octets
<1>2. /\ pc = "load" /\ o \in todo /\ todo' = todo \ {o}
      /\ missed_ticks' = [missed_ticks EXCEPT ![o] = t1_unhandled[o]]
      /\ UNCHANGED <<pc, caller, t1_unhandled, busy>>
  BY DEF Copy
<1>3. CASE o = "low"
  <2>1. late' = FALSE /\ since' = 0 /\ due' = since BY <1>3 DEF Copy
  <2>2. missed_ticks'["low"] = t1_unhandled["low"] /\ missed_ticks'["high"] = missed_ticks["high"]
    BY <1>1, <1>2, <1>3 DEF Octets
  <2> QED BY <1>1, <1>2, <1>3, <2>1, <2>2
<1>4. CASE o = "high"
  <2>1. UNCHANGED <<late, since, due>> BY <1>4 DEF Copy, ghosts
  <2>2. missed_ticks'["low"] = missed_ticks["low"] /\ missed_ticks'["high"] = t1_unhandled["high"]
    BY <1>1, <1>2, <1>4 DEF Octets
  <2> QED BY <1>1, <1>2, <1>4, <2>1, <2>2
<1> QED BY <1>3, <1>4 DEF Octets

LEMMA ClearTicks ==
  ASSUME TypeOK, Ticks, NEW o \in Octets, Clear(o)
  PROVE  Ticks'
<1> USE DEF Ticks, Recent, Resting, Copied, High, Exposed, Uncopied
<1>1. t1_unhandled \in [Octets -> 0 .. Base - 1] /\ since \in Nat /\ missed_ticks["low"] \in Nat
  BY DEF TypeOK, Octets
<1>2. /\ pc = "clear" /\ o \in todo /\ todo' = todo \ {o}
      /\ t1_unhandled' = [t1_unhandled EXCEPT ![o] = 0]
      /\ UNCHANGED <<pc, caller, missed_ticks, busy, late, since, due>>
  BY DEF Clear, ghosts
<1>3. CASE o = "low"
  <2>1. t1_unhandled'["low"] = 0 /\ t1_unhandled'["high"] = t1_unhandled["high"]
    BY <1>1, <1>2, <1>3 DEF Octets
  <2> QED BY <1>1, <1>2, <1>3, <2>1
<1>4. CASE o = "high"
  <2>1. t1_unhandled'["low"] = t1_unhandled["low"] /\ t1_unhandled'["high"] = 0
    BY <1>1, <1>2, <1>4 DEF Octets
  <2> QED BY <1>1, <1>2, <1>4, <2>1
<1> QED BY <1>3, <1>4 DEF Octets

(* The counter is left alone again after it was copied, and cleared unless *)
(* there was nothing to clear.                                             *)
LEMMA ReturnTicks ==
  ASSUME TypeOK, Ticks, NothingMissed \/ Missed \/ Spend
  PROVE  Ticks'
<1> USE DEF Ticks, Recent, Resting, Copied, High, Exposed, Uncopied
<1>1. /\ missed_ticks["low"] \in Nat /\ since \in Nat /\ t1_unhandled["low"] \in Nat
      /\ busy \in 0 .. Busy
  BY MainLoopAssumption DEF TypeOK, Octets
<1>2. UNCHANGED <<missed_ticks, t1_unhandled, late, since, due, busy, caller>>
  BY DEF NothingMissed, Missed, Spend, counter, ghosts
<1>3. CASE NothingMissed
  <2>1. pc = "load" /\ todo = {} /\ pc' \in {"receive", "handle"}
    BY <1>3 DEF NothingMissed, Return
  <2>2. missed_ticks["high"] = 0 /\ Value(missed_ticks) = 0 BY <1>3, <2>1 DEF NothingMissed
  <2>3. missed_ticks["low"] = 0
    <3>1. Base \in Nat BY MainLoopAssumption
    <3>2. Base * 0 = 0 BY <3>1
    <3> QED BY <1>1, <2>2, <3>2 DEF Value
  <2> QED BY <1>1, <1>2, <2>1, <2>2, <2>3
<1>4. CASE Missed
  <2>1. pc = "load" /\ pc' = "clear" /\ todo = {} /\ todo' = Octets BY <1>4 DEF Missed, Goto
  <2> QED BY <1>1, <1>2, <2>1 DEF Octets
<1>5. CASE Spend
  <2>1. pc = "clear" /\ todo = {} /\ pc' \in {"receive", "handle"} BY <1>5 DEF Spend, Return
  <2> QED BY <1>1, <1>2, <2>1
<1> QED BY <1>3, <1>4, <1>5

LEMMA TicksInv ==
  ASSUME TypeOK, Ticks, [Next]_vars
  PROVE  Ticks'
<1>1. CASE Tick BY <1>1, TickTicks
<1>2. CASE \E o \in Octets : Copy(o) \/ Clear(o) BY <1>2, CopyTicks, ClearTicks
<1>3. CASE NothingMissed \/ Missed \/ Spend BY <1>3, ReturnTicks
<1> USE DEF Ticks, Recent, Resting, Copied, High, Exposed, Uncopied
<1>t. busy \in 0 .. Busy /\ since \in Nat /\ Busy \in Nat BY MainLoopAssumption DEF TypeOK
<1>4. CASE Restart BY <1>4, MainLoopAssumption DEF Restart, Nought, Octets
<1>5. CASE Arrive BY <1>5, <1>t DEF Arrive, Wake, counter, ghosts
<1>6. CASE pause_idle \/ Handled \/ Command \/ Hang
  BY <1>6, <1>t DEF pause_idle, Handled, Command, Hang, Goto, counter, ghosts
<1>7. CASE ReceiveNothing \/ ReceiveFrame
  BY <1>7, <1>t DEF ReceiveNothing, ReceiveFrame, Goto, counter, ghosts
<1>8. CASE Arm \/ Periodic BY <1>8, <1>t DEF Arm, Periodic, Call, Octets, ghosts
<1>9. CASE UNCHANGED vars BY <1>9, <1>t DEF vars, counter, ghosts
<1> QED BY <1>1, <1>2, <1>3, <1>4, <1>5, <1>6, <1>7, <1>8, <1>9
     DEF Next, Loop, application_periodic

-------------------------------------------------------------------------------
(* The inductive invariant. *)
IInv == TypeOK /\ LedTimed /\ Timing /\ Ticks

LEMMA InitInv == Init => IInv
<1> SUFFICES ASSUME Init PROVE IInv OBVIOUS
<1>1. TypeOK
  <2>1. t1_unhandled \in [Octets -> 0 .. Base - 1] /\ missed_ticks \in [Octets -> 0 .. Base - 1]
    BY NoughtType DEF Init
  <2>2. timeout \in [heartbeat : 0 .. HeartbeatTime, command : 0 .. CommandTime]
    BY MainLoopAssumption DEF Init
  <2>3. led \in BOOLEAN /\ wdie \in BOOLEAN /\ late \in BOOLEAN BY Zenon DEF Init
  <2>4. /\ watchdog \in 0 .. Period - 1 /\ busy \in 0 .. Busy
        /\ pending \in Seq([behind : Nat, waited : Nat]) /\ Len(pending) <= MaxPending
    BY MainLoopAssumption DEF Init
  <2>5. todo \subseteq Octets /\ {since, due, hung} \subseteq Nat BY DEF Init
  <2> QED BY <2>1, <2>2, <2>3, <2>4, <2>5 DEF Init, TypeOK
<1>2. LedTimed BY DEF Init, LedTimed
<1>3. Timing
  <2>1. Waiting BY DEF Init, Waiting, Waits
  <2> QED BY <2>1, MainLoopAssumption DEF Init, Timing, Watched, Elapsed
<1>4. Ticks
  BY MainLoopAssumption
     DEF Init, Ticks, Recent, Resting, Copied, High, Exposed, Uncopied, Nought, Octets
<1> QED BY <1>1, <1>2, <1>3, <1>4 DEF IInv

THEOREM Inductive == Spec => []IInv
<1>1. IInv /\ [Next]_vars => IInv' BY TypeInv, TimingInv, TicksInv DEF IInv
<1> QED BY InitInv, <1>1, PTL DEF Spec

(* Octets stay octets, timeouts stay within their initial values, and the    *)
(* watchdog within its period.                                               *)
THEOREM TypeCorrect == Spec => []TypeOK
<1>1. IInv => TypeOK BY DEF IInv
<1> QED BY Inductive, <1>1, PTL

(* application_periodic is told of all ticks but one at most, although it    *)
(* copies and clears the counter octet by octet with interrupts enabled      *)
(* (application.c:172-175), whatever the size of an octet is.                *)
THEOREM TicksAccounted == Spec => []Accounted
<1>1. IInv => Accounted
  <2> SUFFICES ASSUME IInv, pc = "clear" PROVE Accounted BY DEF Accounted
  <2>1. /\ missed_ticks["high"] = 0
        /\ due - 1 <= missed_ticks["low"] /\ missed_ticks["low"] <= due
    BY DEF IInv, Ticks, Copied, High, Exposed
  <2>2. Value(missed_ticks) = missed_ticks["low"]
    <3>1. Base \in Nat /\ missed_ticks["low"] \in Nat
      BY MainLoopAssumption DEF IInv, TypeOK, Octets
    <3>2. Base * 0 = 0 BY <3>1
    <3> QED BY <2>1, <3>1, <3>2 DEF Value
  <2> QED BY <2>1, <2>2 DEF Accounted
<1> QED BY Inductive, <1>1, PTL

(* The command LED is lit as long as its timeout runs (application.c:188-194 *)
(* and 248-249), however many ticks are missed.                              *)
THEOREM LedIsTimed == Spec => []LedTimed
<1>1. IInv => LedTimed BY DEF IInv
<1> QED BY Inductive, <1>1, PTL

(* A frame that comes behind others waits for the turn that is under way,    *)
(* and for one turn and the tick before it for each of them and for itself   *)
(* (main.c:108, 118), for turns of every length and any number of frames in  *)
(* the chip.                                                                 *)
THEOREM FramesArePrompt == Spec => []Prompt
<1>1. IInv => Prompt
  <2> SUFFICES ASSUME IInv, pc # "hung", NEW i \in DOMAIN pending
               PROVE  pending[i].waited <= Busy + (pending[i].behind + 1) * (Busy + 1)
    BY DEF Prompt
  <2>1. pending \in Frames /\ busy \in 0 .. Busy /\ Busy \in Nat
    BY MainLoopAssumption DEF IInv, TypeOK, Frames
  <2>2. i \in 1 .. Len(pending) BY <2>1 DEF Frames
  <2>3. PICK k \in Nat : k = Overtaken(pending, i) /\ pending[i].waited <= Elapsed + Turns(k)
    BY <2>2 DEF IInv, Timing, Waiting, Waits
  <2>4. pending[i].waited \in Nat /\ pending[i].behind \in Nat BY <2>1, <2>2, OlderFrames
  <2>5. PICK b \in Nat : b = pending[i].behind BY <2>4
  <2>6. k <= b BY <2>2, <2>3, <2>5 DEF Overtaken
  <2>7. /\ Turns(k) \in Nat /\ Turns(b) \in Nat /\ Turns(k) <= Turns(b)
        /\ Turns(b + 1) = Turns(b) + Busy + 1
    BY <2>6, TurnsAre
  <2>8. Elapsed \in Nat /\ Elapsed <= Busy + Busy + 1 BY <2>1 DEF Elapsed
  <2>9. pending[i].waited <= Busy + Turns(b + 1) BY <2>1, <2>3, <2>4, <2>7, <2>8
  <2> QED BY <2>5, <2>9 DEF Turns
<1> QED BY Inductive, <1>1, PTL

(* A loop that hangs has been restarted before the watchdog times out for    *)
(* the third time (main.c:97, 109).                                          *)
THEOREM HangsEnd == Spec => []HangEnds
<1>1. IInv => HangEnds
  <2> SUFFICES ASSUME IInv PROVE hung < 2 * Period BY DEF HangEnds
  <2>1. Period \in Nat \ {0} /\ watchdog \in 0 .. Period - 1 /\ hung \in Nat
    BY MainLoopAssumption DEF IInv, TypeOK
  <2>2. pc = "hung" => hung <= watchdog + Period
    BY <2>1 DEF IInv, Timing, Seen
  <2> QED BY <2>1, <2>2 DEF IInv, Timing
<1> QED BY Inductive, <1>1, PTL

(* The watchdog restarts no board that does not hang (main.c:109), for       *)
(* every period that is longer than two turns.                               *)
THEOREM RestartsAreHangs == Spec => OnlyHangsRestart
<1>1. IInv /\ [Next]_vars => [Restart => pc = "hung"]_vars
  <2> SUFFICES ASSUME IInv, Restart, pc # "hung" PROVE FALSE OBVIOUS
  <2>1. Period \in Nat /\ watchdog \in Nat /\ busy \in 0 .. Busy /\ Busy \in Nat
    BY MainLoopAssumption DEF IInv, TypeOK
  <2>2. watchdog + 1 = Period /\ ~wdie /\ (pc # "asleep" => busy < Busy)
    BY DEF Restart, TimesOut, MayPass
  <2>3. watchdog <= IF pc = "arm" THEN Busy + 1 + busy ELSE busy
    BY <2>2 DEF IInv, Timing, Watched, Elapsed, Ahead
  <2> QED BY <2>1, <2>2, <2>3, MainLoopAssumption
<1> QED BY Inductive, <1>1, PTL DEF OnlyHangsRestart, Spec

===============================================================================
