------------------------------- MODULE MainLoop -------------------------------
(***************************************************************************)
(* One turn of the main loop of main.c after the other, with what          *)
(* interrupts it: the 122 Hz timer (application-pwm.c), the Ethernet chip  *)
(* and the watchdog.  Frames are only counted here; what they do is the    *)
(* matter of Lan and Tcp4.  Time passes in ticks of the timer, and the     *)
(* watchdog is counted in them as well.                                    *)
(***************************************************************************)
EXTENDS Integers, Sequences

CONSTANTS
  Base,           \* the values of an octet
  Period,         \* the watchdog times out every so many ticks
  Busy,           \* the ticks a turn takes at most, unless it hangs; so does the start,
                  \* from wdt_enable on
  HeartbeatTime,  \* 122, the ticks from one change of the heartbeat LED to the next
  CommandTime,    \* 10, the ticks the command LED is lit
  MaxPending      \* the frames the Ethernet chip has room for

(* Two turns are over before the counter of ticks needs its second octet,    *)
(* and before the watchdog times out twice: both are about two seconds.      *)
ASSUME MainLoopAssumption ==
  /\ Base \in Nat /\ Period \in Nat /\ Busy \in Nat
  /\ 2 * Busy + 2 < Base /\ 2 * Busy + 1 < Period
  /\ HeartbeatTime \in Nat \ {0} /\ CommandTime \in Nat \ {0}
  /\ MaxPending \in Nat \ {0}

VARIABLES
  pc,             \* where the loop is
  caller,         \* who called application_periodic: the loop or a handler
  t1_unhandled,   \* the two octets of the counter
  missed_ticks,   \* the two octets of its copy
  todo,           \* the octets that have still to be copied, or cleared
  timeout,        \* the timeouts of the two LEDs
  led,            \* the command LED is lit
  wdie,           \* WDIE: the next timeout of the watchdog only interrupts
  watchdog,       \* the ticks since the last timeout
  pending,        \* the frames in the Ethernet chip: behind how many others each has
                  \* come, and the ticks that it has been waiting for the loop
  busy,           \* the ticks since the loop was woken, or the watchdog was enabled
  late,           \* a tick came while the counter was copied and cleared
  since,          \* the ticks since the low octet was copied
  due,            \* ... and how many they were when it was copied again
  hung            \* the ticks since the loop hangs

counter == <<t1_unhandled, missed_ticks, todo>>
leds    == <<timeout, led>>
ghosts  == <<late, since, due>>
vars == <<pc, caller, counter, leds, wdie, watchdog, pending, busy, ghosts, hung>>

-------------------------------------------------------------------------------
Octets == {"low", "high"}

Value(octets) == octets["low"] + Base * octets["high"]

AsOctets(n) == [o \in Octets |-> IF o = "low" THEN n % Base ELSE (n \div Base) % Base]

Nought == [o \in Octets |-> 0]

(* After reset, and before the first turn: main.c:97-104.  The watchdog runs *)
(* already while the rest is started.                                        *)
Init ==
  /\ pc = "pause" /\ caller = "loop"
  /\ t1_unhandled = Nought /\ missed_ticks = Nought /\ todo = {}
  /\ timeout = [heartbeat |-> 0, command |-> 0] /\ led = FALSE
  /\ wdie = FALSE /\ watchdog \in 0 .. Busy
  /\ pending = <<>>
  /\ busy = watchdog /\ late = FALSE /\ since = 0 /\ due = 0 /\ hung = 0

-------------------------------------------------------------------------------
(* Interrupts.                                                               *)

(* Any interrupt ends the sleep, and does nothing else to the loop. *)
Wake ==
  /\ pc' = IF pc = "asleep" THEN "arm" ELSE pc
  /\ busy' = IF pc = "asleep" THEN 0 ELSE busy

(* The counter is being copied and cleared.  That takes a few instructions,  *)
(* so that there is room for one tick at most.                               *)
Exposed == pc = "clear" \/ (pc = "load" /\ "low" \notin todo)

(* Time may pass: a turn takes no longer than it may. *)
MayPass ==
  /\ pc \notin {"asleep", "hung"} => busy < Busy
  /\ ~(Exposed /\ late)

TimesOut == watchdog + 1 = Period

TIMER1_OVF ==
  /\ t1_unhandled' = AsOctets(Value(t1_unhandled) + 1)
  /\ late' = (late \/ Exposed)
  /\ since' = since + 1
  /\ UNCHANGED <<missed_ticks, todo, due>>

(* Mutant of Timeout: the interrupt of the watchdog enables itself again. *)
TimeoutRearmed ==
  /\ watchdog' = IF TimesOut THEN 0 ELSE watchdog + 1
  /\ UNCHANGED wdie

(* A timeout with WDIE set interrupts, and the hardware clears WDIE. *)
Timeout ==
  /\ watchdog' = IF TimesOut THEN 0 ELSE watchdog + 1
  /\ wdie' = (wdie /\ ~TimesOut)

(* Mutant of Waking: the timer does not run while the processor sleeps. *)
WakingByWatchdog ==
  IF TimesOut THEN Wake
  ELSE pc' = pc /\ busy' = IF pc = "asleep" THEN 0 ELSE busy + 1

(* The timer interrupts with every tick. *)
Waking ==
  /\ pc' = IF pc = "asleep" THEN "arm" ELSE pc
  /\ busy' = IF pc \in {"asleep", "hung"} THEN 0 ELSE busy + 1

(* Frames that have waited for another tick. *)
Older(frames) == [i \in DOMAIN frames |-> [frames[i] EXCEPT !.waited = @ + 1]]

Tick ==
  /\ MayPass
  /\ TimesOut => wdie
  /\ Waking /\ TIMER1_OVF /\ Timeout
  /\ pending' = IF pc = "hung" THEN pending ELSE Older(pending)
  /\ hung' = IF pc = "hung" THEN hung + 1 ELSE 0
  /\ UNCHANGED <<caller, leds>>

(* A timeout with WDIE clear resets the board, which starts over. *)
Restart ==
  /\ MayPass
  /\ TimesOut /\ ~wdie
  /\ pc' = "pause" /\ caller' = "loop"
  /\ t1_unhandled' = Nought /\ missed_ticks' = Nought /\ todo' = {}
  /\ timeout' = [heartbeat |-> 0, command |-> 0] /\ led' = FALSE
  /\ wdie' = FALSE /\ watchdog' \in 0 .. Busy
  /\ pending' = <<>>
  /\ busy' = watchdog' /\ late' = FALSE /\ since' = 0 /\ due' = 0 /\ hung' = 0

(* The chip interrupts when it has a frame and had none: INT0 is a falling   *)
(* edge.                                                                     *)
Arrive ==
  /\ Len(pending) < MaxPending
  /\ pending' = Append(pending, [behind |-> Len(pending), waited |-> 0])
  /\ IF pending = <<>> THEN Wake ELSE UNCHANGED <<pc, busy>>
  /\ UNCHANGED <<caller, counter, leds, wdie, watchdog, ghosts, hung>>

-------------------------------------------------------------------------------
(* The loop.                                                                 *)

Goto(from, to) == pc = from /\ pc' = to

(* sleep_mode: an interrupt that comes before it does not end it. *)
pause_idle ==
  /\ Goto("pause", "asleep")
  /\ UNCHANGED <<caller, counter, leds, wdie, watchdog, pending, busy, ghosts, hung>>

(* application_periodic begins. *)
Call(who) == pc' = "load" /\ caller' = who /\ todo' = Octets

(* Mutant of Arm: WDIE is set only before the loop, as other registers are. *)
ArmNot ==
  /\ pc = "arm" /\ Call("loop")
  /\ UNCHANGED <<t1_unhandled, missed_ticks, leds, wdie, watchdog, pending, busy, ghosts, hung>>

Arm ==
  /\ pc = "arm" /\ Call("loop")
  /\ wdie' = TRUE
  /\ UNCHANGED <<t1_unhandled, missed_ticks, leds, watchdog, pending, busy, ghosts, hung>>

(* missed_ticks = t1_unhandled, one octet after the other, and interrupts    *)
(* may come at any time.                                                     *)
Copy(o) ==
  /\ pc = "load" /\ o \in todo
  /\ missed_ticks' = [missed_ticks EXCEPT ![o] = t1_unhandled[o]]
  /\ todo' = todo \ {o}
  /\ IF o = "low"
     THEN late' = FALSE /\ since' = 0 /\ due' = since
     ELSE UNCHANGED ghosts
  /\ UNCHANGED <<pc, caller, t1_unhandled, leds, wdie, watchdog, pending, busy, hung>>

Return == pc' = IF caller = "loop" THEN "receive" ELSE "handle"

NothingMissed ==
  /\ pc = "load" /\ todo = {} /\ Value(missed_ticks) = 0
  /\ Return
  /\ UNCHANGED <<caller, counter, leds, wdie, watchdog, pending, busy, ghosts, hung>>

Missed ==
  /\ Goto("load", "clear") /\ todo = {} /\ Value(missed_ticks) # 0
  /\ todo' = Octets
  /\ UNCHANGED <<caller, t1_unhandled, missed_ticks, leds, wdie, watchdog, pending, busy,
                 ghosts, hung>>

(* Mutant of Clear: the counter is not cleared. *)
ClearNot(o) ==
  /\ pc = "clear" /\ o \in todo
  /\ todo' = todo \ {o}
  /\ UNCHANGED <<pc, caller, t1_unhandled, missed_ticks, leds, wdie, watchdog, pending, busy,
                 ghosts, hung>>

(* t1_unhandled = 0, one octet after the other. *)
Clear(o) ==
  /\ pc = "clear" /\ o \in todo
  /\ t1_unhandled' = [t1_unhandled EXCEPT ![o] = 0]
  /\ todo' = todo \ {o}
  /\ UNCHANGED <<pc, caller, missed_ticks, leds, wdie, watchdog, pending, busy, ghosts, hung>>

(* Mutant of Runs: a timeout is over one tick too late. *)
RunsAtZero(time, n) == time >= n

(* Mutant of Runs: the timeouts are counted down without a look at them. *)
RunsAlways(time, n) == TRUE

(* A timeout goes on after n more ticks. *)
Runs(time, n) == time > n

(* The timeouts are counted down by the ticks that were missed.  The pattern *)
(* that application_periodic_pwm puts on its outputs is left out, and so are *)
(* the heartbeat LED itself and the statistics.                              *)
Spend ==
  /\ pc = "clear" /\ todo = {}
  /\ LET n == Value(missed_ticks)
     IN /\ timeout' = [heartbeat |-> IF Runs(timeout.heartbeat, n) THEN timeout.heartbeat - n
                                     ELSE HeartbeatTime,
                       command   |-> IF Runs(timeout.command, n) THEN timeout.command - n ELSE 0]
        /\ led' = (led /\ Runs(timeout.command, n))
  /\ Return
  /\ UNCHANGED <<caller, counter, wdie, watchdog, pending, busy, ghosts, hung>>

(* Mutant of ReceiveNothing: the loop waits for a frame. *)
ReceiveWaiting ==
  /\ pc = "receive" /\ pending = <<>>
  /\ UNCHANGED vars

ReceiveNothing ==
  /\ Goto("receive", "pause") /\ pending = <<>>
  /\ UNCHANGED <<caller, counter, leds, wdie, watchdog, pending, busy, ghosts, hung>>

(* One frame is taken in a turn, however many there are. *)
ReceiveFrame ==
  /\ Goto("receive", "handle") /\ pending # <<>>
  /\ pending' = Tail(pending)
  /\ UNCHANGED <<caller, counter, leds, wdie, watchdog, busy, ghosts, hung>>

(* application_content lights the command LED. *)
Command ==
  /\ pc = "handle"
  /\ timeout' = [timeout EXCEPT !.command = CommandTime] /\ led' = TRUE
  /\ UNCHANGED <<pc, caller, counter, wdie, watchdog, pending, busy, ghosts, hung>>

(* A long command calls application_periodic itself. *)
Periodic ==
  /\ pc = "handle" /\ Call("handler")
  /\ UNCHANGED <<t1_unhandled, missed_ticks, leds, wdie, watchdog, pending, busy, ghosts, hung>>

(* The frame is handled, and the reply sent. *)
Handled ==
  /\ Goto("handle", "pause")
  /\ UNCHANGED <<caller, counter, leds, wdie, watchdog, pending, busy, ghosts, hung>>

(* The command reset, and every wait for hardware that does not answer. *)
Hang ==
  /\ pc \in {"receive", "handle"} /\ pc' = "hung"
  /\ UNCHANGED <<caller, counter, leds, wdie, watchdog, pending, busy, ghosts, hung>>

application_periodic ==
  \/ \E o \in Octets : Copy(o) \/ Clear(o)
  \/ NothingMissed \/ Missed \/ Spend

Loop ==
  \/ pause_idle \/ Arm \/ application_periodic
  \/ ReceiveNothing \/ ReceiveFrame \/ Handled

Next == Tick \/ Restart \/ Arrive \/ Loop \/ Command \/ Periodic \/ Hang

(* The processor goes on, a handler ends unless it hangs, and time passes. *)
Fairness ==
  /\ WF_vars(Loop) /\ SF_vars(Handled)
  /\ WF_vars(Tick \/ Restart)

Spec == Init /\ [][Next]_vars /\ Fairness

-------------------------------------------------------------------------------
TypeOK ==
  /\ pc \in {"pause", "asleep", "arm", "load", "clear", "receive", "handle", "hung"}
  /\ caller \in {"loop", "handler"}
  /\ t1_unhandled \in [Octets -> 0 .. Base - 1] /\ missed_ticks \in [Octets -> 0 .. Base - 1]
  /\ todo \subseteq Octets
  /\ timeout \in [heartbeat : 0 .. HeartbeatTime, command : 0 .. CommandTime]
  /\ led \in BOOLEAN /\ wdie \in BOOLEAN /\ late \in BOOLEAN
  /\ watchdog \in 0 .. Period - 1 /\ busy \in 0 .. Busy
  /\ pending \in Seq([behind : Nat, waited : Nat]) /\ Len(pending) <= MaxPending
  /\ {since, due, hung} \subseteq Nat

(* Ticks are counted once: application_periodic is told of all that came     *)
(* since it was called last, but for one that may have come while it copied  *)
(* and cleared the counter (application.c:172-175) and is lost.              *)
Accounted ==
  pc = "clear" => due - 1 <= Value(missed_ticks) /\ Value(missed_ticks) <= due

(* The command LED is lit exactly as long as its timeout runs                *)
(* (application.c:188-194 and 248-249), wherever the ticks go.               *)
LedTimed == led <=> timeout.command > 0

(* A frame does not wait longer than for the turn that is under way, and, for *)
(* each frame that was there before it and for itself, for the tick that      *)
(* wakes the loop and another turn, since a turn takes one frame (main.c:108, *)
(* 118).  The chip does not interrupt for a frame that comes behind others,   *)
(* and may have interrupted for the first just before the loop went to sleep. *)
Prompt ==
  pc # "hung" =>
    \A i \in DOMAIN pending :
      pending[i].waited <= Busy + (pending[i].behind + 1) * (Busy + 1)

(* A loop that hangs is restarted after two timeouts at the latest: the      *)
(* first one interrupts, the second one resets (main.c:97, 109).             *)
HangEnds == hung < 2 * Period

(* Nothing but a hang makes the watchdog restart the board. *)
OnlyHangsRestart == [][Restart => pc = "hung"]_vars

(* The loop comes round again, whatever hangs. *)
TurnsAgain == []<>(pc = "asleep")
===============================================================================
