\* Octets below 7, a watchdog of six ticks, turns of up to two.
SPECIFICATION Spec
CONSTANTS
  Base = 7
  Period = 6
  Busy = 2
  HeartbeatTime = 2
  CommandTime = 2
  MaxPending = 2
INVARIANTS
  TypeOK
  Accounted
  LedTimed
  Prompt
  HangEnds
PROPERTIES
  OnlyHangsRestart
  TurnsAgain
