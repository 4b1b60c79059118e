\* Two boards and a station that sends a frame.
SPECIFICATION Spec
CONSTANTS
  b1 = b1
  b2 = b2
  station = station
  a1 = a1
  a2 = a2
  other = other
  Boards = {b1, b2}
  Stations = {station}
  Addresses = {Zero, Everyone, a1, a2, other}
  Xid <- MCXid
  Assigned <- MCAssigned
  Zero = Zero
  Everyone = Everyone
  Stimuli <- MCStimuli
  MaxStimuli = 1
  MaxWaiting = 1
  BufferSize = 2
INVARIANTS
  TypeOK
  OwnAddress
