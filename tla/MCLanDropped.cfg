\* Violated: a datagram that is dropped is answered.
SPECIFICATION Spec
CONSTANTS
  b1 = b1
  b2 = b2
  station = station
  a1 = a1
  a2 = a2
  other = other
  Boards = {b1, b2}
  Stations = {station}
  Addresses = {Zero, Everyone, a1, a2, other}
  Xid <- MCXid
  Assigned <- MCAssigned
  Zero = Zero
  Everyone = Everyone
  Stimuli <- MCStimuli
  MaxStimuli = 0
  MaxWaiting = 1
  BufferSize = 2
PROPERTIES
  Dropped
