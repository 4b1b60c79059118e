\* One board and a station that sends two frames.
SPECIFICATION Spec
CONSTANTS
  b1 = b1
  b2 = b2
  station = station
  a1 = a1
  a2 = a2
  other = other
  Boards = {b1}
  Stations = {station}
  Addresses = {Zero, Everyone, a1, a2, other}
  Xid <- MCXid
  Assigned <- MCAssigned
  Zero = Zero
  Everyone = Everyone
  Stimuli <- MCStimuli
  MaxStimuli = 2
  MaxWaiting = 2
  BufferSize = 2
PROPERTIES
  Configured
  Silent
