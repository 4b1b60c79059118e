\* A ring that holds two or three frames, in any combination and position.
SPECIFICATION Spec
CONSTANTS
  RingLength = 11
  MaxCount = 3
  Cells <- MCCells
  Frames <- MCFrames
  Garbage <- MCGarbage
  BufferLength = 2
  Crc = 1
  Outgoing <- MCOutgoing
  Control <- MCControl
INVARIANTS
  TypeOK
  NoRoomLost
  SentWhole
  ErrorsCounted
PROPERTIES
  IsQueue
  Delivers
