\* The sensors and another slave; sizes as in the code; samples: none, too
\* bright, and with chord and step 4 2, 5 0, 5 7, 5 9: the last one wraps.
SPECIFICATION Spec
CONSTANTS
  Addresses = {0, 57, 72}
  NoAddress = 0
  Sensor = 72
  Light = 57
  Samples = {0, 255, 194, 208, 215, 217}
  Octets = {0, 1, 2}
  MaxWrite = 3
  ReadSize = 8
INVARIANTS
  TypeOK
  Released
  OkMeansWhole
  ErrorTells
  TemperatureRead
  LightRead
  LightRefused
PROPERTIES
  CommandEnds
