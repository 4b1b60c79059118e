\* Two hosts with two ports each, the served port and another one.
SPECIFICATION Spec
CONSTANTS
  h1 = h1
  h2 = h2
  Hosts = {h1, h2}
  NoHost = NoHost
  Ports = {1, 2}
  NoPort = 0
  LocalPorts = {23, 80}
  ServedPort = 23
  SeqMod = 3
  stats = stats
  twi = twi
  quit = quit
  Payloads = {stats, twi, quit}
  NoData = NoData
  Size <- MCSize
  Answer <- MCAnswer
  NoReply = NoReply
INVARIANTS
  TypeOK
  ListenIsBlank
PROPERTY
  Implements
