\* Two clients on two hosts and nothing is lost, or one and two segments are lost;
\* the board restarts once.
SPECIFICATION SessionSpec
CONSTANTS
  h1 = h1
  h2 = h2
  Hosts = {h1, h2}
  NoHost = NoHost
  Ports = {1}
  NoPort = 0
  LocalPorts = {23}
  ServedPort = 23
  SeqMod = 16
  stats = stats
  quit = quit
  Payloads = {stats, quit}
  NoData = NoData
  Size <- MCSize
  Answer <- MCAnswer
  NoReply = NoReply
  Iss = {15}
  Callers <- MCCallers
  MaxLoss <- MCMaxLoss
  MaxReboots = 1
INVARIANTS
  SessionTypeOK
  InStep
  RunOnce
PROPERTIES
  AckMeansRun
  Available
  Decided
  Answered
