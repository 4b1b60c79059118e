\* Violated: a late answer to another host ends the connection.
SPECIFICATION SessionSpec
CONSTANTS
  h1 = h1
  h2 = h2
  Hosts = {h1, h2}
  NoHost = NoHost
  Ports = {1}
  NoPort = 0
  LocalPorts = {23}
  ServedPort = 23
  SeqMod = 16
  stats = stats
  quit = quit
  Payloads = {stats}
  NoData = NoData
  Size <- MCSize
  Answer <- MCAnswer
  NoReply = NoReply
  Iss = {0}
  Callers <- MCBoth
  MaxLoss <- MCMaxLoss
  MaxReboots = 0
PROPERTIES
  OtherHostRefused
