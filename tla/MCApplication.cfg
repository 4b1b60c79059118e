\* Sizes as in the code, but numbers of two octets.
SPECIFICATION Spec
CONSTANTS
  Lines <- MCLines
  Commands <- MCCommands
  Table <- MCTable
  application_num_args = 4
  application_length_args = 8
  IndexMod = 256
  temp_cal_size = 4
  light_cal_size = 2
  FloatSize = 2
  Factory <- MCFactory
  ReplySize = 302
  atof <- MCAtof
  atoi <- MCAtoi
  PrintLength <- MCPrintLength
  Widest = 13
  Broken = Broken
  Unknown = Unknown
  MaxCuts = 1
INVARIANTS
  TypeOK
  Parsed
  Durable
  Prefix
  Fits
