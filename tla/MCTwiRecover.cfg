\* The function returns, there is no next step.
SPECIFICATION Spec
CONSTANTS
  Octets <- MCOctets
INVARIANTS
  Recovers
CHECK_DEADLOCK FALSE
