\* Shutdown racing a registration
CONSTANTS
  k1 = k1  k2 = k2  k3 = k3
  Conn <- ThreeConns
  n1 = n1  n2 = n2  NoName = NoName
  Name <- TwoNames
  MAX_CLIENTS = 2
SPECIFICATION Spec

PROPERTY TerminationCompletes
