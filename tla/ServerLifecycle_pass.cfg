\* Registry capacity under racing registrations, PLAYER references and
\* the login semaphore across LOGIN and logout, and the drain after
\* creg_shutdown_all
CONSTANTS
  k1 = k1  k2 = k2  k3 = k3
  Conn <- ThreeConns
  n1 = n1  n2 = n2  NoName = NoName
  Name <- OneName
  MAX_CLIENTS = 2
SPECIFICATION Spec
INVARIANTS TypeOK LengthBounded PlayerRefsExact LoginSemNotLost
PROPERTY ShutdownDrains
