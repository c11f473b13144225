\* Disconnecting sessions are eventually closed
CONSTANTS
  c1 = c1  c2 = c2  c3 = c3
  n1 = n1  n2 = n2  n3 = n3
  Client <- TwoClients
  Name <- TwoNames
  NoClient = NoClient
  NoName = NoName
  MaxInv = 1
  Adversarial = FALSE
SPECIFICATION Spec

PROPERTY LogoutCompletes
\* Deadlock freedom is checked by the safety runs; here a session blocked
\* forever is reported as the progress failure it is.
CHECK_DEADLOCK FALSE
