\* client_logout reads the game outside CLIENT_INVITE_OP_SEM
CONSTANTS
  c1 = c1  c2 = c2  c3 = c3
  n1 = n1  n2 = n2  n3 = n3
  Client <- TwoClients
  Name <- TwoNames
  NoClient = NoClient
  NoName = NoName
  MaxInv = 2
  Adversarial = FALSE
SPECIFICATION Spec
SYMMETRY SymmetryTwo
INVARIANT LogoutEndsGames
