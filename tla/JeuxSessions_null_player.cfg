\* An INVITE after a refused LOGIN
CONSTANTS
  c1 = c1  c2 = c2  c3 = c3
  n1 = n1  n2 = n2  n3 = n3
  Client <- TwoClients
  Name <- TwoNames
  NoClient = NoClient
  NoName = NoName
  MaxInv = 2
  Adversarial = TRUE
SPECIFICATION Spec
SYMMETRY SymmetryTwo
INVARIANT NoNullPlayerInvite
