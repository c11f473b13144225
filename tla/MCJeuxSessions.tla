--------------------------- MODULE MCJeuxSessions ---------------------------
(* Model-checking instance of JeuxSessions: connections and user names are *)
(* model values.                                                           *)
EXTENDS JeuxSessions, TLC

CONSTANTS c1, c2, c3, n1, n2, n3

TwoClients == {c1, c2}
ThreeClients == {c1, c2, c3}
TwoNames == {n1, n2}
ThreeNames == {n1, n2, n3}

\* Connections and names are interchangeable (safety runs only).
SymmetryTwo == Permutations(TwoClients) \cup Permutations(TwoNames)
SymmetryThree == Permutations(ThreeClients) \cup Permutations(ThreeNames)
=============================================================================
