-------------------------- MODULE MCServerLifecycle --------------------------
(* Model-checking instance of ServerLifecycle: three connections and a     *)
(* registry of two places, so that a connection can find it full and       *)
(* several threads can race past creg_register's unlocked checks.  One   *)
(* user name is enough where PLAYER references are counted (every count   *)
(* is kept per name); two let logins of different names meet.             *)
EXTENDS ServerLifecycle, TLC

CONSTANTS k1, k2, k3, n1, n2

ThreeConns == {k1, k2, k3}
TwoNames == {n1, n2}
OneName == {n1}

\* Connections are interchangeable (safety runs only).
ConnSymmetry == Permutations(ThreeConns)
=============================================================================
