---------------------------- MODULE GameAbstract ----------------------------
(* One GAME as GameRules describes it: the moves and resignations the      *)
(* session layer may see.                                                  *)
EXTENDS GameRules

VARIABLE game

Init == game = NewGame

Move(role) ==
  /\ game.toMove = role
  /\ game.marks < 9
  /\ \E o \in Outcomes(game, role) : game' = ApplyMove(game, role, o)

Resign(role) == game' = game_resign(game, role)

Next == \E role \in Roles : Move(role) \/ Resign(role)

Spec == Init /\ [][Next]_game
=============================================================================
