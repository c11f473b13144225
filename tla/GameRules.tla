------------------------------ MODULE GameRules ------------------------------
(***************************************************************************)
(* The tic-tac-toe GAME of game.c seen from outside the board: whose turn  *)
(* it is, how many marks are down and what game_is_over has reported.     *)
(* JeuxSessions keeps one such record per accepted invitation; JeuxGame   *)
(* shows the board-level code stays within what is said here.             *)
(***************************************************************************)
EXTENDS Naturals

NULL_ROLE == 0
FIRST_PLAYER_ROLE == 1
SECOND_PLAYER_ROLE == 2
Roles == {FIRST_PLAYER_ROLE, SECOND_PLAYER_ROLE}
Opposite(r) == 3 - r

Game == [on : BOOLEAN, toMove : {0, 1, 2}, over : BOOLEAN,
         winner : {0, 1, 2}, marks : 0 .. 9]
NoGame == [on |-> FALSE, toMove |-> 0, over |-> FALSE, winner |-> 0,
           marks |-> 0]

\* game_create: empty board, FIRST_PLAYER_ROLE to move
NewGame == [on |-> TRUE, toMove |-> FIRST_PLAYER_ROLE, over |-> FALSE,
            winner |-> NULL_ROLE, marks |-> 0]

\* game_resign: refused once a winner is set (a drawn game is not refused)
game_resign(g, role) ==
  IF g.winner # NULL_ROLE THEN g
  ELSE [g EXCEPT !.toMove = NULL_ROLE, !.over = TRUE, !.winner = Opposite(role)]

\* Marks a role has on the board after m moves (FIRST moves first).
MarksOf(role, m) == IF role = FIRST_PLAYER_ROLE THEN (m + 1) \div 2 ELSE m \div 2

\* What game_is_over can report after the mover's mark is painted, as
\* [over, winner]: the game goes on, the mover completes a line (it needs
\* three marks), a full board without a line is a draw, and a line found
\* before is found again.
Outcomes(g, role) ==
  LET m == g.marks + 1
      cases == {<<~g.over /\ m < 9,            FALSE, NULL_ROLE>>,
                <<MarksOf(role, m) >= 3,        TRUE,  role>>,
                <<~g.over /\ m = 9,            TRUE,  NULL_ROLE>>,
                <<g.over,                       TRUE,  g.winner>>}
  IN {[over |-> k[2], winner |-> k[3]] : k \in {x \in cases : x[1]}}

\* game_apply_move followed by game_is_over, seen from outside: the role
\* to move places a mark on a free square (there is one while marks < 9);
\* a terminated game is not refused.
ApplyMove(g, role, o) ==
  [g EXCEPT !.marks = @ + 1, !.toMove = Opposite(role),
            !.over = o.over, !.winner = o.winner]
=============================================================================
