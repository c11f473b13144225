------------------------------- MODULE JeuxGame -------------------------------
(***************************************************************************)
(* One GAME of game.c on its board: game_create, game_apply_move (which   *)
(* ends with game_is_over) and game_resign.  The operations are called     *)
(* under CLIENT_INVITE_OP_SEM by client_make_move and client_resign_game  *)
(* (and by client_logout's resign), so each is one step here.             *)
(*                                                                         *)
(* game_is_over is translated with its scan order: rows, then columns,    *)
(* then the two diagonals, the first full line deciding the winner.  It   *)
(* is checked against a reference definition of a won board, and the     *)
(* whole game against the abstraction GameAbstract that JeuxSessions uses *)
(* for it.                                                                 *)
(***************************************************************************)
EXTENDS Integers, Sequences, FiniteSets, TLC, GameRules

Squares == 0 .. 8

VARIABLES
  rows,            \* game->rows[9]: 0 empty, else the role that marked it
  current_player,  \* game->current_player
  is_over,         \* game->is_over
  winner,          \* game->winner
  resigned         \* history: a game_resign has taken effect

vars == <<rows, current_player, is_over, winner, resigned>>

\* The lines game_is_over examines, in the order it examines them.
ScanOrder == << <<0, 1, 2>>, <<3, 4, 5>>, <<6, 7, 8>>,
                <<0, 3, 6>>, <<1, 4, 7>>, <<2, 5, 8>>,
                <<0, 4, 8>>, <<2, 4, 6>> >>

Filled(b, l) == b[l[1]] # 0 /\ b[l[1]] = b[l[2]] /\ b[l[2]] = b[l[3]]

\* (mutant) the scan stops before the last diagonal
RECURSIVE FirstFilled_short(_, _)
FirstFilled_short(b, k) ==
  IF k >= Len(ScanOrder) THEN 0
  ELSE IF Filled(b, ScanOrder[k]) THEN k ELSE FirstFilled_short(b, k + 1)

\* The first line in scan order, from the k-th on, that one role has
\* filled; 0 when there is none.
RECURSIVE FirstFilled(_, _)
FirstFilled(b, k) ==
  IF k > Len(ScanOrder) THEN 0
  ELSE IF Filled(b, ScanOrder[k]) THEN k ELSE FirstFilled(b, k + 1)

\* (mutant) the winner is taken from the loop index, not the board
game_is_over_index(b, over, w) ==
  LET k == FirstFilled(b, 1) IN
  IF k # 0 THEN [over |-> TRUE, winner |-> k]
  ELSE IF \A s \in Squares : b[s] # 0 THEN [over |-> TRUE, winner |-> NULL_ROLE]
  ELSE [over |-> over, winner |-> w]

\* game_is_over: the owner of the first filled line wins; with none, a full
\* board is a draw; otherwise is_over and winner keep their values.
game_is_over(b, over, w) ==
  LET k == FirstFilled(b, 1) IN
  IF k # 0 THEN [over |-> TRUE, winner |-> b[ScanOrder[k][1]]]
  ELSE IF \A s \in Squares : b[s] # 0 THEN [over |-> TRUE, winner |-> NULL_ROLE]
  ELSE [over |-> over, winner |-> w]

\* game_create
Init ==
  /\ rows = [s \in Squares |-> 0]
  /\ current_player = FIRST_PLAYER_ROLE
  /\ is_over = FALSE
  /\ winner = NULL_ROLE
  /\ resigned = FALSE

\* (mutant) the turn is not passed to the other role
game_apply_move_noturn(role, s) ==
  LET b == [rows EXCEPT ![s] = role]
      o == game_is_over(b, is_over, winner)
  IN /\ current_player = role
     /\ rows[s] = 0
     /\ rows' = b
     /\ is_over' = o.over
     /\ winner' = o.winner
     /\ UNCHANGED <<resigned, current_player>>

\* game_apply_move: the role must be current_player and the square empty
\* (no check that the game is over); the mark is painted, the turn passes,
\* and game_is_over updates is_over and winner.
game_apply_move(role, s) ==
  LET b == [rows EXCEPT ![s] = role]
      o == game_is_over(b, is_over, winner)
  IN /\ current_player = role
     /\ rows[s] = 0
     /\ rows' = b
     /\ current_player' = Opposite(current_player)
     /\ is_over' = o.over
     /\ winner' = o.winner
     /\ UNCHANGED resigned

\* game_resign: refused once a winner is set; otherwise nobody is to move
\* and the other role wins.
game_resign_board(role) ==
  /\ winner = NULL_ROLE
  /\ current_player' = NULL_ROLE
  /\ is_over' = TRUE
  /\ winner' = Opposite(role)
  /\ resigned' = TRUE
  /\ UNCHANGED rows

-----------------------------------------------------------------------------
(* The move and board strings of game.c.  A C string is a sequence of     *)
(* one-character strings.                                                 *)

Digits == "0" :> 0 @@ "1" :> 1 @@ "2" :> 2 @@ "3" :> 3 @@ "4" :> 4
          @@ "5" :> 5 @@ "6" :> 6 @@ "7" :> 7 @@ "8" :> 8 @@ "9" :> 9

\* the decimal digits at the front of s, as a number
RECURSIVE DigitPrefix(_, _)
DigitPrefix(s, acc) ==
  IF s = <<>> \/ s[1] \notin DOMAIN Digits THEN acc
  ELSE DigitPrefix(Tail(s), 10 * acc + Digits[s[1]])

\* atoi (the inputs hold no white space): an optional sign, then digits
atoi(s) ==
  IF s # <<>> /\ s[1] = "-" THEN -DigitPrefix(Tail(s), 0)
  ELSE IF s # <<>> /\ s[1] = "+" THEN DigitPrefix(Tail(s), 0)
  ELSE DigitPrefix(s, 0)

\* game_parse_move: "d" or "d<-P"; a P of X or O must be the player to
\* move; the square is atoi(str) - 1 and must lie in 0 .. 8.
game_parse_move(role, str) ==
  LET m == atoi(str) - 1
      inRange == m \in Squares
  IN CASE Len(str) = 1 -> [ok |-> inRange, move |-> m]
       [] Len(str) = 4 ->
            [ok |-> /\ str[2] = "<" /\ str[3] = "-"
                    /\ ~(str[4] = "X" /\ current_player # FIRST_PLAYER_ROLE)
                    /\ ~(str[4] = "O" /\ current_player # SECOND_PLAYER_ROLE)
                    /\ inRange,
             move |-> m]
       [] OTHER -> [ok |-> FALSE, move |-> -1]

\* (mutant) the digit printed is move, without the + 1
game_unparse_move_raw(m) == << CHOOSE c \in DOMAIN Digits : Digits[c] = m >>

\* game_unparse_move: the digit move + 1
game_unparse_move(m) == << CHOOSE c \in DOMAIN Digits : Digits[c] = m + 1 >>

\* the character game_unparse_state prints for a square
Cell(v) == IF v = 0 THEN " " ELSE IF v = 1 THEN "X" ELSE "O"

\* (mutant) a separator is printed after the last cell of a row too
RowText_sep(b, r) ==
  <<Cell(b[3 * r]), "|", Cell(b[3 * r + 1]), "|", Cell(b[3 * r + 2]), "|", "\n">>

\* one row of the diagram: the three cells with "|" between them
RowText(b, r) ==
  <<Cell(b[3 * r]), "|", Cell(b[3 * r + 1]), "|", Cell(b[3 * r + 2]), "\n">>

Floor == <<"-", "-", "-", "-", "-", "\n">>
ToMove == <<" ", "t", "o", " ", "m", "o", "v", "e", "\n">>

\* game_unparse_state: three rows separated by floors, then "X to move"
\* when current_player is FIRST_PLAYER_ROLE and "O to move" otherwise
game_unparse_state(b, cp) ==
  RowText(b, 0) \o Floor \o RowText(b, 1) \o Floor \o RowText(b, 2)
    \o <<IF cp = 1 THEN "X" ELSE "O">> \o ToMove

\* client_make_move's use of the game: game_parse_move, then
\* game_apply_move with the parsed square (a refused parse changes nothing)
MakeMove(role, str) ==
  LET p == game_parse_move(role, str) IN
  /\ p.ok
  /\ game_apply_move(role, p.move)

\* move strings a client may send: every one-character string, and the
\* four-character forms with well- and ill-formed separators
Alphabet == DOMAIN Digits \cup {"<", "-", "+", "X", "O", "Z"}
MoveStrings ==
  {<<c>> : c \in Alphabet} \cup {<<>>, <<"1", "2">>}
  \cup {<<d, "<", "-", p>> : d \in DOMAIN Digits, p \in {"X", "O", "Z"}}
  \cup {<<"5", "-", "<", "X">>, <<"+", "5", "<", "-">>}

-----------------------------------------------------------------------------
Next ==
  \E role \in Roles :
    \/ \E str \in MoveStrings : MakeMove(role, str)
    \/ game_resign_board(role)

Spec == Init /\ [][Next]_vars

-----------------------------------------------------------------------------
(* Reference definitions *)

\* the eight lines of a 3x3 board, as sets of squares
Lines == {{3 * i, 3 * i + 1, 3 * i + 2} : i \in 0 .. 2}
           \cup {{i, i + 3, i + 6} : i \in 0 .. 2} \cup {{0, 4, 8}, {2, 4, 6}}
Wins(b, r) == \E l \in Lines : \A s \in l : b[s] = r
Full(b) == \A s \in Squares : b[s] # 0
Marks(b) == Cardinality({s \in Squares : b[s] # 0})

\* The game as the session layer sees it (GameRules.Game).
AbsGame == [on |-> TRUE, toMove |-> current_player, over |-> is_over,
            winner |-> winner, marks |-> Marks(rows)]

Abstract == INSTANCE GameAbstract WITH game <- AbsGame

-----------------------------------------------------------------------------
TypeOK ==
  /\ rows \in [Squares -> {0} \cup Roles]
  /\ current_player \in {NULL_ROLE} \cup Roles
  /\ is_over \in BOOLEAN
  /\ winner \in {NULL_ROLE} \cup Roles
  /\ resigned \in BOOLEAN

\* game_is_over's scan agrees with the definition of a result: a game not
\* resigned is over exactly when a line is filled or the board is full, a
\* winner it reports has a line, and a draw it reports has a full board
\* with no line.
OverMatchesBoard ==
  ~resigned =>
    /\ is_over <=> (\E r \in Roles : Wins(rows, r)) \/ Full(rows)
    /\ winner # NULL_ROLE => Wins(rows, winner)
    /\ is_over /\ winner = NULL_ROLE => ~\E r \in Roles : Wins(rows, r)

\* Spec 8.7, the round trip of move strings: the string game_unparse_move
\* makes for any square is parsed by game_parse_move back to that square,
\* whoever sends it and whoever is to move.
ParseRoundTrip ==
  \A m \in Squares, r \in Roles :
    game_parse_move(r, game_unparse_move(m)) = [ok |-> TRUE, move |-> m]

\* the position of square s in the diagram of spec 4.2, and its reading
DiagramPos(s) == 12 * (s \div 3) + 2 * (s % 3) + 1
ReadCell(c) == CASE c = " " -> 0 [] c = "X" -> 1 [] c = "O" -> 2 [] OTHER -> -1

\* game_unparse_state, applied to every board the game reaches, renders
\* the diagram of spec 4.2: 37 to 50 bytes, a floor line of five dashes
\* between rows, each square's mark at its place, and the player to move
\* named on the last line.
RenderShowsBoard ==
  LET d == game_unparse_state(rows, current_player) IN
  /\ Len(d) \in 37 .. 50
  /\ SubSeq(d, 7, 12) = Floor /\ SubSeq(d, 19, 24) = Floor
  /\ \A s \in Squares : ReadCell(d[DiagramPos(s)]) = rows[s]
  /\ current_player # NULL_ROLE =>
       ReadCell(d[31]) = current_player /\ SubSeq(d, 32, Len(d)) = ToMove

\* The board-level GAME implements the abstraction the session model uses
\* for it (GameRules.Outcomes): every game_apply_move and game_resign is
\* a step GameAbstract allows.
AbstractSpec == Abstract!Spec

=============================================================================
