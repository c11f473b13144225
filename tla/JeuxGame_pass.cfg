\* One game on the board: game_is_over against the reference, and the
\* board-level game against the abstraction the session model uses.
SPECIFICATION Spec
INVARIANTS TypeOK OverMatchesBoard ParseRoundTrip RenderShowsBoard
PROPERTY AbstractSpec
\* A finished game (full board, or resigned) has no further operation.
CHECK_DEADLOCK FALSE
