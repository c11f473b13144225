----------------------------- MODULE MCEloRating -----------------------------
(* Model-checking instance of EloRating: three players, so that a player  *)
(* can meet opponents with different ratings.                            *)
EXTENDS EloRating

CONSTANTS q1, q2, q3

ThreePlayers == {q1, q2, q3}
=============================================================================
