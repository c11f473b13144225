\* Is the total rating preserved by player_post_result?
CONSTANTS
  q1 = q1  q2 = q2  q3 = q3
  Player <- ThreePlayers
  MaxPosts = 3
SPECIFICATION Spec
INVARIANT RatingTotalPreserved
\* The bound on posted results ends every run.
CHECK_DEADLOCK FALSE
