------------------------------ MODULE EloRating ------------------------------
(***************************************************************************)
(* Rating updates: post_player_results (client.c) and player_post_result   *)
(* (player.c), applied one at a time under CLIENT_UPDATE_ELO.              *)
(*                                                                         *)
(* The expected score E1 = 1/(1 + 10^((R2-R1)/400)) is a double the model *)
(* cannot compute; 128*E1 is taken as an integer either side of a range  *)
(* that contains it (Expected).  Then 32*(S1-E1) is a multiple of 1/4,    *)
(* kept as integers counting quarter points, and since (int) is monotone  *)
(* the truncations the code makes of the true value are among those of    *)
(* the two neighbouring 128ths.                                            *)
(***************************************************************************)
EXTENDS Integers, FiniteSets, Functions

CONSTANTS
  Player,      \* PLAYER objects
  MaxPosts     \* bound: results posted in a run

\* A post moves each rating by at most 33 points, so ratings stay within
\* 400 of each other, where Expected's bounds hold.
ASSUME MaxPosts \in Nat /\ 66 * MaxPosts <= 400

PLAYER_INITIAL_RATING == 1500

VARIABLES
  rating,      \* player->rating
  posts        \* number of player_post_result calls so far

vars == <<rating, posts>>

Results == {0, 1, 2}   \* draw, player1 won, player2 won

\* 128 * E1 when R1 - R2 = d, 0 < d <= 400.  E1 rises with d and is
\* concave there, so it lies between its chord to d = 400 (E1 = 10/11)
\* and its tangent at 0 (slope ln(10)/1600):
\* 64 + 0.1309 d <= 128 * E1 <= 64 + 0.1843 d; these are the integers
\* from the floor of the lower bound to the ceiling of the upper.
ExpectedAbove(d) ==
  {e \in 64 .. 128 : (e - 63) * 10000 > 1309 * d /\ (e - 65) * 10000 < 1843 * d}

\* 128 * E1 for ratings r1, r2: pow(10, 0) = 1 gives exactly 1/2 for equal
\* ratings, and E1 > 1/2 when R1 > R2 (the exponent (R2-R1)/400 is
\* negative); for R1 < R2, E1 = 1 - E2.
Expected(r1, r2) ==
  IF r1 = r2 THEN {64}
  ELSE IF r1 > r2 THEN ExpectedAbove(r1 - r2)
  ELSE {128 - e : e \in ExpectedAbove(r2 - r1)}

\* 128 * S1
Score(result) == CASE result = 0 -> 64 [] result = 1 -> 128 [] result = 2 -> 0

\* (int) of a double given in quarter points (truncation toward zero)
Trunc(q) == IF q >= 0 THEN q \div 4 ELSE -((-q) \div 4)

\* player_post_result: RP1 = R1 + 32*(S1 - E1) (in quarter points:
\* 4*R1 + 128*S1 - 128*E1); player1 gets (int)RP1 and player2 gets
\* (int)(R3 - RP1), with R3 = R1 + R2.
NewRatings(r1, r2, result, e) ==
  LET rp1 == 4 * r1 + Score(result) - e
  IN <<Trunc(rp1), Trunc(4 * (r1 + r2) - rp1)>>

Init ==
  /\ rating = [p \in Player |-> PLAYER_INITIAL_RATING]
  /\ posts = 0

\* post_player_results with the FIRST player's PLAYER as player1, then
\* player_post_result (a no-op when both are the same PLAYER).
player_post_result(p1, p2, result) ==
  /\ posts < MaxPosts
  /\ p1 # p2
  /\ \E e \in Expected(rating[p1], rating[p2]) :
       LET n == NewRatings(rating[p1], rating[p2], result, e) IN
       rating' = [rating EXCEPT ![p1] = n[1], ![p2] = n[2]]
  /\ posts' = posts + 1

Next == \E p1, p2 \in Player, result \in Results : player_post_result(p1, p2, result)

Spec == Init /\ [][Next]_vars

-----------------------------------------------------------------------------
(* The total of spec 4.3 *)

RatingTotal == FoldFunction(+, 0, rating)

-----------------------------------------------------------------------------
TypeOK ==
  /\ rating \in [Player -> Nat]
  /\ posts \in 0 .. MaxPosts

\* Spec 4.3: player_post_result preserves the total rating of the two
\* players (R2 = R1 + R2 - R1new), so the sum over all players stays put.
RatingTotalPreserved == RatingTotal = PLAYER_INITIAL_RATING * Cardinality(Player)

=============================================================================
