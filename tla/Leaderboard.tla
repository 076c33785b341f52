----------------------------- MODULE Leaderboard -----------------------------
(***************************************************************************)
(* The online leaderboard of stats_service: what a table of wins and       *)
(* losses says about the place of a user.  A table is a function from      *)
(* <<user, difficulty, mode>> to [wins, losses]; it is read by             *)
(* get_leaderboard and get_user_leaderboard_rank, with the difficulties    *)
(* that are summed up as a parameter.                                      *)
(***************************************************************************)
EXTENDS Integers, FiniteSets, Functions

\* The integer square root, digit by digit.
Isqrt[n \in Nat] ==
  IF n < 2 THEN n
  ELSE CHOOSE r \in {2 * q + b : q \in {Isqrt[n \div 4]}, b \in {0, 1}} :
         r * r <= n /\ n < (r + 1) * (r + 1)

(***************************************************************************)
(* wilson_lower_bound * 10000, rounded: with z = 1.96 and n games it is    *)
(*   (wins + z^2/2 - z * sqrt(wins * losses / n + z^2/4)) / (n + z^2),     *)
(* computed in units of 1/10000.  In 32-bit arithmetic it is exact for up  *)
(* to seven wins and seven losses.                                         *)
(***************************************************************************)
Score(wins, losses) ==
  LET n       == wins + losses
      root    == Isqrt[(384160000 \div n) * (wins * losses) + 368947264]
      above   == 10000 * (10000 * wins + 19208 - root)
      below   == 10000 * n + 38416
  IN  IF n = 0 THEN 0 ELSE (2 * above + below) \div (2 * below)

\* The line of a user on the board of the difficulties diffs.
Line(table, user, diffs) ==
  LET total(f) == FoldFunctionOnSet(+, 0, f, diffs)
  IN  [user   |-> user,
       wins   |-> total([d \in diffs |-> table[<<user, d, "online">>].wins]),
       losses |-> total([d \in diffs |-> table[<<user, d, "online">>].losses])]

\* leaderboard_cmp: a stands above b.
Above(a, b) ==
  LET gamesA == a.wins + a.losses
      gamesB == b.wins + b.losses
      scoreA == Score(a.wins, a.losses)
      scoreB == Score(b.wins, b.losses)
  IN  \/ scoreA > scoreB
      \/ scoreA = scoreB /\ gamesA > gamesB
      \/ scoreA = scoreB /\ gamesA = gamesB /\ a.wins > b.wins
      \/ a.wins = b.wins /\ a.losses = b.losses /\ a.user < b.user

\* The lines of the users who have played.
Board(table, users, diffs) ==
  {line \in {Line(table, u, diffs) : u \in users} : line.wins + line.losses > 0}

\* The user's rank on the board is at most place.
RankedWithin(table, users, user, diffs, place) ==
  LET board == Board(table, users, diffs)
      mine  == Line(table, user, diffs)
  IN  /\ mine \in board
      /\ Cardinality({line \in board : Above(line, mine)}) < place
==============================================================================
