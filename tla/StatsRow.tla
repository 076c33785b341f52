------------------------------ MODULE StatsRow ------------------------------
(***************************************************************************)
(* What stats_service knows of results and awards: the line of a match in  *)
(* match_history, the counts that a history implies, and the awards of     *)
(* achievement_defs.cpp.  User names, opponents and texts are left out:    *)
(* rows are keyed by user_id.                                              *)
(***************************************************************************)
EXTENDS Leaderboard, Sequences

CONSTANTS
  Users,         \* user ids
  Difficulties,  \* 1 .. 5
  NoTime,        \* a time_seconds that is NULL
  SpeedLimit,    \* seconds per difficulty that a speedster stays below
  OnFire,        \* the streaks that are awarded (5, 10, 25)
  GraduateWins,  \* wins per difficulty of a graduate (20)
  StarPlaces     \* places on the board that make a star (50)

ASSUME StatsAssumption ==
  /\ Users \subseteq Nat /\ Users # {} /\ Difficulties \subseteq Nat /\ Difficulties # {}
  /\ NoTime \notin Int
  /\ SpeedLimit \in [Difficulties -> Nat]
  /\ OnFire \subseteq Nat /\ GraduateWins \in Nat \ {0} /\ StarPlaces \in Nat \ {0}

Mode == {"online", "offline"}
Outcome == {"win", "lose"}

\* The fields of a report that valid_mode, valid_result and valid_diff let pass.
Report == [user : Users, difficulty : Difficulties, mode : Mode,
           result : Outcome, time : Nat \union {NoTime}]

\* A line of match_history: the report and its played_at.
Entry == [user : Users, difficulty : Difficulties, mode : Mode,
          result : Outcome, time : Nat \union {NoTime}, at : Nat]

\* The key of a line of player_stats and weekly_player_stats.
Key == Users \X Difficulties \X Mode
KeyOf(entry) == <<entry.user, entry.difficulty, entry.mode>>

Counts == [wins : Nat, losses : Nat]
NoCounts == [k \in Key |-> [wins |-> 0, losses |-> 0]]

\* The lines of a history with this key and outcome, after the first n lines.
LinesOf(history, n, key, outcome) ==
  {i \in n + 1 .. Len(history) : KeyOf(history[i]) = key /\ history[i].result = outcome}

\* The table of counts that the lines after the first n imply.
TallyAfter(history, n) ==
  [k \in Key |-> [wins   |-> Cardinality(LinesOf(history, n, k, "win")),
                  losses |-> Cardinality(LinesOf(history, n, k, "lose"))]]

\* The counts after the first n lines of the online matches only.
OnlineTallyAfter(history, n) ==
  [k \in Key |-> IF k[3] = "online" THEN TallyAfter(history, n)[k]
                 ELSE [wins |-> 0, losses |-> 0]]

Tally(history) == TallyAfter(history, 0)

\* A user's won and lost online matches.
OnlineOf(history, user, outcome) ==
  {i \in DOMAIN history : /\ history[i].user = user /\ history[i].mode = "online"
                          /\ history[i].result = outcome}

\* check_speedster: won in less than the limit of its difficulty.
Quick(entry) ==
  /\ entry.result = "win" /\ entry.time # NoTime
  /\ entry.time < SpeedLimit[entry.difficulty]

\* The achievement types; a king and a speedster for every difficulty.
Award == {<<"first_win">>, <<"star">>}
         \union ({"speedster", "king"} \X Difficulties)
         \union ({"on_fire"} \X OnFire)
         \union ({"graduate"} \X Mode)

\* The results up to some moment put the user on one of the first places.
OnceWithin(history, user, diffs, place) ==
  \E n \in 0 .. Len(history) :
    RankedWithin(Tally(SubSeq(history, 1, n)), Users, user, diffs, place)

\* The description of each award, said of a history.  Of a streak it says only
\* that there are as many wins.
Deserved(history, user, award) ==
  \/ award = <<"first_win">> /\ OnlineOf(history, user, "win") # {}
  \/ \E d \in Difficulties : /\ award = <<"speedster", d>>
                             /\ \E i \in DOMAIN history :
                                  /\ history[i].user = user /\ history[i].difficulty = d
                                  /\ Quick(history[i])
  \/ \E n \in OnFire : /\ award = <<"on_fire", n>>
                       /\ Cardinality(OnlineOf(history, user, "win")) >= n
  \/ \E m \in Mode : /\ award = <<"graduate", m>>
                     /\ \A d \in Difficulties :
                          Tally(history)[<<user, d, m>>].wins >= GraduateWins
  \/ award = <<"star">> /\ OnceWithin(history, user, Difficulties, StarPlaces)
  \/ \E d \in Difficulties : award = <<"king", d>> /\ OnceWithin(history, user, {d}, 1)
==============================================================================
