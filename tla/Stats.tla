-------------------------------- MODULE Stats --------------------------------
(***************************************************************************)
(* stats_service: reports of results, the weekly period, win streaks and   *)
(* achievements, over one PostgreSQL database and with several server      *)
(* threads (crow, multithreaded).                                          *)
(*                                                                         *)
(* Every transaction that records a result or looks at the weekly table    *)
(* first locks the line of leaderboard_reset_meta (SELECT ... FOR UPDATE)  *)
(* and keeps it until it commits, so that from the lock to the commit such *)
(* a transaction is one step.  NOW() is the start of the transaction: it   *)
(* is read before the lock, and the order of the starts need not be the    *)
(* order of the commits.  match_history.id is given after the lock: it     *)
(* follows the commits and is the index in history.                        *)
(*                                                                         *)
(* A table without a line for a key is a table with zeros.                 *)
(***************************************************************************)
EXTENDS StatsRow

CONSTANTS
  Handlers,    \* the server threads
  Bodies,      \* the reports that clients send
  WeekLength,  \* ticks of the clock in a week
  MaxReports,  \* bound: reports taken in
  MaxTime,     \* bound: the clock
  MaxFails,    \* bound: queries that fail
  MaxCrashes   \* bound: crashes of the service

ASSUME ServiceAssumption ==
  /\ Bodies \subseteq Report
  /\ WeekLength \in Nat \ {0}
  /\ MaxReports \in Nat /\ MaxTime \in Nat
  /\ MaxFails \in Nat /\ MaxCrashes \in Nat

VARIABLES
  history,  \* match_history
  stats,    \* player_stats: wins and losses
  best,     \* player_stats: best_time_seconds
  weekly,   \* weekly_player_stats
  period,   \* leaderboard_reset_meta: the week of period_start
  streak,   \* online_win_streaks: current_streak
  earned,   \* user_achievements
  job,      \* what each thread is doing
  up,       \* the server runs
  now,      \* the clock of the database
  faults    \* the failed queries and the crashes so far

tables == <<history, stats, best, weekly, period, streak>>
vars == <<tables, earned, job, up, now, faults>>

(***************************************************************************)
(* A thread: where it is, the report it serves with the start of its       *)
(* transaction, and the awards it is going to store.                       *)
(***************************************************************************)

\* The check that follows each check of check_achievements.
After == [first_win |-> "on_fire", on_fire |-> "graduate", graduate |-> "star",
          star |-> "king", king |-> "unlock"]

Place == {"idle", "report", "unlock", "profile", "week"} \union DOMAIN After
AnyEntry == [user |-> CHOOSE u \in Users : TRUE, difficulty |-> CHOOSE d \in Difficulties : TRUE,
             mode |-> "online", result |-> "lose", time |-> NoTime, at |-> 0]
Job == [at : Place, entry : Entry, found : SUBSET (Users \X Award)]
Idle == [at |-> "idle", entry |-> AnyEntry, found |-> {}]

WeekOf(time) == time \div WeekLength

Init ==
  /\ history = <<>> /\ stats = NoCounts /\ best = [k \in Key |-> NoTime]
  /\ weekly = NoCounts /\ period = WeekOf(0) /\ streak = [u \in Users |-> 0]
  /\ earned = {}
  /\ job = [h \in Handlers |-> Idle]
  /\ up = TRUE /\ now = 0 /\ faults = [fails |-> 0, crashes |-> 0]

\* The reports that are being recorded.
Open == {h \in Handlers : job[h].at = "report"}

(***************************************************************************)
(* POST /report                                                            *)
(***************************************************************************)

\* The request is checked and its transaction begins.
Receive(h, body) ==
  /\ up /\ job[h] = Idle
  /\ Len(history) + Cardinality(Open) < MaxReports
  /\ ~(body.mode = "offline" /\ body.result = "win" /\ body.time = NoTime)
  /\ job' = [job EXCEPT ![h] =
       [at    |-> "report", found |-> {},
        entry |-> [user |-> body.user, difficulty |-> body.difficulty, mode |-> body.mode,
                   result |-> body.result, time |-> body.time, at |-> now]]]
  /\ UNCHANGED <<tables, earned, up, now, faults>>

\* ensure_weekly_period of a transaction that started at time.
\* Mutant: any other week than the one shown resets the table.
MutDue(time) == WeekOf(time) # period
Due(time) == WeekOf(time) > period
FreshPeriod(time) == IF Due(time) THEN WeekOf(time) ELSE period
FreshWeekly(time) == IF Due(time) THEN NoCounts ELSE weekly

\* wins and losses of the entry's line go up by its outcome.
\* Mutant: a defeat takes a win back.
MutCounted(table, e) ==
  [table EXCEPT ![KeyOf(e)].wins = IF e.result = "win" THEN @ + 1 ELSE @ - 1]
Counted(table, e) ==
  IF e.result = "win" THEN [table EXCEPT ![KeyOf(e)].wins = @ + 1]
  ELSE [table EXCEPT ![KeyOf(e)].losses = @ + 1]

\* A time that replaces another as the best.
\* Mutant: the last time replaces the best.
MutFaster(time, other) == time # NoTime
Faster(time, other) == time # NoTime /\ (other = NoTime \/ time < other)

\* record_result, up to its commit.
Commit(h) ==
  LET e == job[h].entry
      k == KeyOf(e)
  IN  /\ job[h].at = "report"
      /\ history' = Append(history, e)
      /\ stats' = Counted(stats, e)
      /\ best' = [best EXCEPT ![k] = IF e.result = "win" /\ Faster(e.time, @) THEN e.time ELSE @]
      /\ period' = FreshPeriod(e.at)
      /\ weekly' = IF e.mode = "online" THEN Counted(FreshWeekly(e.at), e)
                   ELSE FreshWeekly(e.at)
      /\ streak' = IF e.mode = "online"
                   THEN [streak EXCEPT ![e.user] = IF e.result = "win" THEN @ + 1 ELSE 0]
                   ELSE streak
      /\ job' = [job EXCEPT ![h] =
           IF e.result = "win" THEN [@ EXCEPT !.at = "first_win"] ELSE Idle]
      /\ UNCHANGED <<earned, up, now, faults>>

(***************************************************************************)
(* Achievements                                                            *)
(***************************************************************************)

\* get_current_streak has reached n.
\* Mutant: one win too early.
MutOnStreak(user, n) == streak[user] + 1 >= n
OnStreak(user, n) == streak[user] >= n

\* What the tables say of an award at this moment.  A speedster is not
\* looked up after a report, but computed from the report.
Holds(user, award) ==
  \/ award = <<"first_win">> /\ \E d \in Difficulties : stats[<<user, d, "online">>].wins >= 1
  \/ \E d \in Difficulties : /\ award = <<"speedster", d>>
                             /\ \E i \in DOMAIN history :
                                  /\ history[i].user = user /\ history[i].difficulty = d
                                  /\ Quick(history[i])
  \/ \E n \in OnFire : award = <<"on_fire", n>> /\ OnStreak(user, n)
  \/ \E m \in Mode : /\ award = <<"graduate", m>>
                     /\ \A d \in Difficulties : stats[<<user, d, m>>].wins >= GraduateWins
  \/ award = <<"star">> /\ RankedWithin(stats, Users, user, Difficulties, StarPlaces)
  \/ \E d \in Difficulties : award = <<"king", d>> /\ RankedWithin(stats, Users, user, {d}, 1)

\* The awards that this check of check_achievements considers for the entry.
Considered(check, e) ==
  CASE check = "first_win" -> (IF e.mode = "online" THEN {<<"first_win">>} ELSE {})
                              \union (IF Quick(e) THEN {<<"speedster", e.difficulty>>} ELSE {})
    [] check = "on_fire"   -> IF e.mode = "online" THEN {"on_fire"} \X OnFire ELSE {}
    [] check = "graduate"  -> {<<"graduate", e.mode>>}
    [] check = "star"      -> {<<"star">>}
    [] check = "king"      -> {<<"king", e.difficulty>>}

\* One check: a query of its own, after the commit of the result.
Check(h) ==
  LET e   == job[h].entry
      new == {a \in Considered(job[h].at, e) : a = <<"speedster", e.difficulty>> \/ Holds(e.user, a)}
  IN  /\ job[h].at \in DOMAIN After
      /\ job' = [job EXCEPT ![h] = [at    |-> After[job[h].at], entry |-> e,
                                    found |-> job[h].found \union ({e.user} \X new)]]
      /\ UNCHANGED <<tables, earned, up, now, faults>>

\* The awards found that stand first in the list of check_achievements.
Listed == [first_win |-> 1, speedster |-> 2, on_fire |-> 3, graduate |-> 4, star |-> 5, king |-> 6]
FirstOf(found) == {g \in found : \A f \in found : Listed[g[2][1]] <= Listed[f[2][1]]}

\* unlock_achievement: the next award found, in a transaction of its own.
Unlock(h) ==
  /\ job[h].at = "unlock"
  /\ \/ job[h].found = {} /\ job' = [job EXCEPT ![h] = Idle] /\ UNCHANGED earned
     \/ \E g \in FirstOf(job[h].found) :
          /\ earned' = earned \union {g}
          /\ job' = [job EXCEPT ![h].found = @ \ {g}]
  /\ UNCHANGED <<tables, up, now, faults>>

\* GET /achievements: what the user deserves now and has not got is found ...
OpenProfile(h, user) ==
  /\ up /\ job[h] = Idle
  /\ job' = [job EXCEPT ![h] = [Idle EXCEPT !.at = "profile",
       !.found = {user} \X {a \in Award : <<user, a>> \notin earned /\ Holds(user, a)}]]
  /\ UNCHANGED <<tables, earned, up, now, faults>>

\* ... and stored when its transaction commits.
\* Mutant: the transaction is not committed.
MutStoreProfile(h) ==
  /\ job[h].at = "profile"
  /\ job' = [job EXCEPT ![h] = Idle]
  /\ UNCHANGED <<tables, earned, up, now, faults>>
StoreProfile(h) ==
  /\ job[h].at = "profile"
  /\ earned' = earned \union job[h].found
  /\ job' = [job EXCEPT ![h] = Idle]
  /\ UNCHANGED <<tables, up, now, faults>>

(***************************************************************************)
(* GET /leaderboard?scope=weekly: a transaction that starts and, when it   *)
(* has the lock, resets the weekly table if its week is over.              *)
(***************************************************************************)
OpenWeekly(h) ==
  /\ up /\ job[h] = Idle
  /\ job' = [job EXCEPT ![h] = [Idle EXCEPT !.at = "week", !.entry = [AnyEntry EXCEPT !.at = now]]]
  /\ UNCHANGED <<tables, earned, up, now, faults>>

ReadWeekly(h) ==
  /\ job[h].at = "week"
  /\ period' = FreshPeriod(job[h].entry.at)
  /\ weekly' = FreshWeekly(job[h].entry.at)
  /\ job' = [job EXCEPT ![h] = Idle]
  /\ UNCHANGED <<history, stats, best, streak, earned, up, now, faults>>

(***************************************************************************)
(* Failures, crashes and starts.                                           *)
(***************************************************************************)

\* A query or a connection fails.  A transaction is rolled back and answered
\* with an error; a failing check is taken for false, a failing connection
\* ends the checks, an award that cannot be stored is dropped.
Fail(h) ==
  /\ job[h] # Idle /\ faults.fails < MaxFails
  /\ \/ /\ job[h].at # "unlock"
        /\ job' = [job EXCEPT ![h] = Idle]
     \/ /\ job[h].at \in DOMAIN After
        /\ job' = [job EXCEPT ![h].at = After[@]]
     \/ /\ job[h].at = "unlock"
        /\ \E g \in FirstOf(job[h].found) : job' = [job EXCEPT ![h].found = @ \ {g}]
  /\ faults' = [faults EXCEPT !.fails = @ + 1]
  /\ UNCHANGED <<tables, earned, up, now>>

Crash ==
  /\ up /\ faults.crashes < MaxCrashes
  /\ up' = FALSE /\ faults' = [faults EXCEPT !.crashes = @ + 1]
  /\ job' = [h \in Handlers |-> Idle]
  /\ UNCHANGED <<tables, earned, now>>

\* Line j is more recent than line i: ORDER BY played_at DESC, id DESC.
\* Mutant: the order is ascending.
MutMoreRecent(j, i) ==
  history[j].at < history[i].at \/ (history[j].at = history[i].at /\ j < i)
MoreRecent(j, i) ==
  history[j].at > history[i].at \/ (history[j].at = history[i].at /\ j > i)

\* The user's wins after the most recent defeat.
Run(user) ==
  {i \in OnlineOf(history, user, "win") :
     \A j \in OnlineOf(history, user, "lose") : MoreRecent(i, j)}

\* The times of the won matches of a line of player_stats.
TimesOf(key) ==
  {history[i].time : i \in {j \in LinesOf(history, 0, key, "win") : history[j].time # NoTime}}

\* create_tables: best times are lowered to those of the history, and the
\* streaks of those who have one are computed again.
Start ==
  /\ ~up
  /\ up' = TRUE
  /\ best' = [k \in Key |->
       IF \E t \in TimesOf(k) : Faster(t, best[k])
       THEN CHOOSE t \in TimesOf(k) : \A s \in TimesOf(k) : t <= s ELSE best[k]]
  /\ streak' = [u \in Users |-> IF Run(u) # {} THEN Cardinality(Run(u)) ELSE streak[u]]
  /\ UNCHANGED <<history, stats, weekly, period, earned, job, now, faults>>

Tick == now < MaxTime /\ now' = now + 1 /\ UNCHANGED <<tables, earned, job, up, faults>>

\* The next step of a request that a thread has begun.
Serve(h) == Commit(h) \/ Check(h) \/ Unlock(h) \/ StoreProfile(h) \/ ReadWeekly(h)

Next ==
  \/ \E h \in Handlers :
       \/ \E body \in Bodies : Receive(h, body)
       \/ \E u \in Users : OpenProfile(h, u)
       \/ OpenWeekly(h) \/ Serve(h) \/ Fail(h)
  \/ Crash \/ Start \/ Tick

Spec == Init /\ [][Next]_vars

(***************************************************************************)
(* Threads serve what they have begun, the container starts the service    *)
(* again, and every user opens the profile again and again.                *)
(***************************************************************************)
Fairness ==
  /\ \A h \in Handlers : WF_vars(Serve(h))
  /\ WF_vars(Start)
  /\ \A u \in Users : SF_vars(\E h \in Handlers : OpenProfile(h, u))

FairSpec == Spec /\ Fairness

(***************************************************************************)
(* Properties                                                              *)
(***************************************************************************)

\* Every table and every thread is well typed.
TypeOK ==
  /\ history \in Seq(Entry)
  /\ stats \in [Key -> Counts] /\ best \in [Key -> Nat \union {NoTime}]
  /\ weekly \in [Key -> Counts] /\ period \in Nat
  /\ streak \in [Users -> Nat]
  /\ earned \subseteq Users \X Award
  /\ job \in [Handlers -> Job]
  /\ up \in BOOLEAN /\ now \in Nat /\ faults \in [fails : Nat, crashes : Nat]

\* The totals and best times are those of the match history, however reports
\* interleave with failures and restarts (record_result writes both tables
\* in one transaction, create_tables repairs best times only).
RowsMatchHistory ==
  /\ stats = Tally(history)
  /\ \A k \in Key : IF TimesOf(k) = {} THEN best[k] = NoTime
                    ELSE best[k] \in TimesOf(k) /\ \A t \in TimesOf(k) : best[k] <= t

\* The weekly board is complete: it counts the online results from some line
\* of the history on, and every result whose transaction started in the week
\* that is shown is among them, although starts and commits are in different
\* orders and readers reset the table too.
WeeklyBoardComplete ==
  \E n \in 0 .. Len(history) :
    /\ weekly = OnlineTallyAfter(history, n)
    /\ \A i \in 1 .. n : WeekOf(history[i].at) < period

\* The online lines of a user, in the order of their ids, are in the order of played_at.
InOrder(user) ==
  \A i, j \in {l \in DOMAIN history : history[l].user = user /\ history[l].mode = "online"} :
    i < j => history[i].at <= history[j].at

\* The user's wins recorded after the last defeat.
LastWins(user) ==
  {i \in OnlineOf(history, user, "win") : \A j \in OnlineOf(history, user, "lose") : j < i}

\* A streak is the number of wins since the last defeat, whether it was
\* counted report by report or computed again by a restart, as long as the
\* user's reports were recorded in the order in which they started.
StreakIsTail == \A u \in Users : InOrder(u) => streak[u] = Cardinality(LastWins(u))

\* The service implements the ledger: results are never changed or lost, an
\* award is never taken back, and is given only to those who deserve it.
Ledger == INSTANCE StatsLedger WITH ledger <- history, awarded <- earned
ImplementsLedger == Ledger!LedgerSpec

\* Whoever has won an online match gets the first-win award, even if the
\* service stopped or failed before it was stored: the next look at the
\* profile makes up for it.
FirstWinComes ==
  \A u \in Users : OnlineOf(history, u, "win") # {} ~> <<u, <<"first_win">> >> \in earned
==============================================================================
