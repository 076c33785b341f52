---------------------------- MODULE Stats_proofs ----------------------------
(***************************************************************************)
(* Proofs about stats_service, for any users, threads, reports, weeks,     *)
(* failures and crashes.                                                   *)
(***************************************************************************)
EXTENDS Stats, FiniteSetTheorems, TLAPS

\* Users and difficulties exist, so the entry of an idle thread is an entry.
LEMMA AnyEntryType == AnyEntry \in Entry
BY StatsAssumption DEF AnyEntry, Entry, Mode, Outcome

LEMMA IdleType == Idle \in Job
BY AnyEntryType DEF Idle, Job, Place

LEMMA KeyType == ASSUME NEW e \in Entry PROVE KeyOf(e) \in Key
BY DEF Entry, Key, KeyOf

\* A new line of the history is a line of its key and outcome, and of no other.
LEMMA LinesOfAppend ==
  ASSUME NEW h \in Seq(Entry), NEW e \in Entry, NEW n \in 0 .. Len(h), NEW k, NEW o
  PROVE  /\ KeyOf(e) = k /\ e.result = o
              => LinesOf(Append(h, e), n, k, o) = LinesOf(h, n, k, o) \union {Len(h) + 1}
         /\ ~(KeyOf(e) = k /\ e.result = o) => LinesOf(Append(h, e), n, k, o) = LinesOf(h, n, k, o)
<1> DEFINE g == Append(h, e)
<1>1. /\ Len(g) = Len(h) + 1 /\ Len(h) \in Nat
      /\ \A i \in 1 .. Len(h) : g[i] = h[i]
      /\ g[Len(h) + 1] = e
  OBVIOUS
<1>2. n + 1 .. Len(g) = (n + 1 .. Len(h)) \union {Len(h) + 1}
  BY <1>1
<1>3. \A i \in n + 1 .. Len(h) : g[i] = h[i]
  BY <1>1
<1> HIDE DEF g
<1>4. QED
  BY <1>1, <1>2, <1>3 DEF g, LinesOf

\* Lines are numbers of the history; there are finitely many.
LEMMA LinesFinite ==
  ASSUME NEW h \in Seq(Entry), NEW n \in Nat, NEW k, NEW o
  PROVE  /\ IsFiniteSet(LinesOf(h, n, k, o)) /\ Cardinality(LinesOf(h, n, k, o)) \in Nat
         /\ Len(h) + 1 \notin LinesOf(h, n, k, o)
<1>1. IsFiniteSet(n + 1 .. Len(h))
  BY FS_Interval
<1>2. LinesOf(h, n, k, o) \subseteq n + 1 .. Len(h)
  BY DEF LinesOf
<1>3. QED
  BY <1>1, <1>2, FS_Subset, FS_CardinalityType

LEMMA TallyType ==
  ASSUME NEW h \in Seq(Entry), NEW n \in Nat
  PROVE  TallyAfter(h, n) \in [Key -> Counts]
BY LinesFinite DEF TallyAfter, Counts

\* Counting an entry, line by line.
LEMMA CountedForm ==
  ASSUME NEW t \in [Key -> Counts], NEW e \in Entry
  PROVE  Counted(t, e) = [k \in Key |-> IF k # KeyOf(e) THEN t[k]
                            ELSE IF e.result = "win" THEN [t[k] EXCEPT !.wins = @ + 1]
                            ELSE [t[k] EXCEPT !.losses = @ + 1]]
<1>1. e.result \in {"win", "lose"} /\ KeyOf(e) \in Key
  BY KeyType DEF Entry, Outcome
<1>2. CASE e.result = "win"
  BY <1>1, <1>2 DEF Counted
<1>3. CASE e.result = "lose"
  BY <1>1, <1>3 DEF Counted
<1>4. QED
  BY <1>1, <1>2, <1>3

\* A table is counted up as the tally of the history is.
LEMMA TallyAppend ==
  ASSUME NEW h \in Seq(Entry), NEW e \in Entry, NEW n \in 0 .. Len(h)
  PROVE  TallyAfter(Append(h, e), n) = Counted(TallyAfter(h, n), e)
<1> DEFINE g == Append(h, e)
           c(k, o) == Cardinality(LinesOf(h, n, k, o))
<1>1. ASSUME NEW k \in Key, NEW o
      PROVE  Cardinality(LinesOf(g, n, k, o)) =
               IF KeyOf(e) = k /\ e.result = o THEN c(k, o) + 1 ELSE c(k, o)
  <2>1. /\ IsFiniteSet(LinesOf(h, n, k, o)) /\ c(k, o) \in Nat
        /\ Len(h) + 1 \notin LinesOf(h, n, k, o)
    BY LinesFinite
  <2>2. Cardinality(LinesOf(h, n, k, o) \union {Len(h) + 1}) = c(k, o) + 1
    BY <2>1, FS_AddElement
  <2>3. CASE KeyOf(e) = k /\ e.result = o
    <3>1. LinesOf(g, n, k, o) = LinesOf(h, n, k, o) \union {Len(h) + 1}
      BY <2>3, LinesOfAppend
    <3>2. QED
      BY <3>1, <2>2, <2>3
  <2>4. CASE ~(KeyOf(e) = k /\ e.result = o)
    <3>1. LinesOf(g, n, k, o) = LinesOf(h, n, k, o)
      BY <2>4, LinesOfAppend
    <3>2. QED
      BY <3>1, <2>4
  <2>5. QED
    BY <2>3, <2>4
<1>2. e.result \in {"win", "lose"} /\ KeyOf(e) \in Key
  BY KeyType DEF Entry, Outcome
<1>3. \A k \in Key : TallyAfter(h, n)[k] = [wins |-> c(k, "win"), losses |-> c(k, "lose")]
  BY DEF TallyAfter
<1>4. \A k \in Key : TallyAfter(g, n)[k] =
        [wins |-> Cardinality(LinesOf(g, n, k, "win")), losses |-> Cardinality(LinesOf(g, n, k, "lose"))]
  BY DEF TallyAfter
<1> DEFINE t == TallyAfter(h, n)
<1>5. t \in [Key -> Counts] /\ TallyAfter(g, n) = [k \in Key |-> TallyAfter(g, n)[k]]
  BY TallyType DEF TallyAfter
<1>6. Counted(t, e) = [k \in Key |-> IF k # KeyOf(e) THEN t[k]
                         ELSE IF e.result = "win" THEN [t[k] EXCEPT !.wins = @ + 1]
                         ELSE [t[k] EXCEPT !.losses = @ + 1]]
  BY <1>5, CountedForm
<1>7. \A k \in Key : Counted(t, e)[k] = TallyAfter(g, n)[k]
  <2> TAKE k \in Key
  <2>1. t[k] = [wins |-> c(k, "win"), losses |-> c(k, "lose")]
    BY <1>3
  <2>2. c(k, "win") \in Nat /\ c(k, "lose") \in Nat
    BY LinesFinite
  <2>3. TallyAfter(g, n)[k] = [wins |-> IF KeyOf(e) = k /\ e.result = "win" THEN c(k, "win") + 1 ELSE c(k, "win"),
                               losses |-> IF KeyOf(e) = k /\ e.result = "lose" THEN c(k, "lose") + 1 ELSE c(k, "lose")]
    BY <1>1, <1>4
  <2> HIDE DEF t, c, g
  <2>4. QED
    BY <1>2, <1>6, <2>1, <2>2, <2>3
<1>8. Counted(t, e) = [k \in Key |-> Counted(t, e)[k]]
  <2> HIDE DEF t
  <2> QED BY <1>6
<1> HIDE DEF t, g
<1>9. [k \in Key |-> Counted(t, e)[k]] = [k \in Key |-> TallyAfter(g, n)[k]]
  BY <1>7
<1>10. QED
  BY <1>5, <1>8, <1>9 DEF t, g

-----------------------------------------------------------------------------
(***************************************************************************)
(* What the steps do.                                                      *)
(***************************************************************************)

\* Only a commit, a look at the weekly board and a start change the tables.
LEMMA TableSteps ==
  ASSUME [Next]_vars
  PROVE  \/ \E h \in Handlers : Commit(h)
         \/ \E h \in Handlers : ReadWeekly(h)
         \/ Start
         \/ UNCHANGED tables
BY DEF Next, vars, Serve, Receive, Check, Unlock, OpenProfile, StoreProfile, OpenWeekly, Fail,
       Crash, Tick

LEMMA AfterType ==
  /\ DOMAIN After = {"first_win", "on_fire", "graduate", "star", "king"}
  /\ \A c \in DOMAIN After : After[c] \in Place
BY DEF After, Place

LEMMA WeekType == ASSUME NEW t \in Nat PROVE WeekOf(t) \in Nat
BY ServiceAssumption DEF WeekOf

LEMMA ConsideredType ==
  ASSUME NEW e \in Entry, NEW c \in DOMAIN After
  PROVE  /\ Considered(c, e) \subseteq Award
         /\ \A d : <<"speedster", d>> \in Considered(c, e) => c = "first_win" /\ Quick(e) /\ d = e.difficulty
<1>1. e.difficulty \in Difficulties /\ e.mode \in Mode
  BY DEF Entry
<1>2. CASE c = "first_win"
  BY <1>1, <1>2 DEF Considered, Award
<1>3. CASE c = "on_fire"
  BY <1>1, <1>3 DEF Considered, Award
<1>4. CASE c = "graduate"
  BY <1>1, <1>4 DEF Considered, Award
<1>5. CASE c = "star"
  BY <1>1, <1>5 DEF Considered, Award
<1>6. CASE c = "king"
  BY <1>1, <1>6 DEF Considered, Award
<1>7. QED
  BY <1>2, <1>3, <1>4, <1>5, <1>6, AfterType

LEMMA CountedType ==
  ASSUME NEW t \in [Key -> Counts], NEW e \in Entry
  PROVE  Counted(t, e) \in [Key -> Counts]
<1>1. KeyOf(e) \in Key /\ t[KeyOf(e)] \in Counts
  BY KeyType
<1>2. QED
  BY <1>1 DEF Counted, Counts

-----------------------------------------------------------------------------
(***************************************************************************)
(* Types, totals and best times.  They are proved together: the start of   *)
(* the service lowers best times to the minimum of the history, which      *)
(* exists only because they are that minimum already.                      *)
(***************************************************************************)
Base == TypeOK /\ RowsMatchHistory

\* The wins of a run, and the online matches of a user, are finitely many.
LEMMA OnlineFinite ==
  ASSUME history \in Seq(Entry), NEW u, NEW o
  PROVE  /\ IsFiniteSet(OnlineOf(history, u, o)) /\ Cardinality(OnlineOf(history, u, o)) \in Nat
         /\ \A S \in SUBSET OnlineOf(history, u, o) :
              /\ IsFiniteSet(S) /\ Cardinality(S) \in Nat
              /\ Cardinality(S) <= Cardinality(OnlineOf(history, u, o))
<1>1. OnlineOf(history, u, o) \subseteq 1 .. Len(history)
  BY DEF OnlineOf
<1>2. IsFiniteSet(1 .. Len(history))
  BY FS_Interval
<1>3. QED
  BY <1>1, <1>2, FS_Subset, FS_CardinalityType

LEMMA TimesType == ASSUME TypeOK, NEW k PROVE TimesOf(k) \subseteq Nat
<1>1. \A i \in 1 .. Len(history) : history[i].time \in Nat \union {NoTime}
  <2>1. \A i \in 1 .. Len(history) : history[i] \in Entry
    BY DEF TypeOK
  <2>2. QED
    BY <2>1 DEF Entry
<1>2. QED
  BY <1>1 DEF TimesOf, LinesOf

\* Best times of the history cannot be lowered.
LEMMA NothingFaster ==
  ASSUME Base, NEW k \in Key, NEW t \in TimesOf(k)
  PROVE  ~Faster(t, best[k])
<1>1. TimesOf(k) # {} /\ best[k] \in TimesOf(k) /\ best[k] <= t
  BY DEF Base, RowsMatchHistory
<1>2. TimesOf(k) \subseteq Nat
  BY TimesType DEF Base
<1>3. NoTime \notin Nat
  BY StatsAssumption
<1>4. QED
  BY <1>1, <1>2, <1>3 DEF Faster

LEMMA StartKeepsBest ==
  ASSUME Base, Start
  PROVE  best' = best
<1>1. \A k \in Key : ~\E t \in TimesOf(k) : Faster(t, best[k])
  BY NothingFaster
<1>2. best \in [Key -> Nat \union {NoTime}]
  BY DEF Base, TypeOK
<1>3. best' = [k \in Key |-> best[k]]
  BY <1>1 DEF Start
<1>4. QED
  BY <1>2, <1>3

LEMMA FreshType ==
  ASSUME TypeOK, NEW t \in Nat
  PROVE  FreshPeriod(t) \in Nat /\ FreshWeekly(t) \in [Key -> Counts]
<1>1. NoCounts \in [Key -> Counts]
  BY DEF NoCounts, Counts
<1>2. QED
  BY <1>1, WeekType DEF FreshPeriod, FreshWeekly, TypeOK

LEMMA TypeInit == Init => TypeOK
<1>1. NoCounts \in [Key -> Counts]
  BY DEF NoCounts, Counts
<1>2. WeekOf(0) \in Nat
  BY WeekType
<1>3. QED
  BY <1>1, <1>2, IdleType DEF Init, TypeOK

LEMMA TypeStep == Base /\ [Next]_vars => TypeOK'
<1> SUFFICES ASSUME Base, [Next]_vars PROVE TypeOK'
  OBVIOUS
<1> USE DEF Base
<1>1. ASSUME NEW h \in Handlers, NEW body \in Bodies, Receive(h, body) PROVE TypeOK'
  <2>1. body \in Report
    BY ServiceAssumption
  <2>2. [user |-> body.user, difficulty |-> body.difficulty, mode |-> body.mode,
         result |-> body.result, time |-> body.time, at |-> now] \in Entry
    BY <2>1 DEF Report, Entry, TypeOK
  <2>3. job' \in [Handlers -> Job]
    BY <1>1, <2>2 DEF Receive, TypeOK, Job, Place
  <2>4. QED
    BY <1>1, <2>3 DEF Receive, tables, TypeOK
<1>2. ASSUME NEW h \in Handlers, NEW u \in Users, OpenProfile(h, u) PROVE TypeOK'
  <2>1. job' \in [Handlers -> Job]
    BY <1>2, IdleType DEF OpenProfile, TypeOK, Job, Place, Idle
  <2>2. QED
    BY <1>2, <2>1 DEF OpenProfile, tables, TypeOK
<1>3. ASSUME NEW h \in Handlers, OpenWeekly(h) PROVE TypeOK'
  <2>1. [AnyEntry EXCEPT !.at = now] \in Entry
    BY AnyEntryType DEF Entry, TypeOK
  <2>2. job' \in [Handlers -> Job]
    BY <1>3, <2>1 DEF OpenWeekly, TypeOK, Job, Place, Idle
  <2>3. QED
    BY <1>3, <2>2 DEF OpenWeekly, tables, TypeOK
<1>4. ASSUME NEW h \in Handlers, Commit(h) PROVE TypeOK'
  <2> DEFINE e == job[h].entry
  <2>1. e \in Entry /\ KeyOf(e) \in Key /\ e.at \in Nat /\ e.user \in Users
        /\ e.time \in Nat \union {NoTime}
    BY KeyType DEF TypeOK, Job, Entry
  <2>2. stats' \in [Key -> Counts]
    BY <1>4, <2>1, CountedType DEF Commit, TypeOK
  <2>3. weekly' \in [Key -> Counts] /\ period' \in Nat
    BY <1>4, <2>1, CountedType, FreshType DEF Commit
  <2>4. history' \in Seq(Entry)
    BY <1>4, <2>1 DEF Commit, TypeOK
  <2>5. best' \in [Key -> Nat \union {NoTime}]
    BY <1>4, <2>1 DEF Commit, TypeOK
  <2>6. streak' \in [Users -> Nat]
    BY <1>4, <2>1 DEF Commit, TypeOK
  <2>7. job' \in [Handlers -> Job]
    BY <1>4, <2>1, IdleType DEF Commit, TypeOK, Job, Place, After
  <2>8. QED
    BY <1>4, <2>2, <2>3, <2>4, <2>5, <2>6, <2>7 DEF Commit, TypeOK
<1>5. ASSUME NEW h \in Handlers, Check(h) PROVE TypeOK'
  <2> DEFINE e == job[h].entry
             new == {a \in Considered(job[h].at, e) : a = <<"speedster", e.difficulty>> \/ Holds(e.user, a)}
  <2>1. e \in Entry /\ e.user \in Users /\ job[h].at \in DOMAIN After
    BY <1>5 DEF Check, TypeOK, Job, Entry
  <2>2. new \subseteq Award
    BY <2>1, ConsideredType
  <2>3. After[job[h].at] \in Place
    BY <2>1, AfterType
  <2> HIDE DEF new
  <2>5. [at |-> After[job[h].at], entry |-> e, found |-> job[h].found \union ({e.user} \X new)] \in Job
    BY <2>1, <2>2, <2>3 DEF TypeOK, Job
  <2>6. job' = [job EXCEPT ![h] = [at |-> After[job[h].at], entry |-> e,
                                   found |-> job[h].found \union ({e.user} \X new)]]
    BY <1>5 DEF Check, new
  <2>7. job' \in [Handlers -> Job]
    BY <2>5, <2>6 DEF TypeOK
  <2>8. QED
    BY <1>5, <2>7 DEF Check, tables, TypeOK
<1>6. ASSUME NEW h \in Handlers, Unlock(h) PROVE TypeOK'
  <2>1. FirstOf(job[h].found) \subseteq Users \X Award /\ job \in [Handlers -> Job]
    BY DEF FirstOf, TypeOK, Job
  <2>2. earned' \subseteq Users \X Award
    BY <1>6, <2>1 DEF Unlock, TypeOK
  <2>3. job' \in [Handlers -> Job]
    BY <1>6, <2>1, IdleType DEF Unlock, Job
  <2>4. QED
    BY <1>6, <2>2, <2>3 DEF Unlock, tables, TypeOK
<1>7. ASSUME NEW h \in Handlers, StoreProfile(h) PROVE TypeOK'
  BY <1>7, IdleType DEF StoreProfile, tables, TypeOK, Job
<1>8. ASSUME NEW h \in Handlers, ReadWeekly(h) PROVE TypeOK'
  <2>1. job[h].entry.at \in Nat
    BY DEF TypeOK, Job, Entry
  <2>2. weekly' \in [Key -> Counts] /\ period' \in Nat
    BY <1>8, <2>1, FreshType DEF ReadWeekly
  <2>3. QED
    BY <1>8, <2>2, IdleType DEF ReadWeekly, TypeOK
<1>9. ASSUME NEW h \in Handlers, Fail(h) PROVE TypeOK'
  <2> job \in [Handlers -> Job] /\ faults \in [fails : Nat, crashes : Nat]
    BY DEF TypeOK
  <2>1. job' \in [Handlers -> Job]
    BY <1>9, IdleType, AfterType DEF Fail, Job
  <2>2. faults' = [faults EXCEPT !.fails = faults.fails + 1]
    BY <1>9 DEF Fail
  <2>3. faults' \in [fails : Nat, crashes : Nat]
    BY <2>2
  <2>4. QED
    BY <1>9, <2>1, <2>3 DEF Fail, tables, TypeOK
<1>10. CASE Crash
  <2> faults \in [fails : Nat, crashes : Nat]
    BY DEF TypeOK
  <2>1. faults' = [faults EXCEPT !.crashes = faults.crashes + 1]
    BY <1>10 DEF Crash
  <2>2. faults' \in [fails : Nat, crashes : Nat]
    BY <2>1
  <2>3. job' \in [Handlers -> Job]
    BY <1>10, IdleType DEF Crash
  <2>4. QED
    BY <1>10, <2>2, <2>3 DEF Crash, tables, TypeOK
<1>11. CASE Start
  <2>1. streak' \in [Users -> Nat]
    BY <1>11, OnlineFinite DEF Start, Run, TypeOK
  <2>2. QED
    BY <1>11, <2>1, StartKeepsBest DEF Start, TypeOK
<1>12. CASE Tick
  BY <1>12 DEF Tick, tables, TypeOK
<1>13. CASE UNCHANGED vars
  BY <1>13 DEF vars, tables, TypeOK
<1>14. QED
  BY <1>1, <1>2, <1>3, <1>4, <1>5, <1>6, <1>7, <1>8, <1>9, <1>10, <1>11, <1>12, <1>13 DEF Next, Serve

\* A commit adds the entry's time to the times of its line, if it is a won match with one.
LEMMA CommitTimes ==
  ASSUME TypeOK, NEW h \in Handlers, Commit(h), NEW k \in Key
  PROVE  TimesOf(k)' = IF /\ KeyOf(job[h].entry) = k /\ job[h].entry.result = "win"
                          /\ job[h].entry.time # NoTime
                       THEN TimesOf(k) \union {job[h].entry.time} ELSE TimesOf(k)
<1> DEFINE e == job[h].entry
           g == Append(history, e)
           L == LinesOf(history, 0, k, "win")
<1>1. history \in Seq(Entry) /\ e \in Entry /\ history' = g
  BY DEF TypeOK, Job, Commit
<1>2. /\ \A i \in L : g[i] = history[i]
      /\ g[Len(history) + 1] = e
  BY <1>1 DEF LinesOf
<1>3. TimesOf(k)' = {g[i].time : i \in {j \in LinesOf(g, 0, k, "win") : g[j].time # NoTime}}
  BY <1>1 DEF TimesOf
<1>4. TimesOf(k) = {history[i].time : i \in {j \in L : history[j].time # NoTime}}
  BY DEF TimesOf
<1>5. /\ KeyOf(e) = k /\ e.result = "win" => LinesOf(g, 0, k, "win") = L \union {Len(history) + 1}
      /\ ~(KeyOf(e) = k /\ e.result = "win") => LinesOf(g, 0, k, "win") = L
  <2>1. 0 \in 0 .. Len(history)
    BY <1>1
  <2>2. CASE KeyOf(e) = k /\ e.result = "win"
    <3>1. LinesOf(g, 0, k, "win") = L \union {Len(history) + 1}
      <4> HIDE DEF e
      <4>1. QED
        BY <1>1, <2>1, <2>2, LinesOfAppend
    <3>2. QED
      BY <3>1, <2>2
  <2>3. CASE ~(KeyOf(e) = k /\ e.result = "win")
    BY <1>1, <2>1, <2>3, LinesOfAppend
  <2>4. QED
    BY <2>2, <2>3
<1> HIDE DEF g, L
<1>6. CASE KeyOf(e) = k /\ e.result = "win"
  BY <1>2, <1>3, <1>4, <1>5, <1>6
<1>7. CASE ~(KeyOf(e) = k /\ e.result = "win")
  BY <1>2, <1>3, <1>4, <1>5, <1>7
<1>8. QED
  BY <1>6, <1>7

LEMMA RowsStep == Base /\ [Next]_vars => RowsMatchHistory'
<1> SUFFICES ASSUME Base, [Next]_vars PROVE RowsMatchHistory'
  OBVIOUS
<1>1. CASE UNCHANGED <<history, stats, best>>
  BY <1>1 DEF Base, RowsMatchHistory, TimesOf
<1>2. ASSUME NEW h \in Handlers, Commit(h) PROVE RowsMatchHistory'
  <2> DEFINE e == job[h].entry
             k0 == KeyOf(e)
  <2>1. history \in Seq(Entry) /\ e \in Entry /\ k0 \in Key /\ history' = Append(history, e)
    BY <1>2, KeyType DEF Base, TypeOK, Job, Commit
  <2>2. stats' = Tally(history)'
    BY <1>2, <2>1, TallyAppend DEF Commit, Tally, Base, RowsMatchHistory
  <2>3. ASSUME NEW k \in Key
        PROVE  (IF TimesOf(k) = {} THEN best[k] = NoTime
                ELSE best[k] \in TimesOf(k) /\ \A t \in TimesOf(k) : best[k] <= t)'
    <3> DEFINE won == k0 = k /\ e.result = "win" /\ e.time # NoTime
    <3>1. TimesOf(k)' = IF won THEN TimesOf(k) \union {e.time} ELSE TimesOf(k)
      BY <1>2, CommitTimes DEF Base
    <3>2. IF TimesOf(k) = {} THEN best[k] = NoTime
          ELSE best[k] \in TimesOf(k) /\ \A t \in TimesOf(k) : best[k] <= t
      BY DEF Base, RowsMatchHistory
    <3>3. best'[k] = IF k = k0 /\ e.result = "win" /\ Faster(e.time, best[k]) THEN e.time ELSE best[k]
      BY <1>2, <2>1 DEF Commit, Base, TypeOK
    <3>4. e.time \in Nat \union {NoTime} /\ NoTime \notin Int
      BY <2>1, StatsAssumption DEF Entry
    <3>5. TimesOf(k) \subseteq Nat
      BY TimesType DEF Base
    <3> DEFINE T == TimesOf(k)
               b == best[k]
    <3> HIDE DEF T, e, k0
    <3>6. CASE ~won
      <4>1. ~Faster(e.time, b) \/ k # k0 \/ e.result # "win"
        BY <3>6 DEF Faster
      <4>2. best'[k] = b /\ TimesOf(k)' = TimesOf(k)
        BY <4>1, <3>1, <3>3, <3>6
      <4>3. QED
        BY <4>2, <3>2
    <3>7. CASE won
      <4>1. TimesOf(k)' = T \union {e.time} /\ e.time \in Nat
        BY <3>1, <3>4, <3>7 DEF T
      <4>2. CASE T = {}
        BY <3>2, <3>3, <3>4, <3>7, <4>1, <4>2 DEF Faster, T
      <4>3. CASE T # {}
        <5>1. b \in T /\ b \in Nat /\ \A t \in T : b <= t /\ t \in Nat
          BY <3>2, <3>5, <4>3 DEF T
        <5>2. best'[k] = IF e.time < b THEN e.time ELSE b
          BY <3>3, <3>4, <3>7, <5>1, <4>1 DEF Faster
        <5>3. QED
          BY <4>1, <5>1, <5>2
      <4>4. QED
        BY <4>2, <4>3
    <3>8. QED
      BY <3>6, <3>7
  <2>4. QED
    BY <2>2, <2>3 DEF RowsMatchHistory
<1>3. CASE Start
  <2>1. UNCHANGED <<history, stats, best>>
    BY <1>3, StartKeepsBest DEF Start
  <2>2. QED
    BY <2>1, <1>1
<1>4. QED
  BY <1>1, <1>2, <1>3, TableSteps DEF ReadWeekly, tables

LEMMA RowsInit == Init => RowsMatchHistory
<1> SUFFICES ASSUME Init PROVE RowsMatchHistory
  OBVIOUS
<1>1. \A k, o : LinesOf(history, 0, k, o) = {}
  BY DEF Init, LinesOf
<1>2. stats = Tally(history)
  BY <1>1, FS_EmptySet DEF Init, NoCounts, Tally, TallyAfter
<1>3. \A k \in Key : TimesOf(k) = {} /\ best[k] = NoTime
  BY <1>1 DEF Init, TimesOf
<1>4. QED
  BY <1>2, <1>3 DEF RowsMatchHistory

LEMMA BaseAlways == Spec => []Base
<1>1. Init => Base
  BY TypeInit, RowsInit DEF Base
<1>2. Base /\ [Next]_vars => Base'
  BY TypeStep, RowsStep DEF Base
<1>3. QED
  BY <1>1, <1>2, PTL DEF Spec

\* Every table and every request is well typed, whatever fails or restarts.
THEOREM StatsTypes == Spec => []TypeOK
<1>1. Base => TypeOK
  BY DEF Base
<1>2. QED
  BY <1>1, BaseAlways, PTL

\* Totals and best times are those of the match history (record_result,
\* create_tables), for any interleaving of reports, failures and restarts.
THEOREM TotalsMatchHistory == Spec => []RowsMatchHistory
<1>1. Base => RowsMatchHistory
  BY DEF Base
<1>2. QED
  BY <1>1, BaseAlways, PTL

-----------------------------------------------------------------------------
(***************************************************************************)
(* The weekly board.  What no line of the history says, and the proof      *)
(* needs: no result is of a later week than the one shown, so that all     *)
(* results that are there when a new week begins are of an earlier one.    *)
(***************************************************************************)
NoneAhead == \A i \in DOMAIN history : WeekOf(history[i].at) <= period

WeeklyInv == NoneAhead /\ WeeklyBoardComplete

LEMMA OnlineTallyType ==
  ASSUME NEW h \in Seq(Entry), NEW n \in Nat
  PROVE  OnlineTallyAfter(h, n) \in [Key -> Counts]
BY TallyType DEF OnlineTallyAfter, Counts

LEMMA OnlineTallyAppend ==
  ASSUME NEW h \in Seq(Entry), NEW e \in Entry, NEW n \in 0 .. Len(h)
  PROVE  OnlineTallyAfter(Append(h, e), n) =
           IF e.mode = "online" THEN Counted(OnlineTallyAfter(h, n), e) ELSE OnlineTallyAfter(h, n)
<1> DEFINE t == TallyAfter(h, n)
           s == OnlineTallyAfter(h, n)
           u == OnlineTallyAfter(Append(h, e), n)
           k0 == KeyOf(e)
<1>1. t \in [Key -> Counts] /\ s \in [Key -> Counts] /\ n \in Nat
  BY TallyType, OnlineTallyType
<1>2. u = [k \in Key |-> IF k[3] = "online" THEN Counted(t, e)[k] ELSE [wins |-> 0, losses |-> 0]]
  BY TallyAppend DEF OnlineTallyAfter
<1>3. s = [k \in Key |-> IF k[3] = "online" THEN t[k] ELSE [wins |-> 0, losses |-> 0]]
  BY DEF OnlineTallyAfter
<1>4. Counted(t, e) = [k \in Key |-> IF k # k0 THEN t[k]
                         ELSE IF e.result = "win" THEN [t[k] EXCEPT !.wins = @ + 1]
                         ELSE [t[k] EXCEPT !.losses = @ + 1]]
  BY <1>1, CountedForm
<1>5. Counted(s, e) = [k \in Key |-> IF k # k0 THEN s[k]
                         ELSE IF e.result = "win" THEN [s[k] EXCEPT !.wins = @ + 1]
                         ELSE [s[k] EXCEPT !.losses = @ + 1]]
  BY <1>1, CountedForm
<1>6. k0[3] = e.mode
  BY DEF KeyOf
<1> HIDE DEF t, s, u, k0
<1>7. CASE e.mode = "online"
  <2>1. \A k \in Key : u[k] = Counted(s, e)[k]
    BY <1>2, <1>3, <1>4, <1>5, <1>6, <1>7
  <2>2. u = [k \in Key |-> u[k]] /\ Counted(s, e) = [k \in Key |-> Counted(s, e)[k]]
    BY <1>2, <1>5
  <2>3. u = Counted(s, e)
    BY <2>1, <2>2
  <2>4. QED
    BY <2>3, <1>7 DEF u, s
<1>8. CASE e.mode # "online"
  <2>1. \A k \in Key : u[k] = s[k]
    BY <1>2, <1>3, <1>4, <1>6, <1>8
  <2>2. u = [k \in Key |-> u[k]] /\ s = [k \in Key |-> s[k]]
    BY <1>2, <1>3
  <2>3. u = s
    BY <2>1, <2>2
  <2>4. QED
    BY <2>3, <1>8 DEF u, s
<1>9. QED
  BY <1>7, <1>8

LEMMA OnlineTallyEmpty ==
  ASSUME NEW h \in Seq(Entry) PROVE OnlineTallyAfter(h, Len(h)) = NoCounts
<1>1. \A k, o : LinesOf(h, Len(h), k, o) = {}
  BY DEF LinesOf
<1>2. QED
  BY <1>1, FS_EmptySet DEF OnlineTallyAfter, TallyAfter, NoCounts

LEMMA HistoryWeeks ==
  ASSUME TypeOK
  PROVE  /\ DOMAIN history = 1 .. Len(history)
         /\ \A i \in 1 .. Len(history) : WeekOf(history[i].at) \in Nat
<1>1. \A i \in 1 .. Len(history) : history[i].at \in Nat
  <2>1. \A i \in 1 .. Len(history) : history[i] \in Entry
    BY DEF TypeOK
  <2>2. QED
    BY <2>1 DEF Entry
<1>2. \A i \in 1 .. Len(history) : WeekOf(history[i].at) \in Nat
  BY <1>1, WeekType
<1>3. history \in Seq(Entry)
  BY DEF TypeOK
<1>4. QED
  BY <1>2, <1>3

\* After the reset of a transaction the board counts the lines after some n still.
LEMMA FreshComplete ==
  ASSUME TypeOK, WeeklyInv, NEW t \in Nat
  PROVE  /\ WeekOf(t) <= FreshPeriod(t) /\ period <= FreshPeriod(t)
         /\ \E n \in 0 .. Len(history) :
              /\ FreshWeekly(t) = OnlineTallyAfter(history, n)
              /\ \A i \in 1 .. n : WeekOf(history[i].at) < FreshPeriod(t)
<1> history \in Seq(Entry) /\ period \in Nat /\ WeekOf(t) \in Nat
  BY WeekType DEF TypeOK
<1>0. \A i \in DOMAIN history : WeekOf(history[i].at) \in Nat
  BY HistoryWeeks
<1>1. CASE Due(t)
  <2>1. FreshPeriod(t) = WeekOf(t) /\ FreshWeekly(t) = NoCounts /\ period < WeekOf(t)
    BY <1>1 DEF FreshPeriod, FreshWeekly, Due
  <2>2. \A i \in 1 .. Len(history) : WeekOf(history[i].at) < WeekOf(t)
    BY <1>0, <2>1 DEF WeeklyInv, NoneAhead
  <2>3. Len(history) \in 0 .. Len(history)
    OBVIOUS
  <2>4. QED
    BY <2>1, <2>2, <2>3, OnlineTallyEmpty
<1>2. CASE ~Due(t)
  BY <1>2 DEF FreshPeriod, FreshWeekly, Due, WeeklyInv, WeeklyBoardComplete
<1>3. QED
  BY <1>1, <1>2

LEMMA WeeklyStep == Base /\ WeeklyInv /\ [Next]_vars => WeeklyInv'
<1> SUFFICES ASSUME Base, WeeklyInv, [Next]_vars PROVE WeeklyInv'
  OBVIOUS
<1>1. CASE UNCHANGED <<history, weekly, period>>
  BY <1>1 DEF WeeklyInv, NoneAhead, WeeklyBoardComplete
<1>2. ASSUME NEW h \in Handlers, Commit(h) PROVE WeeklyInv'
  <2> DEFINE e == job[h].entry
             g == Append(history, e)
  <2>1. history \in Seq(Entry) /\ e \in Entry /\ e.at \in Nat /\ history' = g /\ period \in Nat
        /\ FreshPeriod(e.at) \in Nat
    BY <1>2, FreshType DEF Base, TypeOK, Job, Entry, Commit
  <2>2. PICK n \in 0 .. Len(history) :
          /\ FreshWeekly(e.at) = OnlineTallyAfter(history, n)
          /\ \A i \in 1 .. n : WeekOf(history[i].at) < FreshPeriod(e.at)
    BY <2>1, FreshComplete DEF Base
  <2>3. WeekOf(e.at) <= FreshPeriod(e.at) /\ period <= FreshPeriod(e.at)
    BY <2>1, FreshComplete DEF Base
  <2>4. period' = FreshPeriod(e.at)
    BY <1>2 DEF Commit
  <2>5. weekly' = OnlineTallyAfter(g, n)
    BY <1>2, <2>1, <2>2, OnlineTallyAppend DEF Commit
  <2>6. /\ Len(g) = Len(history) + 1 /\ g[Len(history) + 1] = e
        /\ \A i \in 1 .. Len(history) : g[i] = history[i]
    BY <2>1
  <2>7. \A i \in 1 .. Len(history) : WeekOf(history[i].at) \in Nat /\ WeekOf(history[i].at) <= period
    BY HistoryWeeks DEF Base, WeeklyInv, NoneAhead
  <2> HIDE DEF g, e
  <2>8. \A i \in 1 .. Len(g) : WeekOf(g[i].at) <= FreshPeriod(e.at)
    <3>1. \A i \in 1 .. Len(history) : WeekOf(g[i].at) <= FreshPeriod(e.at)
      <4> DEFINE p == FreshPeriod(e.at)
      <4>1. p \in Nat /\ period \in Nat /\ period <= p
        BY <2>1, <2>3
      <4> HIDE DEF p
      <4>2. \A i \in 1 .. Len(history) : WeekOf(g[i].at) <= p
        BY <4>1, <2>6, <2>7
      <4>3. QED
        BY <4>2 DEF p
    <3>2. 1 .. Len(g) = (1 .. Len(history)) \union {Len(history) + 1}
      BY <2>1, <2>6
    <3>3. QED
      BY <3>1, <3>2, <2>3, <2>6
  <2>9. DOMAIN g = 1 .. Len(g)
    BY <2>1 DEF g
  <2>10. NoneAhead'
    BY <2>1, <2>4, <2>8, <2>9 DEF NoneAhead, WeekOf
  <2>11. n \in 0 .. Len(g) /\ \A i \in 1 .. n : WeekOf(g[i].at) < FreshPeriod(e.at)
    BY <2>1, <2>2, <2>6
  <2>12. WeeklyBoardComplete'
    BY <2>1, <2>4, <2>5, <2>11 DEF WeeklyBoardComplete, WeekOf
  <2>13. QED
    BY <2>10, <2>12 DEF WeeklyInv
<1>3. ASSUME NEW h \in Handlers, ReadWeekly(h) PROVE WeeklyInv'
  <2> DEFINE t == job[h].entry.at
  <2>1. t \in Nat /\ FreshPeriod(t) \in Nat /\ period \in Nat /\ history \in Seq(Entry)
    BY FreshType DEF Base, TypeOK, Job, Entry
  <2>2. period' = FreshPeriod(t) /\ weekly' = FreshWeekly(t) /\ history' = history
    BY <1>3 DEF ReadWeekly
  <2> HIDE DEF t
  <2>3. NoneAhead'
    <3>1. \A i \in DOMAIN history : WeekOf(history[i].at) \in Nat
      BY HistoryWeeks DEF Base
    <3>2. period <= FreshPeriod(t)
      BY <2>1, FreshComplete DEF Base
    <3>3. QED
      BY <2>1, <2>2, <3>1, <3>2 DEF NoneAhead, WeeklyInv, WeekOf
  <2>4. WeeklyBoardComplete'
    BY <2>1, <2>2, FreshComplete DEF Base, WeeklyBoardComplete, WeekOf
  <2>5. QED
    BY <2>3, <2>4 DEF WeeklyInv
<1>4. QED
  BY <1>1, <1>2, <1>3, TableSteps DEF tables, Start

LEMMA WeeklyInit == Init => WeeklyInv
<1> SUFFICES ASSUME Init PROVE WeeklyInv
  OBVIOUS
<1>1. <<>> \in Seq(Entry) /\ Len(<<>>) = 0 /\ history = <<>> /\ weekly = NoCounts
  BY DEF Init
<1>2. weekly = OnlineTallyAfter(history, 0)
  BY <1>1, OnlineTallyEmpty
<1>3. QED
  BY <1>1, <1>2 DEF WeeklyInv, NoneAhead, WeeklyBoardComplete

\* The weekly board counts every online result of the week it shows
\* (record_result, get_leaderboard and ensure_weekly_period), whatever the
\* order in which transactions start and commit.
THEOREM WeeklyBoard == Spec => []WeeklyBoardComplete
<1>1. Init => WeeklyInv
  BY WeeklyInit
<1>2. Base /\ WeeklyInv /\ [Next]_vars => WeeklyInv'
  BY WeeklyStep
<1>3. WeeklyInv => WeeklyBoardComplete
  BY DEF WeeklyInv
<1>4. QED
  BY <1>1, <1>2, <1>3, BaseAlways, PTL DEF Spec

-----------------------------------------------------------------------------
(***************************************************************************)
(* Streaks.  A start computes a streak from the order of played_at, a      *)
(* report counts in the order of the commits.                              *)
(***************************************************************************)

\* What a commit makes of the online matches of a user.
LEMMA CommitOnline ==
  ASSUME TypeOK, NEW h \in Handlers, Commit(h), NEW u \in Users, NEW o
  PROVE  LET e == job[h].entry
         IN  OnlineOf(history', u, o) =
               IF e.user = u /\ e.mode = "online" /\ e.result = o
               THEN OnlineOf(history, u, o) \union {Len(history) + 1}
               ELSE OnlineOf(history, u, o)
<1> DEFINE e == job[h].entry
           g == Append(history, e)
<1>1. history \in Seq(Entry) /\ e \in Entry /\ history' = g
  BY DEF TypeOK, Job, Commit
<1>2. /\ DOMAIN g = (DOMAIN history) \union {Len(history) + 1} /\ g[Len(history) + 1] = e
      /\ \A i \in DOMAIN history : g[i] = history[i]
  BY <1>1
<1> HIDE DEF g
<1>3. OnlineOf(g, u, o) =
        IF e.user = u /\ e.mode = "online" /\ e.result = o
        THEN OnlineOf(history, u, o) \union {Len(history) + 1}
        ELSE OnlineOf(history, u, o)
  BY <1>2 DEF OnlineOf
<1>4. QED
  BY <1>1, <1>3

\* If the lines are in order, the run that a start computes is the wins after the last defeat.
LEMMA RunInOrder ==
  ASSUME TypeOK, NEW u \in Users, InOrder(u)
  PROVE  Run(u) = LastWins(u)
<1>1. \A i \in DOMAIN history : history[i].at \in Nat /\ i \in Nat
  <2>1. DOMAIN history = 1 .. Len(history) /\ \A i \in 1 .. Len(history) : history[i] \in Entry
    BY DEF TypeOK
  <2>2. QED
    BY <2>1 DEF Entry
<1>2. ASSUME NEW i \in OnlineOf(history, u, "win"), NEW j \in OnlineOf(history, u, "lose")
      PROVE  MoreRecent(i, j) <=> j < i
  <2>1. i \in DOMAIN history /\ j \in DOMAIN history /\ i # j
    BY DEF OnlineOf
  <2>2. i < j => history[i].at <= history[j].at
    BY DEF InOrder, OnlineOf
  <2>3. j < i => history[j].at <= history[i].at
    BY DEF InOrder, OnlineOf
  <2>4. QED
    BY <1>1, <2>1, <2>2, <2>3 DEF MoreRecent
<1>3. QED
  BY <1>2 DEF Run, LastWins

LEMMA StreakStep == Base /\ StreakIsTail /\ [Next]_vars => StreakIsTail'
<1> SUFFICES ASSUME Base, StreakIsTail, [Next]_vars PROVE StreakIsTail'
  OBVIOUS
<1>1. CASE UNCHANGED <<history, streak>>
  BY <1>1 DEF StreakIsTail, InOrder, LastWins
<1>2. ASSUME NEW h \in Handlers, Commit(h), NEW u \in Users, InOrder(u)'
      PROVE  streak'[u] = Cardinality(LastWins(u)')
  <2> DEFINE e == job[h].entry
             W == OnlineOf(history, u, "win")
             D == OnlineOf(history, u, "lose")
             n == Len(history) + 1
  <2>1. history \in Seq(Entry) /\ e \in Entry /\ history' = Append(history, e) /\ streak \in [Users -> Nat]
    BY <1>2 DEF Base, TypeOK, Job, Commit
  <2>2. InOrder(u)
    <3>1. /\ DOMAIN history \subseteq DOMAIN history'
          /\ \A i \in DOMAIN history : history'[i] = history[i]
      BY <2>1
    <3>2. QED
      BY <1>2, <3>1 DEF InOrder
  <2>3. streak[u] = Cardinality(LastWins(u))
    BY <2>2 DEF StreakIsTail
  <2>4. /\ OnlineOf(history', u, "win") =
             IF e.user = u /\ e.mode = "online" /\ e.result = "win" THEN W \union {n} ELSE W
        /\ OnlineOf(history', u, "lose") =
             IF e.user = u /\ e.mode = "online" /\ e.result = "lose" THEN D \union {n} ELSE D
    BY <1>2, CommitOnline DEF Base
  <2>5. (\A i \in W \union D : i \in Nat /\ i < n) /\ n \in Nat
    BY <2>1 DEF OnlineOf
  <2>6. LastWins(u)' = {i \in OnlineOf(history', u, "win") : \A j \in OnlineOf(history', u, "lose") : j < i}
    BY DEF LastWins
  <2>7. LastWins(u) = {i \in W : \A j \in D : j < i}
    BY DEF LastWins
  <2>8. IsFiniteSet(LastWins(u)) /\ Cardinality(LastWins(u)) \in Nat /\ n \notin LastWins(u)
    BY <2>1, <2>5, <2>7, OnlineFinite
  <2>9. streak' = IF e.mode = "online"
                  THEN [streak EXCEPT ![e.user] = IF e.result = "win" THEN @ + 1 ELSE 0] ELSE streak
    BY <1>2 DEF Commit
  <2>10. e.result \in {"win", "lose"} /\ e.user \in Users
    BY <2>1 DEF Entry, Outcome
  <2> HIDE DEF e, W, D, n
  <2>11. CASE e.user = u /\ e.mode = "online" /\ e.result = "win"
    <3>1. LastWins(u)' = LastWins(u) \union {n}
      BY <2>4, <2>5, <2>6, <2>7, <2>11
    <3>2. Cardinality(LastWins(u)') = Cardinality(LastWins(u)) + 1
      BY <3>1, <2>8, FS_AddElement
    <3>3. QED
      BY <2>1, <2>3, <2>9, <2>11, <3>2
  <2>12. CASE e.user = u /\ e.mode = "online" /\ e.result = "lose"
    <3>1. LastWins(u)' = {}
      BY <2>4, <2>5, <2>6, <2>12
    <3>2. QED
      BY <2>1, <2>9, <2>12, <3>1, FS_EmptySet
  <2>13. CASE ~(e.user = u /\ e.mode = "online")
    <3>1. LastWins(u)' = LastWins(u)
      BY <2>4, <2>6, <2>7, <2>13
    <3>2. streak'[u] = streak[u]
      BY <2>1, <2>9, <2>10, <2>13
    <3>3. QED
      BY <2>3, <3>1, <3>2
  <2>14. QED
    BY <2>10, <2>11, <2>12, <2>13
<1>3. ASSUME Start, NEW u \in Users, InOrder(u)'
      PROVE  streak'[u] = Cardinality(LastWins(u)')
  <2>1. history' = history /\ streak' = [v \in Users |-> IF Run(v) # {} THEN Cardinality(Run(v)) ELSE streak[v]]
    BY <1>3 DEF Start
  <2>2. InOrder(u) /\ LastWins(u)' = LastWins(u)
    BY <1>3, <2>1 DEF InOrder, LastWins
  <2>3. Run(u) = LastWins(u)
    BY <2>2, RunInOrder DEF Base
  <2>4. streak[u] = Cardinality(LastWins(u))
    BY <2>2 DEF StreakIsTail
  <2>5. QED
    BY <2>1, <2>2, <2>3, <2>4
<1>4. CASE Start
  BY <1>3, <1>4 DEF StreakIsTail
<1>5. ASSUME NEW h \in Handlers, Commit(h) PROVE StreakIsTail'
  BY <1>2, <1>5 DEF StreakIsTail
<1>6. QED
  BY <1>1, <1>4, <1>5, TableSteps DEF ReadWeekly, tables

LEMMA StreakInit == Init => StreakIsTail
<1> SUFFICES ASSUME Init PROVE StreakIsTail
  OBVIOUS
<1>1. \A u \in Users : LastWins(u) = {} /\ streak[u] = 0
  BY DEF Init, LastWins, OnlineOf
<1>2. QED
  BY <1>1, FS_EmptySet DEF StreakIsTail

\* A streak is the number of wins since the last defeat, counted report by
\* report (record_result) or again by a start (create_tables), for reports
\* that were recorded in the order in which they started.
THEOREM StreaksCountTheTail == Spec => []StreakIsTail
<1>1. Base /\ StreakIsTail /\ [Next]_vars => StreakIsTail'
  BY StreakStep
<1>2. QED
  BY <1>1, StreakInit, BaseAlways, PTL DEF Spec

-----------------------------------------------------------------------------
(***************************************************************************)
(* Awards.  A thread checks them in tables that move on while it works,    *)
(* and stores what it has found later: what is found stays deserved,       *)
(* because a ledger that grows deserves no less.                           *)
(***************************************************************************)
AwardInv ==
  /\ \A g \in earned : Deserved(history, g[1], g[2])
  /\ \A h \in Handlers : \A g \in job[h].found : Deserved(history, g[1], g[2])
  /\ \A h \in Handlers : job[h].at \in DOMAIN After
       => \E i \in DOMAIN history : history[i] = job[h].entry
  /\ \A u \in Users : streak[u] <= Cardinality(OnlineOf(history, u, "win"))

\* A longer history has no fewer wins.
LEMMA TallyGrows ==
  ASSUME NEW h \in Seq(Entry), NEW e \in Entry, NEW k \in Key
  PROVE  /\ Tally(h)[k].wins \in Nat /\ Tally(Append(h, e))[k].wins \in Nat
         /\ Tally(h)[k].wins <= Tally(Append(h, e))[k].wins
<1> DEFINE t == Tally(h)
<1>1. t \in [Key -> Counts] /\ Tally(Append(h, e)) = Counted(t, e)
  BY TallyType, TallyAppend DEF Tally
<1>2. Counted(t, e) = [j \in Key |-> IF j # KeyOf(e) THEN t[j]
                         ELSE IF e.result = "win" THEN [t[j] EXCEPT !.wins = @ + 1]
                         ELSE [t[j] EXCEPT !.losses = @ + 1]]
  BY <1>1, CountedForm
<1> HIDE DEF t
<1>3. t[k] \in Counts
  BY <1>1
<1>4. QED
  BY <1>1, <1>2, <1>3 DEF Counts, t

\* What was deserved stays deserved when a result is recorded.
LEMMA DeservedGrows ==
  ASSUME NEW h \in Seq(Entry), NEW e \in Entry, NEW u \in Users, NEW a, Deserved(h, u, a)
  PROVE  Deserved(Append(h, e), u, a)
<1> DEFINE g == Append(h, e)
<1>1. /\ DOMAIN h = 1 .. Len(h) /\ DOMAIN g = 1 .. Len(h) + 1 /\ Len(h) \in Nat
      /\ Len(g) = Len(h) + 1 /\ \A i \in DOMAIN h : i \in DOMAIN g /\ g[i] = h[i]
  OBVIOUS
<1>2. OnlineOf(h, u, "win") \subseteq OnlineOf(g, u, "win")
  BY <1>1 DEF OnlineOf
<1>3. CASE a = <<"first_win">> /\ OnlineOf(h, u, "win") # {}
  BY <1>2, <1>3 DEF Deserved
<1>4. ASSUME NEW d \in Difficulties, a = <<"speedster", d>>, NEW i \in DOMAIN h,
             h[i].user = u, h[i].difficulty = d, Quick(h[i])
      PROVE  Deserved(g, u, a)
  <2>1. i \in DOMAIN g /\ g[i] = h[i]
    BY <1>1
  <2> HIDE DEF g
  <2>2. QED
    BY <1>4, <2>1 DEF Deserved
<1>5. ASSUME NEW n \in OnFire, a = <<"on_fire", n>>, Cardinality(OnlineOf(h, u, "win")) >= n
      PROVE  Deserved(g, u, a)
  <2>1. OnlineOf(g, u, "win") \subseteq 1 .. Len(g) /\ IsFiniteSet(1 .. Len(g))
    BY FS_Interval DEF OnlineOf
  <2>2. /\ Cardinality(OnlineOf(h, u, "win")) \in Nat /\ Cardinality(OnlineOf(g, u, "win")) \in Nat
        /\ Cardinality(OnlineOf(h, u, "win")) <= Cardinality(OnlineOf(g, u, "win"))
    BY <1>2, <2>1, FS_Subset, FS_CardinalityType
  <2>3. n \in Nat
    BY StatsAssumption
  <2>4. Cardinality(OnlineOf(g, u, "win")) >= n
    BY <1>5, <2>2, <2>3
  <2> HIDE DEF g
  <2>5. QED
    BY <1>5, <2>4 DEF Deserved
<1>6. ASSUME NEW m \in Mode, a = <<"graduate", m>>,
             \A d \in Difficulties : Tally(h)[<<u, d, m>>].wins >= GraduateWins
      PROVE  Deserved(g, u, a)
  <2>1. \A d \in Difficulties : Tally(g)[<<u, d, m>>].wins >= GraduateWins
    <3> TAKE d \in Difficulties
    <3>1. <<u, d, m>> \in Key
      BY DEF Key
    <3>2. /\ Tally(h)[<<u, d, m>>].wins \in Nat /\ Tally(g)[<<u, d, m>>].wins \in Nat
          /\ Tally(h)[<<u, d, m>>].wins <= Tally(g)[<<u, d, m>>].wins
      BY <3>1, TallyGrows
    <3>3. Tally(h)[<<u, d, m>>].wins >= GraduateWins /\ GraduateWins \in Nat
      BY <1>6, StatsAssumption
    <3> HIDE DEF g
    <3>4. QED
      BY <3>2, <3>3
  <2> HIDE DEF g
  <2>2. QED
    BY <1>6, <2>1 DEF Deserved
<1>7. ASSUME NEW diffs, NEW place, OnceWithin(h, u, diffs, place)
      PROVE  OnceWithin(g, u, diffs, place)
  <2>1. PICK n \in 0 .. Len(h) : RankedWithin(Tally(SubSeq(h, 1, n)), Users, u, diffs, place)
    BY <1>7 DEF OnceWithin
  <2>2. SubSeq(g, 1, n) = SubSeq(h, 1, n)
    BY <1>1
  <2>3. n \in 0 .. Len(g)
    BY <1>1
  <2>4. QED
    BY <2>1, <2>2, <2>3 DEF OnceWithin
<1> HIDE DEF g
<1>8. ASSUME a = <<"star">>, OnceWithin(h, u, Difficulties, StarPlaces)
      PROVE  Deserved(g, u, a)
  BY <1>7, <1>8 DEF Deserved
<1>9. ASSUME NEW d \in Difficulties, a = <<"king", d>>, OnceWithin(h, u, {d}, 1)
      PROVE  Deserved(g, u, a)
  BY <1>7, <1>9 DEF Deserved
<1>10. QED
  BY <1>3, <1>4, <1>5, <1>6, <1>8, <1>9 DEF Deserved, g

\* What the tables show is deserved.
LEMMA HoldsDeserved ==
  ASSUME Base, AwardInv, NEW u \in Users, NEW a, Holds(u, a)
  PROVE  Deserved(history, u, a)
<1>0. history \in Seq(Entry) /\ stats = Tally(history)
  BY DEF Base, TypeOK, RowsMatchHistory
<1>1. ASSUME NEW d \in Difficulties, stats[<<u, d, "online">>].wins >= 1, a = <<"first_win">>
      PROVE  Deserved(history, u, a)
  <2> DEFINE L == LinesOf(history, 0, <<u, d, "online">>, "win")
  <2>1. <<u, d, "online">> \in Key
    BY DEF Key, Mode
  <2>2. Cardinality(L) >= 1
    BY <1>0, <1>1, <2>1 DEF Tally, TallyAfter
  <2>3. L # {}
    BY <2>2, FS_EmptySet
  <2>4. L \subseteq OnlineOf(history, u, "win")
    BY <1>0 DEF LinesOf, OnlineOf, KeyOf
  <2>5. QED
    BY <1>1, <2>3, <2>4 DEF Deserved
<1>2. ASSUME NEW n \in OnFire, a = <<"on_fire", n>>, OnStreak(u, n)
      PROVE  Deserved(history, u, a)
  <2>1. /\ streak[u] >= n /\ streak[u] \in Nat /\ n \in Nat
        /\ streak[u] <= Cardinality(OnlineOf(history, u, "win"))
    BY <1>2, StatsAssumption DEF OnStreak, AwardInv, Base, TypeOK
  <2>2. Cardinality(OnlineOf(history, u, "win")) \in Nat
    BY <1>0, OnlineFinite
  <2>3. Cardinality(OnlineOf(history, u, "win")) >= n
    BY <2>1, <2>2
  <2>4. QED
    BY <1>2, <2>3 DEF Deserved
<1>3. ASSUME NEW diffs, NEW place, RankedWithin(stats, Users, u, diffs, place)
      PROVE  OnceWithin(history, u, diffs, place)
  <2>1. SubSeq(history, 1, Len(history)) = history /\ Len(history) \in 0 .. Len(history)
    BY <1>0
  <2>2. QED
    BY <1>0, <1>3, <2>1 DEF OnceWithin
<1>4. QED
  BY <1>0, <1>1, <1>2, <1>3 DEF Holds, Deserved

\* What a check finds is deserved.
LEMMA CheckFindsDeserved ==
  ASSUME Base, AwardInv, NEW h \in Handlers, Check(h)
  PROVE  \A g \in job'[h].found : Deserved(history, g[1], g[2])
<1> DEFINE e == job[h].entry
           new == {a \in Considered(job[h].at, e) : a = <<"speedster", e.difficulty>> \/ Holds(e.user, a)}
<1>1. e \in Entry /\ e.user \in Users /\ e.difficulty \in Difficulties /\ job[h].at \in DOMAIN After
  BY DEF Check, Base, TypeOK, Job, Entry
<1>2. ASSUME NEW a \in new PROVE Deserved(history, e.user, a)
  <2>1. CASE Holds(e.user, a)
    BY <1>1, <2>1, HoldsDeserved
  <2>2. CASE a = <<"speedster", e.difficulty>>
    <3>1. Quick(e)
      BY <1>1, <1>2, <2>2, ConsideredType
    <3>2. \E i \in DOMAIN history : history[i] = e
      BY <1>1 DEF AwardInv
    <3> HIDE DEF e
    <3>3. QED
      BY <1>1, <2>2, <3>1, <3>2 DEF Deserved
  <2>3. QED
    BY <1>2, <2>1, <2>2
<1>3. job'[h].found = job[h].found \union ({e.user} \X new)
  BY DEF Check, Base, TypeOK
<1> HIDE DEF new
<1>4. QED
  BY <1>2, <1>3 DEF AwardInv

LEMMA AwardInit == Init => AwardInv
<1> SUFFICES ASSUME Init PROVE AwardInv
  OBVIOUS
<1>1. \A h \in Handlers : job[h].found = {} /\ job[h].at \notin DOMAIN After
  BY AfterType DEF Init, Idle
<1>2. \A u \in Users : OnlineOf(history, u, "win") = {} /\ streak[u] = 0
  BY DEF Init, OnlineOf
<1>3. \A u \in Users : streak[u] <= Cardinality(OnlineOf(history, u, "win"))
  BY <1>2, FS_EmptySet
<1>4. history = <<>> /\ earned = {}
  BY DEF Init
<1>5. QED
  BY <1>1, <1>3, <1>4 DEF AwardInv

LEMMA AwardStep == Base /\ AwardInv /\ [Next]_vars => AwardInv'
<1> SUFFICES ASSUME Base, AwardInv, [Next]_vars PROVE AwardInv'
  OBVIOUS
<1>0. /\ history \in Seq(Entry) /\ job \in [Handlers -> Job] /\ streak \in [Users -> Nat]
      /\ earned \subseteq Users \X Award
  BY DEF Base, TypeOK
<1>1. ASSUME NEW h \in Handlers, Commit(h) PROVE AwardInv'
  <2> DEFINE e == job[h].entry
             g == Append(history, e)
  <2>1. e \in Entry /\ history' = g /\ earned' = earned
    BY <1>0, <1>1 DEF Job, Commit
  <2>2. \A i \in DOMAIN history : g[i] = history[i] /\ i \in DOMAIN g
    BY <1>0
  <2>3. g[Len(history) + 1] = e /\ Len(history) + 1 \in DOMAIN g
    BY <1>0
  <2>4. /\ \A k \in Handlers : k # h => job'[k] = job[k]
        /\ job'[h].found \subseteq job[h].found
        /\ job'[h].at \in DOMAIN After => job'[h].entry = e
    BY <1>0, <1>1, AfterType DEF Commit, Job, Idle
  <2>5. \A u \in Users : \A a : Deserved(history, u, a) => Deserved(g, u, a)
    BY <1>0, <2>1, DeservedGrows
  <2>6. \A x \in earned' : Deserved(g, x[1], x[2])
    BY <1>0, <2>1, <2>5 DEF AwardInv
  <2>7. \A k \in Handlers : \A x \in job'[k].found : Deserved(g, x[1], x[2])
    <3>1. \A k \in Handlers : job'[k].found \subseteq job[k].found
      BY <2>4
    <3>2. \A k \in Handlers : job[k].found \subseteq Users \X Award
      BY <1>0 DEF Job
    <3>3. QED
      BY <2>5, <3>1, <3>2 DEF AwardInv
  <2>8. \A k \in Handlers : job'[k].at \in DOMAIN After => \E i \in DOMAIN g : g[i] = job'[k].entry
    <3> HIDE DEF g, e
    <3> QED BY <2>2, <2>3, <2>4 DEF AwardInv
  <2>9. ASSUME NEW u \in Users PROVE streak'[u] <= Cardinality(OnlineOf(history', u, "win"))
    <3> DEFINE W == OnlineOf(history, u, "win")
               n == Len(history) + 1
    <3>1. IsFiniteSet(W) /\ Cardinality(W) \in Nat
      BY <1>0, OnlineFinite
    <3>2. n \notin W
      BY <1>0 DEF OnlineOf
    <3>3. OnlineOf(history', u, "win") =
            IF e.user = u /\ e.mode = "online" /\ e.result = "win" THEN W \union {n} ELSE W
      BY <1>1, CommitOnline DEF Base
    <3>4. streak' = IF e.mode = "online"
                    THEN [streak EXCEPT ![e.user] = IF e.result = "win" THEN @ + 1 ELSE 0] ELSE streak
      BY <1>1 DEF Commit
    <3>5. streak[u] \in Nat /\ streak[u] <= Cardinality(W) /\ e.user \in Users
      BY <1>0, <2>1 DEF AwardInv, Entry
    <3>6. Cardinality(W \union {n}) = Cardinality(W) + 1
      BY <3>1, <3>2, FS_AddElement
    <3> HIDE DEF W, n, e
    <3>7. CASE e.user = u /\ e.mode = "online" /\ e.result = "win"
      <4>1. Cardinality(OnlineOf(history', u, "win")) = Cardinality(W) + 1
        BY <3>3, <3>6, <3>7
      <4>2. streak'[u] = streak[u] + 1
        BY <1>0, <3>4, <3>5, <3>7
      <4>3. QED
        BY <3>1, <3>5, <4>1, <4>2
    <3>8. CASE ~(e.user = u /\ e.mode = "online" /\ e.result = "win")
      <4>1. OnlineOf(history', u, "win") = W
        BY <3>3, <3>8
      <4>2. streak'[u] = streak[u] \/ streak'[u] = 0
        BY <1>0, <3>4, <3>5, <3>8
      <4>3. QED
        BY <3>1, <3>5, <4>1, <4>2
    <3>9. QED
      BY <3>7, <3>8
  <2> HIDE DEF g
  <2>10. QED
    BY <2>1, <2>6, <2>7, <2>8, <2>9 DEF AwardInv
<1>2. CASE Start
  <2>1. \A u \in Users : streak'[u] <= Cardinality(OnlineOf(history, u, "win"))
    <3> TAKE u \in Users
    <3>1. Run(u) \subseteq OnlineOf(history, u, "win")
      BY DEF Run
    <3>2. Cardinality(Run(u)) <= Cardinality(OnlineOf(history, u, "win"))
      BY <1>0, <3>1, OnlineFinite
    <3>3. QED
      BY <1>2, <3>2 DEF Start, AwardInv
  <2>2. QED
    BY <1>2, <2>1 DEF Start, AwardInv
<1>3. ASSUME UNCHANGED <<history, streak>>,
             \A g \in earned' : Deserved(history, g[1], g[2]),
             \A h \in Handlers : \A g \in job'[h].found : Deserved(history, g[1], g[2]),
             \A h \in Handlers : job'[h].at \in DOMAIN After
               => job[h].at \in DOMAIN After /\ job'[h].entry = job[h].entry
      PROVE  AwardInv'
  BY <1>3 DEF AwardInv
<1>4. ASSUME NEW h \in Handlers, UNCHANGED <<history, streak, earned>>,
             \A k \in Handlers : k # h => job'[k] = job[k],
             \A g \in job'[h].found : Deserved(history, g[1], g[2]),
             job'[h].at \in DOMAIN After => job[h].at \in DOMAIN After /\ job'[h].entry = job[h].entry
      PROVE  AwardInv'
  BY <1>3, <1>4 DEF AwardInv
<1>5. ASSUME NEW h \in Handlers, Check(h) PROVE AwardInv'
  <2>1. \A g \in job'[h].found : Deserved(history, g[1], g[2])
    BY <1>5, CheckFindsDeserved
  <2>2. UNCHANGED <<history, streak, earned>> /\ job[h].at \in DOMAIN After
    BY <1>5 DEF Check, tables
  <2>3. (\A k \in Handlers : k # h => job'[k] = job[k]) /\ job'[h].entry = job[h].entry
    BY <1>0, <1>5 DEF Check
  <2>4. QED
    BY <1>4, <2>1, <2>2, <2>3
<1>6. ASSUME NEW h \in Handlers, NEW u \in Users, OpenProfile(h, u) PROVE AwardInv'
  <2>1. /\ UNCHANGED <<history, streak, earned>> /\ job'[h].at = "profile"
        /\ \A k \in Handlers : k # h => job'[k] = job[k]
        /\ job'[h].found = {u} \X {a \in Award : <<u, a>> \notin earned /\ Holds(u, a)}
    BY <1>0, <1>6 DEF OpenProfile, tables, Idle
  <2>2. \A g \in job'[h].found : Deserved(history, g[1], g[2])
    BY <2>1, HoldsDeserved
  <2>3. QED
    BY <1>4, <2>1, <2>2, AfterType
<1>7. ASSUME NEW h \in Handlers, Unlock(h) PROVE AwardInv'
  <2>1. FirstOf(job[h].found) \subseteq job[h].found
    BY DEF FirstOf
  <2>2. \A g \in earned' : Deserved(history, g[1], g[2])
    BY <1>7, <2>1 DEF Unlock, AwardInv
  <2>3. /\ \A k \in Handlers : job'[k].found \subseteq job[k].found
        /\ \A k \in Handlers : job'[k].at \in DOMAIN After
             => job[k].at \in DOMAIN After /\ job'[k].entry = job[k].entry
    BY <1>0, <1>7, AfterType DEF Unlock, Idle, Job
  <2>4. QED
    BY <1>3, <1>7, <2>2, <2>3 DEF Unlock, tables, AwardInv
<1>8. ASSUME NEW h \in Handlers, StoreProfile(h) PROVE AwardInv'
  <2>1. \A g \in earned' : Deserved(history, g[1], g[2])
    BY <1>8 DEF StoreProfile, AwardInv
  <2>2. /\ \A k \in Handlers : job'[k].found \subseteq job[k].found
        /\ \A k \in Handlers : job'[k].at \in DOMAIN After
             => job[k].at \in DOMAIN After /\ job'[k].entry = job[k].entry
    BY <1>0, <1>8, AfterType DEF StoreProfile, Idle, Job
  <2>3. QED
    BY <1>3, <1>8, <2>1, <2>2 DEF StoreProfile, tables, AwardInv
<1>9. ASSUME UNCHANGED <<history, streak, earned>>,
             \A h \in Handlers :
               \/ job'[h] = job[h]
               \/ job'[h].found \subseteq job[h].found
                  /\ (job'[h].at \in DOMAIN After
                       => job[h].at \in DOMAIN After /\ job'[h].entry = job[h].entry)
      PROVE  AwardInv'
  BY <1>3, <1>9 DEF AwardInv
<1>10. ASSUME NEW h \in Handlers, NEW body \in Bodies, Receive(h, body) PROVE AwardInv'
  BY <1>0, <1>9, <1>10, AfterType DEF Receive, tables
<1>11. ASSUME NEW h \in Handlers, OpenWeekly(h) PROVE AwardInv'
  BY <1>0, <1>9, <1>11, AfterType DEF OpenWeekly, Idle, tables
<1>12. ASSUME NEW h \in Handlers, ReadWeekly(h) PROVE AwardInv'
  BY <1>0, <1>9, <1>12, AfterType DEF ReadWeekly, Idle
<1>13. ASSUME NEW h \in Handlers, Fail(h) PROVE AwardInv'
  BY <1>0, <1>9, <1>13, AfterType DEF Fail, Idle, tables, Job
<1>14. CASE Crash
  BY <1>9, <1>14, AfterType DEF Crash, Idle, tables
<1>15. CASE Tick
  BY <1>9, <1>15 DEF Tick, tables
<1>16. CASE UNCHANGED vars
  BY <1>9, <1>16 DEF vars, tables
<1>17. QED
  BY <1>1, <1>2, <1>5, <1>6, <1>7, <1>8, <1>10, <1>11, <1>12, <1>13, <1>14, <1>15, <1>16
  DEF Next, Serve

\* A step of the service is a step of the ledger or none.
LEMMA LedgerStep == Base /\ AwardInv /\ [Next]_vars => [Ledger!LedgerNext]_(Ledger!ledgerVars)
<1> SUFFICES ASSUME Base, AwardInv, [Next]_vars PROVE [Ledger!LedgerNext]_(Ledger!ledgerVars)
  OBVIOUS
<1>0. /\ history \in Seq(Entry) /\ job \in [Handlers -> Job] /\ earned \subseteq Users \X Award
  BY DEF Base, TypeOK
<1>1. ASSUME NEW h \in Handlers, Commit(h) PROVE Ledger!Record
  <2>1. job[h].entry \in Entry /\ history' = Append(history, job[h].entry) /\ earned' = earned
    BY <1>0, <1>1 DEF Commit, Job
  <2>2. QED
    BY <1>0, <2>1 DEF Ledger!Record
<1>2. ASSUME history' = history, earned' \in SUBSET (Users \X Award), earned \subseteq earned',
             \A g \in earned' \ earned : Deserved(history, g[1], g[2])
      PROVE  Ledger!Give
  BY <1>2 DEF Ledger!Give
<1>3. ASSUME NEW h \in Handlers, Unlock(h) PROVE Ledger!Give
  <2>1. FirstOf(job[h].found) \subseteq job[h].found /\ job[h].found \subseteq Users \X Award
    BY <1>0 DEF FirstOf, Job
  <2>2. /\ history' = history /\ earned \subseteq earned' /\ earned' \subseteq Users \X Award
        /\ earned' \ earned \subseteq job[h].found
    BY <1>0, <1>3, <2>1 DEF Unlock, tables
  <2>3. QED
    BY <1>2, <2>2 DEF AwardInv
<1>4. ASSUME NEW h \in Handlers, StoreProfile(h) PROVE Ledger!Give
  <2>1. job[h].found \subseteq Users \X Award
    BY <1>0 DEF Job
  <2>2. /\ history' = history /\ earned \subseteq earned' /\ earned' \subseteq Users \X Award
        /\ earned' \ earned \subseteq job[h].found
    BY <1>0, <1>4, <2>1 DEF StoreProfile, tables
  <2>3. QED
    BY <1>2, <2>2 DEF AwardInv
<1>5. CASE UNCHANGED <<history, earned>>
  BY <1>5 DEF Ledger!ledgerVars
<1>6. QED
  BY <1>1, <1>3, <1>4, <1>5
  DEF Next, Serve, vars, tables, Receive, Check, OpenProfile, OpenWeekly, ReadWeekly, Fail, Crash,
      Start, Tick, Ledger!LedgerNext

\* stats_service implements the ledger: results are only appended, and awards
\* are given for good and only to those whose results deserve them, although
\* they are looked up after the commit and stored later still.
THEOREM StatsImplementsLedger == Spec => ImplementsLedger
<1>1. Init => AwardInv /\ Ledger!LedgerInit
  BY AwardInit DEF Init, Ledger!LedgerInit
<1>2. Base /\ AwardInv /\ [Next]_vars => AwardInv'
  BY AwardStep
<1>3. Base /\ AwardInv /\ [Next]_vars => [Ledger!LedgerNext]_(Ledger!ledgerVars)
  BY LedgerStep
<1>4. QED
  BY <1>1, <1>2, <1>3, BaseAlways, PTL DEF Spec, ImplementsLedger, Ledger!LedgerSpec
==============================================================================
