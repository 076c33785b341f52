# A verification project for Sudoku Combat

Sudoku Combat is a set of small web services: players meet in a room, solve one
board together against each other, and collect statistics. This directory holds
TLA+ models of its protocols and algorithms, the TLC configurations that check
them and proofs that TLAPS checks. Paths below are relative to
`src/srcs/requirements/`.

Everything here is translated from the code, not from the descriptions of it.
`PROJECT.json` maps every definition to the lines it stands for, and lists the
parts, the runs, the hazards and the theorems.

## 1. The system

### Parts and how they interact

| Part | State | Operations | Talks to | Module |
|---|---|---|---|---|
| **Room service** `combat_service/src/app.controller.ts`, `room-cleanup.service.ts`, `room.entity.ts` | the `Room` rows in PostgreSQL | create, join, leave, heartbeat, list, game-state, validate-move, surrender, cleanup of offline users, periodic ghost cleanup | the popup and the pages (HTTP), the gateway (HTTP to itself) | `RoomLobby`, `RoomMatch` |
| **Gateway** `combat_service/src/app.gateway.ts` | a Map from room to the Set of its sockets, in memory | join_room, move (also surrender), disconnect | OnlineGame pages (WebSocket), room service | `OnlineSession` |
| **Games** `combat_service/src/combat.controller.ts` | the same `Room` rows | start offline and online, move, hint used, abandon | Home and OfflineGame pages, game service | `OfflineGame`, `RoomLobby` |
| **Game service** `game_service/srcs` | none but the C random state | generate, hint | combat service, OfflineGame page | `SudokuGenerator` |
| **Statistics** `stats_service/srcs` | results, totals, weekly table, streaks, achievements in PostgreSQL | report, leaderboard, history, achievements | the pages report directly | `Stats` |
| **Users** `user_service/user_app` | accounts, friendships, presence in a database and a cache | sign-up, login, OAuth, profile, friend requests, status socket | the pages, room service's cleanup | `Friends`, `Presence` |
| **Frontend** `frontend/src` | page state, per tab | popup with WAITING view and polls, online and offline pages, status socket | everything above through nginx | with each protocol |
| **nginx**, containers | configuration | routing, restarts (`restart: unless-stopped`) | | |

Only the transactions of the statistics lock anything. Node runs the combat
service on one thread, but each handler awaits PostgreSQL or HTTP several times,
and handlers interleave at every await. Django's views run on threads, without
transactions. crow's handlers run on threads too. A browser sees its connection
break at another time than the server does: nginx keeps a silent connection for
a day.

### What is hard, and what makes each part correct

- **Match.** Two players send moves at once. `validateMove` finds the row,
  changes the entity, and `save` selects again and updates the columns that
  differ: lost updates, mixed columns, decided matches reopened. Correct: no
  invented move, mistake or cell; no innocent loser; atomic unless overtaken.
- **Lobby.** Joins, heartbeats, leaves and the ghost cleanup write the same row
  by the same find and save. Correct: a join that was answered with success
  holds, the cleanup spares the living, an abandoned room disappears.
- **Sockets.** Breaks, late disconnects, second tabs, restarts. Correct: one
  session per user, everybody learns the end, the banner tells the truth.
- **Offline games.** Moves, hints and abandon race each other on one row, no
  handler looks at the status, and the page shows answers in the order in which
  they arrive. Correct: a result that is reported was earned; the page may be
  behind the row, but is never ahead of it.
- **Statistics.** Achievements are decided after the commit of the result that
  earns them; a week ends between the start of a transaction and its lock; the
  service restarts and computes streaks in another order than it counted them.
  Correct: results are a ledger, totals and weekly board agree with it, and what
  is awarded is deserved.
- **Sudoku.** A backtracking filler whose success nobody asks for, a digger that
  keeps uniqueness step by step, hardness measured by two solvers. Correct: one
  solution, the hardness that was asked for, hints of that solution.
- **Presence.** Sockets of several tabs, three seconds of grace, one mark in a
  cache for all tabs. Correct: who stays connected ends up online, who has left
  is offline.
- **Friends.** Test and write are two queries. Correct: no friendship without
  consent; until a request is overtaken, one relationship of two users.

## 2. Modules

| Module | What it is |
|---|---|
| `RoomRow` | What TypeORM's `save` does with a row: the columns that differ from a fresh SELECT, and the UPDATE of these. External; everything that saves a room is built on it. |
| `Match` | Abstract: a match whose moves and surrenders are atomic. |
| `RoomMatch` | The match as it is: `validate-move` and `surrender` as three queries each, any number of requests in flight, restarts. Refines `Match` as long as no save is overtaken. |
| `RoomLobby` | A room from its INSERT until two players are in it or it is gone, with the owner's browser, the guests, the ghost cleanup and a clock. |
| `OnlineSession` | The gateway's sockets and the OnlineGame page of each tab: who is connected, who is told what. |
| `OfflineGame` | One offline game: its row, its handlers and the page that plays it. |
| `StatsLedger` | Abstract: an append-only ledger of results, and awards that are deserved and given for good. |
| `StatsRow`, `Leaderboard` | What the tables of the statistics say about a history of results: totals, achievements, Wilson score and rank. |
| `Stats` | The service: reports, awards, weekly reset, failures, crashes and the repairs of a restart. Refines `StatsLedger`. |
| `SudokuGrid` | Grids: houses, candidates, `basic_check`, singles, hints. |
| `SudokuGenerator` | `/generate` as a state machine, and the game that asks `/hint`. |
| `Presence` | `PresenceConsumer` with its cache and column, and what other pages show. |
| `Friendship` | Abstract: two users ask, approve and part in single steps. |
| `Friends` | `friend_action_api` query by query. Refines `Friendship` until an overtaken request writes. |
| `..._proofs` | Theorems about the module they are named after. |
| `MC...` | The instances for TLC. |

A mutant of a definition stands before it, as `Mut...`: it is the definition with
a plausible bug, and shows that the property named in `PROJECT.json` notices it.

### RoomMatch

`row` is the row of the room, `req` the requests in flight. A request goes
`Find` (inside `ValidateRightMove`, `ValidateWrongMove`, `Surrender`: the
`findOne`, all conditions and all assignments of the handler, which Node runs
without interruption), `SaveSelect` (the SELECT inside `save`) and `SaveUpdate`
(the UPDATE, and the answer). `Restart` forgets all requests. The board is the
set of cells that are still 0, because only solved values are ever written to
it; the value of a move is right or wrong. `health` is a simple-array column
and is read back as strings, so `'0'` is true in `!room.health[0]` and only the
subtraction of the same handler gives a number 0: `AfterRight` and `AfterWrong`
keep this.

The history variables `valid`, `invalid`, `solved` and `quit` count what was
answered to the players. `clean` says that no request that has committed had been
overtaken, that is, had its row changed by another between its find and
its own update. It is exactly what a version column would guarantee, and the
properties that start with it, here and in the modules below, say what the code
would give with one.

The abstract `Match` decides a match at once; the refinement `CleanStepsAreAtomic`
maps the row to it.

### RoomLobby

Actors (owner's heartbeat and leave, each guest, the ghost cleanup, the cleanup
of an offline user) have at most one handler in flight, with the same
find / select / update. A save that finds no row inserts it again
(`SaveInsert`), as TypeORM does. `Tick` is any unit of time, half a second in the
run. A request takes at most `MaxDelay` ticks, on its way and in its queries
together, an answer at most `MaxDelay` ticks; timers fire on time. Only the age of
`lastHeartbeat` is kept: the INSERT sets it (`combat.controller.ts:100`), and it
grows while the answer is on its way to the browser. The view is `opening` (the
answer has not arrived), `waiting` (heartbeats and polls, the first of them a
period after `Open`), `countdown` (the match begins) or `gone`. Closing the popup does not call leave: *Cancel Room* passes `onCancel`
where the popup reads `onCancelRoom` (`Home.jsx:655`, `OnlineGamePopup.jsx:666`);
`Leave` is kept because the route exists. `cleanup-offline-user` (`Purge`) has no
caller in this repository and is kept for the same reason. Rooms are created by
`start/online`; `room/create` makes the same row and has no caller.

### OnlineSession

`rooms` is the Set of one room, `sock` the server's side of every connection,
`tab` the page of every tab, `inbox` the messages on their way. `join_room` is
`Join` (up to the await), `ReadState` and `Sync` (after it); the end of a match
is `Move`, `LookUp`, `TellEnd`, or `Surrender`, `TellEnd`. An empty Set is
dropped from the Map while a handler may still hold it: `held` says whether the
one it looked up is still there. `Break`, `Reload`, `Exit`, `Resume`,
`Restart` and a late `Disconnect` are the environment. The match itself is only
its winner, decided in one step: what races do to it is in `RoomMatch`.
A `sync_game` that carries no end changes nothing that is modelled and is left out.

### OfflineGame

`row` is again saved by `RoomRow`; `req` are the moves, hints and abandonments
of the page, from the query to the answer that the page hears or no longer
waits for. The page sends what the player wants, not one after the other. `page`
is what `useGameLogic` keeps: board, cells that cannot be typed into, lives,
hints, result, and the two modals. A hint is asked of the game service with the
board of the page, its cell is filled before the move is sent, and its move's
answer is dropped: so the code does. `Load` fetches the state of the game again,
`Lose` loses a request with the connection or a restart, and
another `start/offline` deletes the row (`StartOther`). `reported` is what the
statistics were sent.

### Stats, StatsRow, Leaderboard, StatsLedger

The transactions of the service lock the one line of `leaderboard_reset_meta`
first; from there to the commit they are one step, and what is left between
transactions are the jobs of the threads: a report goes `Receive` (its
transaction starts, and with it its NOW()), `Commit`, five `Check`s on new
connections and `Unlock` for each award they found. A profile makes up for
missed awards (`OpenProfile`, `StoreProfile`), a weekly reader may reset the week
(`OpenWeekly`, `ReadWeekly`). `Fail` is a query or connection that fails, at
each place with what the code makes of it. `Crash` and `Start` are a restart
with the repairs of `create_tables`. The Wilson score is computed in integers,
exact for up to seven wins and losses.

### SudokuGrid, SudokuGenerator

The grid is a function from cells 0 .. 80 to 0 .. 9, over a box size `B`.
`Generate` begins a request; `Deal` fills the diagonal boxes; `Enter`, `Place` and
`Backtrack` are the calls of `fill_other_boxes`, with the stack of them in `trail`,
and `Filled` is their end; `Pass` is a pass of the loop of `game_generator`, with
`solve_with_logic` and `check_uniqueness` as recursive functions; the grid that is
delivered is then played (`Play`) with hints and the player's own right numbers.
`check_uniqueness` takes the grid and gives a function of the count so far: the
provers know no functions of two arguments.
What the random shuffles return are the constants `Deals`, `Shuffles` and
`Orders`. A reference definition of the solutions of a grid (`Solutions`) and of
what singles can do (`NakedClosure`, `Closure`) is independent of these.

### Presence

`pc` is where the consumer of each socket is; every await in `connect`, `receive`
and `disconnect` is a step. The mark in the cache belongs to the user, not to a
socket. There is no clock: a consumer that finds the mark after its grace has
deleted it itself three seconds earlier, so the mark is younger than its time to
live whenever that matters. `deaf` are the pages whose own socket is broken: they
miss the broadcasts and go on showing what they know, until they connect again and
are sent `initial_status` (`Load`).

### Friends, Friendship

`Send`, `Approve` read, `Create`, `Update`, `Insert` write; `Remove` is one
DELETE. `rel.save()` inserts a row that its UPDATE did not find. Pages act on
the `list` they have fetched, which may be old. The history `asked` and `agreed`
keeps who wanted what with which id.

## 3. Runs

| Run | Question | Instance |
|---|---|---|
| `match_pair` | Do two overlapping requests ever invent a move, convict an innocent, disagree about the status, or deviate from an atomic match although none was overtaken? | 2 cells, 2 requests, 2 lives, 2 moves each; symmetric cells and requests |
| `lobby` | Is a successful join honoured and followed by the match, are a match and a waiting owner spared, does an abandoned room go? | the code's periods (2 s, 2 s, 3 s) in half seconds, delays of half a second, two guests |
| `session_links` | One socket per user, no page left out of the room, no false victory, no banner left behind, when the owner drops and comes back and the guest has two tabs? | three tabs; two connections of the owner, one of each tab of the guest |
| `session_told` | Does a page that stays in the match learn the end? | one tab, three connections, reloads, restarts |
| `session_winner` (violated) | Is a winner ever shown a defeat? | two connections of the owner |
| `stats_reports` | Is the weekly board complete, are streaks right, is the ledger implemented, when two threads race a week's end and a restart? | 2 users, 2 threads, 3 reports, a week of one tick, 1 crash |
| `stats_awards` | Do totals and best times agree with the history, and does the first-win award come, when queries fail and the service crashes? | 1 thread, 3 reports, 1 failure, 1 crash |
| `sudoku` | One solution, the hardness asked for, hints that are right and there? | the real 9x9 grid and bounds, all five requests, one deal, one shuffle, three walks |
| `presence` | Is who left offline and does who stays end up online? | 3 sockets, 2 pages that may lose theirs |
| `offline` | Are results earned, rows exact, and pages never ahead of them? | 2 holes, 2 requests, 1 life, 1 hint, one reload |
| `offline_hint` (violated) | Is a full board a victory? | the same |
| `friends` | Is there no friendship without consent, and one relationship while nobody is overtaken? | 2 users, 3 requests, 3 ids |

### Findings

With a run:

- **A winner is shown a defeat** (`session_winner`): the answer to `join_room`
  has the status but no winner, and the page takes this as lost
  (`OnlineGame.jsx:605`).
- **A full board that does not win** (`offline_hint`): the last hole is filled by
  a hint, whose answer `WIN` is dropped (`useGameLogic.js:493`). The row is
  finished; the page is not and nothing is reported.

Met while modelling, and the reason why some properties carry a condition:

- Overlapping moves of one player store the same count, so `ownerMoves` is not
  the number of moves (`app.controller.ts:139`).
- Two joins read an empty room and both are told success (`app.controller.ts:77`);
  their saves overwrite two heartbeats in a row, and then the ghost cleanup takes
  the room of a living owner. `JoinHonoured` asks for `clean`, `SparesTheWaiting`
  for at most one guest who was told.
- A heartbeat every two seconds leaves one second for everything else. With delays
  of a whole second the cleanup takes the room of an owner who waits: the answer of
  `start/online` arrives a second after the INSERT, the heartbeats start two seconds
  later (`OnlineGamePopup.jsx:469`), and the first one is saved at four, when the
  limit is three (`room-cleanup.service.ts:18`). `lobby` has half a second, and
  the theorems ask for `HeartbeatPeriod + 2 * MaxDelay <= GhostAge`. Timers that a
  browser slows down in a hidden tab break the same condition.
- The cleanup deletes by id what it found waiting: if the owner is gone, it takes
  the match of a guest who joined in between (`room-cleanup.service.ts:29`).
  `SparesTheMatch` says that it takes no other.
- A deleted room returns by the INSERT of a save that found it before
  (`app.controller.ts:84`); `AbandonedRoomGoes` says that it goes again.
- With three requests in flight `status` and `winner` can disagree: one save is about
  to write the winner alone, because the row it compared with was finished, when
  another takes the row back to playing. `match_pair` has two requests;
  `StatusIsWinner` says that nothing else does it.
- A dead socket stays in the Set until the server notices, and the reconnection of
  its only tab is refused as a second tab (`app.gateway.ts:47`), which sends the
  player home. README.md:149-150 of the repository promises another thing.
  `NoneLeftOut` says only that a page is in the Set, on its way, or told of the refusal,
  and `EndIsTold` does not count a page that was sent home.
- Answers to wrong moves that arrive in another order than their saves leave more
  lives on the offline page than the row has (`useGameLogic.js:319`).
  `ShownIsSaved` says only that it never shows fewer.
- A move into a cell that is filled already is credited (`app.controller.ts:136`),
  a move after the last life can win an offline game (`combat.controller.ts:154`),
  and an offline game that is loaded again after its end can be reported again
  (`useGameLogic.js:521`). The properties allow what the code does here.
- A defeat that commits between a win and its achievements hides a streak that
  was reached (`repository.cpp:204`).
- A restart computes streaks by `played_at`, reports count them by commits
  (`db.cpp:188`); `StreakIsTail` is stated for users whose reports committed in
  the order in which they started.
- An older socket's goodbye shows a connected user offline to other pages until
  they load again (`consumers.py:66`): the heartbeat repairs the column only.
- Two users who ask each other at once get two relationships
  (`api_views.py:357`), and an approval that overlaps a removal brings the
  relationship back (`:375`). `CleanStepsArePromised` ends there.
- The cleanup's comment says five seconds, the code waits three
  (`room-cleanup.service.ts:18,30`).

### Bounds, and why they are enough

Each bound is a named constant or definition.

- Requests: two are the smallest set that can overtake each other; `friends` has
  three, so that an approval, a removal and a new request overlap. What holds for
  any number of them is proved (section 4).
- `RoomMatch`: with `Lives` = 2 the first mistake does not end the match, the
  second does, and a lost update can pass over zero. `MaxMoves` = 2 lets one
  player overlap with himself. Two cells: one to solve, one to finish with.
- `RoomLobby`: above `MaxAge` ages are alike. `MaxDelay` = 1 half second is the most
  for which a live owner keeps the room, and lets every handler interleave with a
  tick. (`MaxDelay` = 2 is the finding above.)
- `OnlineSession`: two connections are one reconnection; three in
  `session_told`, where a Set can be dropped and replaced twice.
  `Roaming` are the tabs whose player leaves or reloads: for the gateway a
  reload is a break and a new connection, so `session_links` leaves it out.
- `OfflineGame`: one life and two holes make both ends reachable within the
  `MaxSent` requests, with some left to arrive after the end; a page that is
  loaded again (`MaxLoads`) meets a finished row.
- `Stats`: a week of one tick ends once (`MaxTime` = 1). Three reports are a win,
  a defeat and a win in any order of starts and commits. The limits that the
  achievements compare with are lowered so that three results reach them.
- `SudokuGenerator`: nothing is scaled down. The shuffles have outcomes for which
  the filler has to go back and which pass through every hardness. `OwnCells`
  is one cell, which is enough to leave the path of the hints.
- `Presence`: three sockets are two that end and one that comes meanwhile.
- Deadlock is checked in `lobby` and `sudoku`, which never stop. The configurations of the others
  say why the system may.

### Fairness

- `RoomLobby`: weak fairness of the handlers (a query is answered), of the
  answer that opens the WAITING view, of the heartbeat, poll and cleanup timers and
  of the clock. No fairness of joining,
  leaving or closing.
- `OnlineSession`: weak fairness of each socket's handlers, which includes that
  the server notices a dead connection in the end (`proxy_read_timeout`), of the
  broadcast, of delivery on a connection that is up, and of reconnecting, which
  the page's retry timer does. No fairness of moving, breaking, leaving or
  coming back.
- `Stats` (`stats_awards`): threads serve what they have begun and the container
  starts the service again (weak); every user opens the profile again and again
  (strong, because the threads may be busy whenever one tries). This last one is
  an assumption about people, and is what the award waits for.
- `SudokuGenerator`: a running request goes on, and shuffles that can come
  come in the end (strong fairness of each outcome of `Deal` and of the order
  of the cells in `Filled`): the loop is only probabilistically finite.
- `Presence`: consumers go on, and an open socket sends heartbeats (a timer of 30
  seconds in the page).
- The other modules have no liveness property and no fairness.

The database of the combat and user services answers; its errors are not modelled,
beyond requests that are lost (`Restart`, `Lose`, `Fail`).

## 4. Proofs

Each theorem holds for all values of the constants, from the assumptions stated with
them (`ASSUME`s of the modules, evaluated by TLC in each run).

| Module | Theorem | States |
|---|---|---|
| `RoomMatch_proofs` | `TypeCorrect`, `NothingIsInvented`, `WinnerIsJust`, `RecordIsClean`, `AtomicInit`, `StepsAreAtomic`, `StatusIsWinner` | `TypeOK`, `NothingInvented`, `JustWinner`, `CleanRecord` always; initial states and, while clean, steps of `RoomMatch` are those of `Match`; `StatusAgrees` for any number of requests, until a save takes a decided match back to playing while another save is between its SELECT and its UPDATE |
| `RoomLobby_proofs` | `LobbyTypes`, `JoinsAreHonoured`, `MatchIsSpared`, `WaitingIsSpared` | `TypeOK`, `JoinHonoured` always; `SparesTheMatch` and `SparesTheWaiting` if `HeartbeatPeriod + 2 * MaxDelay <= GhostAge` |
| `OnlineSession_proofs` | `SessionTypes`, `SessionIsOne`, `VictoriesAreTrue`, `PagesAreIn`, `BannerGoes` | `TypeOK`, `OneSession`, `VictoryIsTrue`, `NoneLeftOut`, `NoFalseAlarm` always |
| `Stats_proofs` | `StatsTypes`, `TotalsMatchHistory`, `WeeklyBoard`, `StreaksCountTheTail`, `StatsImplementsLedger` | `TypeOK`, `RowsMatchHistory`, `WeeklyBoardComplete`, `StreakIsTail` always; `Stats` implements `StatsLedger` |
| `SudokuGenerator_proofs`, the algorithms | `UniquenessIsExact`, `SolverIsClosure`, `NoneHidden` | for every grid: `check_uniqueness` says one exactly if `Solutions` has one; `solve_with_logic` ends where `Closure` ends, and counts no hidden single exactly if `NakedClosure` is enough |
| `SudokuGenerator_proofs`, the service | `GeneratorTypes`, `BoardIsWithinSolution`, `HintsAreRight`, `HintsAreThere` | `TypeOK` always; the solution never conflicts and the board in play is a part of it; a complete solution gives `HintIsRight`, and `HintIsThere`: some hint while there is a hole, for requests 1 to 4 |
| | `GridIsFilled`, `HintsHold`, `NoOtherSolution`, `HardnessHolds` | `FullGridIsFull`, `HintIsRight` and `HintIsThere`, `OneSolution`, `AsHardAsAsked`, if `DealsFill` and `ShufflesAreFull` |
| `Presence_proofs` | `PresenceTypes`, `GoneUserIsOffline` | `TypeOK`, `GoneIsOffline` always |
| `OfflineGame_proofs` | `OfflineTypes`, `ResultsAreEarned`, `RecordIsClean`, `ShownWasSaved` | `TypeOK`, `ResultIsEarned`, `CleanRecord`, `ShownIsSaved` always |
| `Friends_proofs` | `FriendsTypes`, `FriendsConsent`, `FriendsKeepPromise` | `TypeOK`, `ConsentGiven` always; while clean, steps of `Friends` are those of `Friendship` |

**Why nothing is invented.** `NothingInvented` and `JustWinner` speak of the row, but
the next row may come from any entity in flight, so neither is inductive. `IInv`
says of *every* entity in flight that it is accounted for by the history plus the
request's own answer. The heart is that accounting is closed under mixing columns
(an update takes some columns from the entity and the others from the row), and
that the history only grows, so what was accounted for stays so
(`AccountedMonotone`). This is why overwriting saves lose moves, but never
invent one.

**Why clean steps are atomic.** `CleanInv` adds to the types that, while clean, the
row is the exact record and `status` and `winner` agree, and that every request
that was not overtaken still has the row it found: `Current`. A commit of such a
request writes all columns its handler changed and no other (`CommitIsExact`), so
the new row is what the abstract action makes of the old one (`CommitIsMove`). A
commit of an overtaken request ends cleanness, and with it the claim. The same
`Current` carries `RecordIsClean` of `OfflineGame`, where the SELECT of a `save`
and its INSERT have to be looked at too, and `FriendsKeepPromise`, where it says
that the relationships of two users are still those that a request read.

**Why status and winner agree.** `StatusInv`: the row agrees, every entity in flight
agrees, and a save writes one of the two columns without the other only if its
entity and the row are both finished. That the row is still finished when its
UPDATE comes is what `ReopensUnderASave` is about: it needs a third request that
found the room playing, saves it as playing, and comes between. Nothing in the code
keeps a third request out, so the theorem does not either.

**Why a join is honoured.** `Current` again, now of the lobby's handlers: a handler
that was not overtaken saves the row as it is plus its own change, so its UPDATE
leaves exactly its entity, and the guest of that entity is the one who is told.
When the row has been deleted, every handler in flight has been overtaken, so an
INSERT is never clean.

**Why the waiting room is spared.** This does not ask for cleanness: saves may
overwrite heartbeats. `Watched` bounds the age of the row of an owner who is there:
while the answer to its INSERT is on its way, by the time since then; afterwards by the
time since the last heartbeat was sent plus `MaxDelay`, which the first answer or
the last save took, and a period more while a heartbeat is on its way, which it is for
`MaxDelay` at most. So the cleanup finds no room of an owner who is there, if
`HeartbeatPeriod + 2 * MaxDelay <= GhostAge`: 2 + 2 * 1/2 and 3 seconds in the run.
Until two guests were told that they joined, at most one guest's save passes over a
waiting room, and the room is `waiting` again only by a heartbeat's save, which
brings its own age with it; so an age that was written back is young enough.

**Why a match is spared.** A sweep that has found the room is in flight only if the
owner was not there when it did, so it is left to look at owners who count down.
`InMatch`: from the poll that saw the match on, either the row is a match and no sweep is
in flight, or a heartbeat has written `waiting` over it (or it was deleted since), and
then none is left in flight that could write a match. The only guest who was told
is done, so nobody else could either.

**Why a user has one session.** `handleJoinRoom` looks at the Set and adds to it without
an await between, so two sockets of a user cannot both pass. That the added socket
is open, and that a later connection is not in the Set already, needs
`SessionInv`: a socket in the Set has joined, and the server knows only sockets
that the tab has opened.

**Why nobody is left out.** A `Disconnect` takes only its own socket out of the Set, a
connection adds only itself, and a page has at most one socket that it calls its
own. What needs the invariant is that a socket which is not in the Set and whose
connection is up either is still joining or was refused, and that the refusal stays in its
inbox until the page reads it, whatever is broadcast behind it.

**Why a victory is true.** A page believes the last message it got, which may be old.
`VictoryInv` says of every message on its way that a winner it names is the
room's; since a winner is never replaced, that does not age.

**Why the banner goes.** The banner is decided by whatever message comes last, so
`AlarmInv` looks at where a page *will* be once its inbox is empty (`Reassured`).
Once two sockets in the Set are done with joining, the page of each, if its connection is
up, ends up without the banner; one that is not done still holds the Set that the
Map has, and telling both is the last thing it does. `OneSession` and the two roles make
sure that there is no third socket whose disconnection could say otherwise.

**Why an offline result is earned.** `Honesty`: what any entity in flight, any
answer and the row claim was saved before, but for the request's own move.
For the number of reports, `Ledger` counts those that are still owed: a page that
is playing owes one, and so does each exit that was confirmed.

**Why what is shown was saved.** Lives on the page come from rows and answers, and
`Honesty` explains both already. A cell is filled on the page by the answer to a right
move, which is sent after its save, or by a hint, whose move is on its way until it
is saved (`Covered`). What has to be excluded is that another save reverts it
(`Current`), and that a deleted game comes back by an INSERT, which is not clean.

**Why the weekly board is complete.** NOW() is read before the lock, so a result
of the new week may be recorded before one of the old week. What the property
does not say and the proof needs is `NoneAhead`: no result is of a later week than
the one shown, so that everything there is when a new week begins is older.

**Why awards are deserved.** An award is found by one transaction and stored by another. `AwardInv`
says of those in between that they are deserved *already*, and deserving
is monotone in the history (`TallyGrows` and its like), including for
the ones that compare users: the checks look at the ledger of that moment.

**Why hints are right.** A naked or hidden single is forced in any completion of the
board that is a grid (`HintsAreRight` rests on `SeenIsMutual` and on the board
being `Within` the solution). That there is one rests on monotony: what singles
could solve, they can still solve when more of it is filled in.

**Recursive functions.** That `solve_with_logic`, `check_uniqueness`, `Solutions` and
the closures exist and equal their defining equations is proved, not assumed:
each recursion leaves fewer holes, and the library's well-founded minimum gives
induction over the number of holes in first-order form (`NatSetInduction`,
`SizeInduction`, `GridInduction`, and `SubsetInduction` for the fold over the candidates),
with a *set* of numbers or grids where the usual theorem has an operator.

**Why the grid is full.** `fullgrid_generator` ignores the result of
`fill_other_boxes`, so it matters that it cannot fail. `Searching` says of every call on
the stack that it was in vain (`InVain`): a number that was tried and
taken back is the number of that cell in no solution of what is filled outside this
and the inner calls. So when the outermost call has nothing left, the diagonal would
have no solution at all. A full grid without conflict is complete, because nine
different numbers in nine cells are all of them (an injection of finite sets). The two
hypotheses are about the shuffles: `ShufflesAreFull`, each keeps all the numbers,
which is what `random_shuffle` does; `DealsFill`, each dealt diagonal is that of
some solution. The second is a fact about sudoku, not about the code: it is well known for boxes
of side 3, and false for side 2 (1 2 / 3 4 above 1 4 / 2 3 has no
completion), so it cannot be proved for every `B` and is stated. That the run's
deal satisfies it is what `FullGridIsFull` shows there, and the run starts with
numbers that have to be taken back.

**Why there is one solution.** `Fillings` is what `Solutions` computes, without recursion,
and does not depend on the order of the holes. `CheckCounts`: the count after a
call is the count before it plus the number of fillings, cut at two; the fold over
the candidates adds up disjoint sets (`FoldAddsUp`). A pass that is not rejected has
counted once, the solution is one filling, so it is the only one, and a right move
of the player takes none away and adds none.

**Why it is as hard as asked.** Filling in singles is confluent: one at a time or all
at once, the end is the least board above the grid, below the solution, without a
single (`IsLeast`). Hence the solver agrees with the closures, though it mixes naked and
hidden ones in an order of its own. `HardInv` keeps what `stats` says tied to the
grid, also over passes that are rejected (hardness 0) or not tested, whose
`hidden_total` is an older grid's.

**Why who left is offline.** `Owed`: whatever says online, some consumer has yet to
take it back. A consumer that returns early found a mark that another one
has yet to delete; so the early returns cannot all be wrong.

**Why friends consented.** `Consent` says of the rows in flight what `ConsentGiven`
says of those in the table, and that an id never stands for two requests, so that
a row that is inserted again is the row that was deleted.

Every invariant and action property that a passing run checks is a theorem. What is
model-checked only is liveness (`AbandonedRoomGoes`, `MatchStarts`, `EndIsTold`,
`FirstWinComes`, `IsAnswered`, `HeartbeatHeals`), since the prover has
neither ENABLED nor fairness. That the code's periods and the run's instances satisfy
the hypotheses of the conditional theorems is seen in the runs.

## 5. Not modelled

- The reports of the online page (`useGameExit.js:76`, `useGameLogic.js:521-590`): whether
  both pages report the same result once. Their receiving end is `Stats`; the
  same hooks of an offline page are in `OfflineGame`.
- The errors of the room service that the gateway meets, and the role check of
  `handleMove`, taken as passed. Boards on their way to the pages, whose order is
  not that of the saves.
- Two `start/offline` of one user at the same time, which leave two games: each
  model follows one game.
- Crashes of the presence service, after which the column stays as it is, and
  `last_seen`, which is written with it.
- The times of offline games are any natural number in `Stats`; the service takes any
  `int` (`stats_service/srcs/main.cpp:293`), also a negative one, which no page sends.
- Reads that change nothing: list of rooms, active room, pages of the match history.
- Accounts, OAuth, profiles and avatars: request and response over Django's own
  machinery. Display, navigation and keyboard. The console tools of the game
  service. nginx and the databases, except as delays and restarts.
- The third-party headers in the repository (`crow_all.h` twice, asio). They are most of
  its lines, and are used as the models say, not modelled.

## 6. What could come next

1. `OnlineReports`, extending `OnlineSession`: one result per player and match,
   with the lost surrender and the report in the opponent's name.
2. Lobby and match composed over one row, with the abstract room (waiting,
   playing, finished, gone) as what both promise.
3. `DealsFill` as a theorem for boxes of side 3: up to the names of the numbers and
   the order of rows and columns within a band there are few diagonals.
4. The variants behind the liveness properties (a cell and the numbers left of each
   call in `fill_other_boxes`, the messages left in an inbox) as action properties,
   which the prover can reach.
