------------------------------ MODULE RoomLobby ------------------------------
(***************************************************************************)
(* A room before the match: its row from startOnline until two players are *)
(* in it, with the owner's browser (the WAITING view of OnlineGamePopup),  *)
(* the guests who try to join, and the periodic cleanup of ghost rooms.    *)
(*                                                                         *)
(* Every handler first finds the row and later saves or deletes it by id;  *)
(* handlers interleave at each of these queries, as in RoomMatch.  The     *)
(* clock ticks in any unit of time.  A request takes at most MaxDelay      *)
(* ticks, on its way and in its queries together, an answer takes at most  *)
(* MaxDelay ticks; timers fire on time.  Times are kept as ages, because   *)
(* only the age of lastHeartbeat is ever looked at.  gameStartTime is left *)
(* out: it is written with guestId and always together with it.            *)
(***************************************************************************)
EXTENDS Integers, FiniteSets, RoomRow

CONSTANTS
  Guest,            \* the users who try to join the room
  NoGuest,          \* the null of the guestId column
  NoRoom,           \* the result of a findOne that finds no row
  HeartbeatPeriod,  \* time between the owner's heartbeats (2 s)
  SweepPeriod,      \* time between two ghost cleanups (2 s)
  GhostAge,         \* time without heartbeat that makes a ghost (3 s)
  MaxDelay          \* bound: time from a request to its save, or from a save to its answer

ASSUME PeriodAssumption ==
  /\ HeartbeatPeriod \in Nat \ {0} /\ SweepPeriod \in Nat \ {0}
  /\ GhostAge \in Nat /\ MaxDelay \in Nat
ASSUME NoGuestAssumption == NoGuest \notin Guest

\* Bound: all ages well above GhostAge are alike.
MaxAge == GhostAge + 2
\* Mutant: ages are not capped.
MutOlder(age) == age + 1
Older(age) == IF age < MaxAge THEN age + 1 ELSE MaxAge

Room == [guestId : Guest \union {NoGuest}, status : {"waiting", "playing"},
         age : 0 .. MaxAge]

ASSUME NoRoomAssumption == NoRoom \notin Room

NewRoom == [guestId |-> NoGuest, status |-> "waiting", age |-> 0]

\* Who has a handler running: one slot each.
Actor == {"heartbeat", "leave", "sweep", "purge"} \union Guest
ASSUME ActorAssumption == Guest \intersect {"heartbeat", "leave", "sweep", "purge"} = {}

VARIABLES
  row,    \* the room's row in PostgreSQL, or NoRoom
  req,    \* the handler each actor has in flight
  view,   \* the owner's browser: "opening", "waiting", "countdown" or "gone"
  beat,   \* time since the owner's browser sent a heartbeat; at first since the INSERT
  sweep,  \* time since the last ghost cleanup started
  told,   \* history: the guests whose join was answered with success
  clean   \* history: no handler wrote over a row that had changed since its find

clock == <<beat, sweep>>
vars == <<row, req, view, beat, sweep, told, clean>>

(***************************************************************************)
(* A handler: the entity it will save and the columns its save will write, *)
(* how long it has been running, and whether the row has changed since it  *)
(* was found.                                                              *)
(***************************************************************************)
RequestState ==
  [pc : {"idle", "saving", "updating", "inserting", "deleting"}, entity : Room,
   cols : SUBSET DOMAIN NewRoom, delay : 0 .. MaxDelay, overtaken : BOOLEAN]

Idle == [pc |-> "idle", entity |-> NewRoom, cols |-> {}, delay |-> 0, overtaken |-> FALSE]

\* startOnline (or roomCreate) has inserted the row; its answer is on its way to the owner.
Init ==
  /\ row = NewRoom
  /\ req = [a \in Actor |-> Idle]
  /\ view = "opening"
  /\ beat = 0
  /\ sweep \in 0 .. SweepPeriod
  /\ told = {}
  /\ clean = TRUE

-----------------------------------------------------------------------------
(* Finding the row.                                                        *)

Find(a, pc, entity) ==
  /\ row # NoRoom
  /\ req[a].pc = "idle"
  /\ req' = [req EXCEPT ![a] = [Idle EXCEPT !.pc = pc, !.entity = entity]]

\* Mutant: a full room is joined.
MutJoin(g) ==
  /\ g \notin told
  /\ row # NoRoom
  /\ Find(g, "saving", [row EXCEPT !.guestId = g, !.status = "playing"])
  /\ UNCHANGED <<row, view, clock, told, clean>>

\* roomJoin: a room that has a guest answers ROOM_FULL.
Join(g) ==
  /\ g \notin told
  /\ row # NoRoom
  /\ row.guestId = NoGuest
  /\ Find(g, "saving", [row EXCEPT !.guestId = g, !.status = "playing"])
  /\ UNCHANGED <<row, view, clock, told, clean>>

\* The WAITING view sends a heartbeat; the handler asks only for the owner.
Heartbeat ==
  /\ view = "waiting"
  /\ beat = HeartbeatPeriod
  /\ beat' = 0
  /\ \/ Find("heartbeat", "saving", [row EXCEPT !.age = 0])
     \/ row = NoRoom /\ UNCHANGED req
  /\ UNCHANGED <<row, view, sweep, told, clean>>

\* roomLeave, of the owner in any state of the room.
Leave ==
  /\ view = "waiting"
  /\ view' = "gone"
  /\ Find("leave", "deleting", row)
  /\ UNCHANGED <<row, clock, told, clean>>

\* cleanupOfflineUser: finds the owner's waiting rooms.
Purge ==
  /\ view = "gone"
  /\ row # NoRoom
  /\ row.status = "waiting"
  /\ Find("purge", "deleting", row)
  /\ UNCHANGED <<row, view, clock, told, clean>>

\* Mutant: half the time of a ghost is enough.
MutIsGhost == row # NoRoom /\ row.status = "waiting" /\ 2 * row.age > GhostAge

\* Mutant: the status is not looked at.
MutIsSilent == row # NoRoom /\ row.age > GhostAge

\* Mutant: only a room without heartbeat for exactly GhostAge is a ghost.
MutIsJustGhost == row # NoRoom /\ row.status = "waiting" /\ row.age = GhostAge

IsGhost == row # NoRoom /\ row.status = "waiting" /\ row.age > GhostAge

\* cleanupGhostRooms, every SweepPeriod.
Sweep ==
  /\ sweep = SweepPeriod
  /\ sweep' = 0
  /\ IF IsGhost /\ req["sweep"].pc = "idle"
       THEN Find("sweep", "deleting", row)
       ELSE UNCHANGED req
  /\ UNCHANGED <<row, view, beat, told, clean>>

-----------------------------------------------------------------------------
(* Saving and deleting.                                                    *)

\* The end of handler a, which leaves newRow.
Done(a, newRow) ==
  /\ row' = newRow
  /\ req' = [b \in Actor |->
               IF b = a THEN Idle
               ELSE IF req[b].pc = "idle" THEN Idle
               ELSE [req[b] EXCEPT !.overtaken = @ \/ newRow # row]]
  /\ told' = IF a \in Guest THEN told \union {a} ELSE told
  /\ clean' = (clean /\ ~req[a].overtaken)
  /\ UNCHANGED <<view, clock>>

\* The SELECT inside save: a row that is gone will be inserted again.
SaveSelect(a) ==
  /\ req[a].pc = "saving"
  /\ req' = [req EXCEPT
       ![a].pc = IF row = NoRoom THEN "inserting" ELSE "updating",
       ![a].cols = IF row = NoRoom THEN {} ELSE Changed(req[a].entity, row)]
  /\ UNCHANGED <<row, view, clock, told, clean>>

\* The UPDATE inside save; it touches no row when the room has been deleted.
SaveUpdate(a) ==
  /\ req[a].pc = "updating"
  /\ Done(a, IF row = NoRoom THEN NoRoom ELSE Updated(row, req[a].entity, req[a].cols))

\* The INSERT inside save: it fails on the primary key if another was faster.
SaveInsert(a) ==
  /\ req[a].pc = "inserting"
  /\ row = NoRoom
  /\ Done(a, req[a].entity)

SaveInsertFails(a) ==
  /\ req[a].pc = "inserting"
  /\ row # NoRoom
  /\ req' = [req EXCEPT ![a] = Idle]
  /\ UNCHANGED <<row, view, clock, told, clean>>

\* DELETE by id, whatever the room has become since it was found.
Delete(a) ==
  /\ req[a].pc = "deleting"
  /\ Done(a, NoRoom)

-----------------------------------------------------------------------------
(* The owner's browser and the clock.                                      *)

\* The answer of startOnline arrives: the WAITING view starts its timers.
Open ==
  /\ view = "opening"
  /\ view' = "waiting"
  /\ beat' = 0
  /\ UNCHANGED <<row, req, sweep, told, clean>>

\* Mutant: the view waits for a room that is finished.
MutPoll ==
  /\ view = "waiting"
  /\ row # NoRoom
  /\ row.status = "finished"
  /\ view' = "countdown"
  /\ UNCHANGED <<row, req, clock, told, clean>>

\* The WAITING view polls game-state and leaves when the room is playing.
Poll ==
  /\ view = "waiting"
  /\ row # NoRoom
  /\ row.status = "playing"
  /\ view' = "countdown"
  /\ UNCHANGED <<row, req, clock, told, clean>>

\* The owner closes the popup or the tab: heartbeats stop, leave is not called.
Abandon ==
  /\ view \in {"opening", "waiting"}
  /\ view' = "gone"
  /\ UNCHANGED <<row, req, clock, told, clean>>

Tick ==
  /\ \A a \in Actor : req[a].pc # "idle" => req[a].delay < MaxDelay
  /\ view = "opening" => beat < MaxDelay
  /\ view = "waiting" => beat < HeartbeatPeriod
  /\ sweep < SweepPeriod
  /\ sweep' = sweep + 1
  /\ beat' = IF view \in {"opening", "waiting"} THEN beat + 1 ELSE beat
  /\ row' = IF row = NoRoom THEN NoRoom ELSE [row EXCEPT !.age = Older(@)]
  /\ req' = [a \in Actor |->
               IF req[a].pc = "idle" THEN Idle
               ELSE [req[a] EXCEPT !.delay = @ + 1, !.entity.age = Older(@)]]
  /\ UNCHANGED <<view, told, clean>>

Finish(a) == SaveSelect(a) \/ SaveUpdate(a) \/ SaveInsert(a) \/ SaveInsertFails(a) \/ Delete(a)

Next ==
  \/ \E g \in Guest : Join(g)
  \/ Heartbeat \/ Leave \/ Purge \/ Sweep
  \/ \E a \in Actor : Finish(a)
  \/ Open \/ Poll \/ Abandon \/ Tick

(***************************************************************************)
(* Queries and HTTP requests finish, timers keep firing, time passes.      *)
(* Nobody has to join, leave or close the popup.                           *)
(***************************************************************************)
Fairness ==
  /\ \A a \in Actor : WF_vars(Finish(a))
  /\ WF_vars(Open) /\ WF_vars(Heartbeat) /\ WF_vars(Poll) /\ WF_vars(Sweep) /\ WF_vars(Tick)

Spec == Init /\ [][Next]_vars /\ Fairness
-----------------------------------------------------------------------------
(* Properties.                                                             *)

\* The row, the handlers, the owner's timers and the history are well typed.
TypeOK ==
  /\ row \in Room \union {NoRoom}
  /\ req \in [Actor -> RequestState]
  /\ view \in {"opening", "waiting", "countdown", "gone"}
  /\ beat \in (0 .. HeartbeatPeriod) \union (0 .. MaxDelay) /\ sweep \in 0 .. SweepPeriod
  /\ told \subseteq Guest
  /\ clean \in BOOLEAN

SweepDeletes ==
  req["sweep"].pc = "deleting" /\ req'["sweep"].pc = "idle" /\ row # NoRoom

(***************************************************************************)
(* The ghost cleanup deletes by id what it found earlier.  The row may     *)
(* have become a match since then, by a guest who joined meanwhile.  That  *)
(* is never a match of two players who are there: the owner was gone       *)
(* before.  Whatever the saves of the owner and of one guest overwrite.    *)
(***************************************************************************)
SparesTheMatch ==
  [][SweepDeletes /\ Cardinality(told) <= 1 /\ row.status = "playing" => view = "gone"]_vars

(***************************************************************************)
(* From the INSERT of the room until the match, heartbeats keep the ghost  *)
(* cleanup away from a room whose owner is there, whatever the saves of    *)
(* the owner and of one guest overwrite.  (Two guests who are both told    *)
(* that they have joined overwrite two heartbeats in a row.)               *)
(***************************************************************************)
SparesTheWaiting ==
  [][SweepDeletes /\ Cardinality(told) <= 1 => view \notin {"opening", "waiting"}]_vars

(***************************************************************************)
(* roomJoin: the guest who was told success is the guest of the room, and  *)
(* there is one, unless a handler wrote over a change it had not seen.     *)
(***************************************************************************)
JoinHonoured ==
  clean /\ row # NoRoom =>
    told = IF row.status = "playing" THEN {row.guestId} ELSE {}

(***************************************************************************)
(* cleanupGhostRooms: once its owner is gone a room does not wait for ever *)
(* in the list of rooms, even if a late save inserts it again.             *)
(***************************************************************************)
AbandonedRoomGoes ==
  view = "gone" ~> [](row = NoRoom \/ row.status = "playing")

(***************************************************************************)
(* A join that was answered with success brings the waiting owner into the *)
(* match, unless a handler wrote over a change it had not seen.            *)
(***************************************************************************)
MatchStarts == told # {} ~> (view \in {"countdown", "gone"} \/ ~clean)
=============================================================================
