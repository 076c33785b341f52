-------------------------- MODULE RoomLobby_proofs --------------------------
(***************************************************************************)
(* Proofs about RoomLobby for any number of guests and any periods: type   *)
(* correctness, JoinHonoured and, when a heartbeat and two delays are no   *)
(* longer than the age of a ghost, SparesTheWaiting and SparesTheMatch.    *)
(***************************************************************************)
EXTENDS RoomLobby, FiniteSetTheorems, TLAPS

LEMMA Ages == MaxAge \in Nat /\ GhostAge \in Nat /\ MaxDelay \in Nat /\ HeartbeatPeriod \in Nat /\ SweepPeriod \in Nat
BY PeriodAssumption DEF MaxAge

\* A column is copied or changed by one of the handlers.
LEMMA RoomChanges ==
  ASSUME NEW room \in Room
  PROVE  /\ \A g \in Guest : [room EXCEPT !.guestId = g, !.status = "playing"] \in Room
         /\ [room EXCEPT !.age = 0] \in Room
         /\ [room EXCEPT !.age = Older(@)] \in Room
         /\ \A entity \in Room : \A cols : Updated(room, entity, cols) \in Room
         /\ \A entity \in Room : Changed(entity, room) \subseteq DOMAIN NewRoom
<1>1. room.age \in 0 .. MaxAge /\ Older(room.age) \in 0 .. MaxAge
  BY Ages DEF Room, Older
<1>2. \A g \in Guest : [room EXCEPT !.guestId = g, !.status = "playing"] \in Room
  BY DEF Room
<1>3. [room EXCEPT !.age = 0] \in Room
  BY Ages DEF Room
<1>4. [room EXCEPT !.age = Older(@)] \in Room
  BY <1>1 DEF Room
<1>5. ASSUME NEW entity \in Room, NEW cols PROVE Updated(room, entity, cols) \in Room
  <2>1. Updated(room, entity, cols) =
          [guestId |-> IF "guestId" \in cols THEN entity.guestId ELSE room.guestId,
           status  |-> IF "status" \in cols THEN entity.status ELSE room.status,
           age     |-> IF "age" \in cols THEN entity.age ELSE room.age]
    BY DEF Updated, Room
  <2>2. QED BY <2>1 DEF Room
<1>6. ASSUME NEW entity \in Room PROVE Changed(entity, room) \subseteq DOMAIN NewRoom
  BY DEF Changed, Room, NewRoom
<1>7. QED BY <1>2, <1>3, <1>4, <1>5, <1>6

LEMMA NewRoomType == NewRoom \in Room /\ Idle \in RequestState
<1>1. NewRoom \in Room
  BY Ages DEF NewRoom, Room
<1>2. QED BY <1>1, Ages DEF Idle, RequestState

\* A request that finds the row is well typed.
LEMMA FindTypes ==
  ASSUME TypeOK, NEW a \in Actor, NEW pc \in {"saving", "deleting"}, NEW entity \in Room,
         Find(a, pc, entity)
  PROVE  req' \in [Actor -> RequestState]
<1>1. [Idle EXCEPT !.pc = pc, !.entity = entity] \in RequestState
  BY NewRoomType DEF RequestState
<1>2. QED BY <1>1 DEF Find, TypeOK

LEMMA DoneTypes ==
  ASSUME TypeOK, NEW a \in Actor, NEW newRow \in Room \union {NoRoom}, Done(a, newRow)
  PROVE  TypeOK'
<1>1. ASSUME NEW b \in Actor
      PROVE  [req[b] EXCEPT !.overtaken = @ \/ newRow # row] \in RequestState
  <2>1. req[b] \in RequestState /\ req[b].overtaken \in BOOLEAN
    BY DEF TypeOK, RequestState
  <2>2. \A x \in BOOLEAN : [req[b] EXCEPT !.overtaken = x] \in RequestState
    BY <2>1 DEF RequestState
  <2>3. QED BY <2>1, <2>2
<1>2. req' \in [Actor -> RequestState]
  BY <1>1, NewRoomType DEF Done
<1>3. told' \subseteq Guest
  BY DEF Done, TypeOK
<1>4. clean' \in BOOLEAN
  BY DEF Done, TypeOK, RequestState
<1>5. QED BY <1>2, <1>3, <1>4 DEF Done, TypeOK, clock

LEMMA FinishTypes == ASSUME TypeOK, NEW a \in Actor, Finish(a) PROVE TypeOK'
<1>1. req[a] \in RequestState /\ req[a].entity \in Room
  BY DEF TypeOK, RequestState
<1>2. CASE SaveSelect(a)
  <2> DEFINE pc == IF row = NoRoom THEN "inserting" ELSE "updating"
             cols == IF row = NoRoom THEN {} ELSE Changed(req[a].entity, row)
  <2>1. cols \subseteq DOMAIN NewRoom
    BY <1>1, RoomChanges DEF TypeOK
  <2>2. pc \in {"inserting", "updating"}
    OBVIOUS
  <2>3. req' = [req EXCEPT ![a] = [req[a] EXCEPT !.pc = pc, !.cols = cols]]
    BY <1>1, <1>2 DEF SaveSelect, TypeOK, RequestState
  <2> HIDE DEF pc, cols
  <2>4. [req[a] EXCEPT !.pc = pc, !.cols = cols] \in RequestState
    BY <1>1, <2>1, <2>2 DEF RequestState
  <2>5. req' \in [Actor -> RequestState]
    BY <2>3, <2>4 DEF TypeOK
  <2>6. QED BY <1>2, <2>5 DEF SaveSelect, TypeOK, clock
<1>3. CASE SaveUpdate(a)
  BY <1>1, <1>3, DoneTypes, RoomChanges DEF SaveUpdate, TypeOK
<1>4. CASE SaveInsert(a)
  BY <1>1, <1>4, DoneTypes DEF SaveInsert
<1>5. CASE SaveInsertFails(a)
  <2>1. req' \in [Actor -> RequestState]
    BY <1>5, NewRoomType DEF SaveInsertFails, TypeOK
  <2>2. QED BY <1>5, <2>1 DEF SaveInsertFails, TypeOK, clock
<1>6. CASE Delete(a)
  BY <1>6, DoneTypes DEF Delete
<1>7. QED BY <1>2, <1>3, <1>4, <1>5, <1>6 DEF Finish

LEMMA TickTypes == ASSUME TypeOK, Tick PROVE TypeOK'
<1>1. row' \in Room \union {NoRoom}
  BY RoomChanges DEF Tick, TypeOK
<1>2. ASSUME NEW a \in Actor, req[a].pc # "idle"
      PROVE  [req[a] EXCEPT !.delay = @ + 1, !.entity.age = Older(@)] \in RequestState
  <2> DEFINE older == [req[a].entity EXCEPT !.age = Older(@)]
  <2>1. req[a] \in RequestState /\ req[a].entity \in Room /\ req[a].delay \in 0 .. MaxDelay
    BY DEF TypeOK, RequestState
  <2>2. req[a].delay + 1 \in 0 .. MaxDelay
    <3>1. req[a].delay < MaxDelay
      BY <1>2 DEF Tick
    <3>2. QED BY <2>1, <3>1, Ages
  <2>3. older \in Room
    BY <2>1, RoomChanges
  <2>4. [req[a] EXCEPT !.delay = @ + 1, !.entity.age = Older(@)]
          = [req[a] EXCEPT !.delay = req[a].delay + 1, !.entity = older]
    BY <2>1 DEF RequestState
  <2> HIDE DEF older
  <2>5. \A d \in 0 .. MaxDelay : [req[a] EXCEPT !.delay = d, !.entity = older] \in RequestState
    BY <2>1, <2>3 DEF RequestState
  <2>6. QED BY <2>2, <2>4, <2>5
<1>3. req' \in [Actor -> RequestState]
  BY <1>2, NewRoomType DEF Tick
<1>4. beat' \in (0 .. HeartbeatPeriod) \union (0 .. MaxDelay) /\ sweep' \in 0 .. SweepPeriod
  <2>1. beat \in (0 .. HeartbeatPeriod) \union (0 .. MaxDelay) /\ sweep \in 0 .. SweepPeriod
    BY DEF TypeOK
  <2>2. sweep < SweepPeriod /\ sweep' = sweep + 1
    BY DEF Tick
  <2>3. \/ beat' = beat
        \/ (beat < HeartbeatPeriod \/ beat < MaxDelay) /\ beat' = beat + 1
    BY DEF Tick
  <2>4. sweep' \in 0 .. SweepPeriod
    BY <2>1, <2>2, Ages
  <2>5. beat' \in (0 .. HeartbeatPeriod) \union (0 .. MaxDelay)
    BY <2>1, <2>3, Ages
  <2>6. QED BY <2>4, <2>5
<1>5. QED BY <1>1, <1>3, <1>4 DEF Tick, TypeOK

LEMMA TypeStep == TypeOK /\ [Next]_vars => TypeOK'
<1> SUFFICES ASSUME TypeOK, [Next]_vars PROVE TypeOK'
  OBVIOUS
<1>1. ASSUME NEW g \in Guest, Join(g) PROVE TypeOK'
  <2>1. row \in Room /\ g \in Actor
    BY <1>1 DEF Join, TypeOK, Actor
  <2>2. req' \in [Actor -> RequestState]
    BY <1>1, <2>1, RoomChanges, FindTypes DEF Join
  <2>3. QED BY <1>1, <2>2 DEF Join, TypeOK, clock
<1>2. CASE Heartbeat
  <2>1. req' \in [Actor -> RequestState]
    <3>1. CASE Find("heartbeat", "saving", [row EXCEPT !.age = 0])
      <4>1. row \in Room /\ "heartbeat" \in Actor
        BY <3>1 DEF Find, TypeOK, Actor
      <4>2. QED BY <3>1, <4>1, RoomChanges, FindTypes
    <3>2. QED BY <1>2, <3>1 DEF Heartbeat, TypeOK
  <2>2. QED BY <1>2, <2>1, Ages DEF Heartbeat, TypeOK
<1>3. CASE Leave
  <2>1. row \in Room /\ "leave" \in Actor
    BY <1>3 DEF Leave, Find, TypeOK, Actor
  <2>2. req' \in [Actor -> RequestState]
    BY <1>3, <2>1, FindTypes DEF Leave
  <2>3. QED BY <1>3, <2>2 DEF Leave, TypeOK, clock
<1>4. CASE Purge
  <2>1. row \in Room /\ "purge" \in Actor
    BY <1>4 DEF Purge, TypeOK, Actor
  <2>2. req' \in [Actor -> RequestState]
    BY <1>4, <2>1, FindTypes DEF Purge
  <2>3. QED BY <1>4, <2>2 DEF Purge, TypeOK, clock
<1>5. CASE Sweep
  <2>1. req' \in [Actor -> RequestState]
    <3>1. CASE Find("sweep", "deleting", row)
      <4>1. row \in Room /\ "sweep" \in Actor
        BY <3>1 DEF Find, TypeOK, Actor
      <4>2. QED BY <3>1, <4>1, FindTypes
    <3>2. QED BY <1>5, <3>1 DEF Sweep, TypeOK
  <2>2. QED BY <1>5, <2>1, Ages DEF Sweep, TypeOK
<1>6. ASSUME NEW a \in Actor, Finish(a) PROVE TypeOK'
  BY <1>6, FinishTypes
<1>7. CASE Open \/ Poll \/ Abandon
  BY <1>7, Ages DEF Open, Poll, Abandon, TypeOK, clock
<1>8. CASE Tick
  BY <1>8, TickTypes
<1>9. CASE UNCHANGED vars
  BY <1>9 DEF vars, TypeOK
<1>10. QED
  BY <1>1, <1>2, <1>3, <1>4, <1>5, <1>6, <1>7, <1>8, <1>9 DEF Next

(***************************************************************************)
(* The room, the handlers and the timers are what they are declared to be, *)
(* for any number of guests, any periods and any delay.                    *)
(***************************************************************************)
THEOREM LobbyTypes == Spec => []TypeOK
<1>1. Init => TypeOK
  BY NewRoomType, Ages DEF Init, TypeOK
<1>2. QED
  BY <1>1, TypeStep, PTL DEF Spec

-----------------------------------------------------------------------------
(***************************************************************************)
(* JoinHonoured.  A handler that was not overtaken has found the row as it *)
(* is now, apart from the age, which is that of its entity if it is to be  *)
(* saved: its UPDATE leaves exactly its entity.                            *)
(***************************************************************************)

\* The room with the guest g, which is what a join saves.
Joined(room, g) == [room EXCEPT !.guestId = g, !.status = "playing"]

\* What the handler a goes on, if nobody has changed the row since its find.
Answers(a, q, room) ==
  /\ a \in Guest => q.pc # "deleting" /\ room.guestId = NoGuest /\ q.entity = Joined(room, a)
  /\ a = "heartbeat" => q.pc # "deleting" /\ q.entity = [room EXCEPT !.age = q.entity.age]
  /\ a \in {"leave", "purge", "sweep"} => q.pc = "deleting"

Current(a, q, room) ==
  q.pc # "idle" /\ ~q.overtaken =>
    /\ room # NoRoom /\ q.pc # "inserting"
    /\ Answers(a, q, room)
    /\ q.pc = "updating" => \A col \in DOMAIN NewRoom : col \in q.cols \/ q.entity[col] = room[col]

CurrentInv == \A a \in Actor : Current(a, req[a], row)

LEMMA ActorFacts ==
  /\ \A g \in Guest : g \in Actor /\ g # NoGuest /\ g \notin {"heartbeat", "leave", "purge", "sweep"}
  /\ {"heartbeat", "leave", "purge", "sweep"} \subseteq Actor
BY ActorAssumption, NoGuestAssumption DEF Actor

LEMMA UpdatedAll ==
  ASSUME NEW room \in Room, NEW entity \in Room, NEW cols,
         \A col \in DOMAIN NewRoom : col \in cols \/ entity[col] = room[col]
  PROVE  Updated(room, entity, cols) = entity
BY DEF Updated, Room, NewRoom

\* A handler that has just found the row is current; the others stay so.
LEMMA FindIsCurrent ==
  ASSUME TypeOK, CurrentInv, row' = row,
         NEW a \in Actor, NEW pc \in {"saving", "deleting"}, NEW entity \in Room,
         Find(a, pc, entity), Answers(a, [Idle EXCEPT !.pc = pc, !.entity = entity], row)
  PROVE  CurrentInv'
<1> DEFINE q == [Idle EXCEPT !.pc = pc, !.entity = entity]
<1>1. q.pc = pc /\ pc # "inserting" /\ pc # "updating" /\ row # NoRoom
  BY DEF Find, Idle
<1>2. Answers(a, q, row)
  OBVIOUS
<1> HIDE DEF q
<1>3. Current(a, q, row)
  BY <1>1, <1>2 DEF Current
<1>4. req' = [req EXCEPT ![a] = q]
  BY DEF Find, q
<1>5. QED BY <1>3, <1>4 DEF CurrentInv, TypeOK

\* A handler that ends leaves the others current, or overtakes them.
LEMMA DoneIsCurrent ==
  ASSUME TypeOK, CurrentInv, NEW a \in Actor, NEW newRow, Done(a, newRow)
  PROVE  CurrentInv'
<1> SUFFICES ASSUME NEW b \in Actor PROVE Current(b, req'[b], row')
  BY DEF CurrentInv
<1>1. req[b] \in RequestState /\ row' = newRow
  BY DEF TypeOK, Done
<1>2. CASE b = a \/ req[b].pc = "idle"
  <2>1. req'[b] = Idle
    BY <1>2 DEF Done
  <2>2. QED BY <2>1 DEF Current, Idle
<1>3. CASE b # a /\ req[b].pc # "idle"
  <2>1. req'[b] = [req[b] EXCEPT !.overtaken = @ \/ newRow # row]
    BY <1>3 DEF Done
  <2>2. CASE newRow = row
    <3>1. req'[b] = req[b]
      BY <1>1, <2>1, <2>2 DEF RequestState
    <3>2. QED BY <1>1, <2>2, <3>1 DEF CurrentInv
  <2>3. CASE newRow # row
    <3>1. req'[b].overtaken
      BY <1>1, <2>1, <2>3 DEF RequestState
    <3>2. QED BY <3>1 DEF Current
  <2>4. QED BY <2>2, <2>3
<1>4. QED BY <1>2, <1>3

LEMMA SelectIsCurrent ==
  ASSUME TypeOK, CurrentInv, NEW a \in Actor, SaveSelect(a)
  PROVE  CurrentInv'
<1> DEFINE q == req[a]
           p == req'[a]
<1>1. q \in RequestState /\ q.entity \in Room /\ row' = row /\ q.pc = "saving"
  BY DEF TypeOK, RequestState, SaveSelect
<1>2. /\ p.pc = (IF row = NoRoom THEN "inserting" ELSE "updating")
      /\ p.entity = q.entity /\ p.overtaken = q.overtaken
      /\ row # NoRoom => p.cols = Changed(q.entity, row)
  BY <1>1 DEF SaveSelect, TypeOK, RequestState
<1>3. \A b \in Actor \ {a} : req'[b] = req[b]
  BY DEF SaveSelect, TypeOK
<1> HIDE DEF q, p
<1>4. ASSUME ~q.overtaken PROVE Current(a, p, row)
  <2>1. Current(a, q, row)
    BY DEF CurrentInv, q
  <2>2. row # NoRoom /\ Answers(a, q, row)
    BY <1>1, <1>4, <2>1 DEF Current
  <2>3. row \in Room /\ p.pc = "updating" /\ p.cols = Changed(p.entity, row)
    BY <1>2, <2>2 DEF TypeOK
  <2>4. Answers(a, p, row)
    BY <1>1, <1>2, <2>2, <2>3 DEF Answers
  <2>5. \A col \in DOMAIN NewRoom : col \in p.cols \/ p.entity[col] = row[col]
    BY <2>3 DEF Changed, NewRoom, Room
  <2>6. QED BY <2>2, <2>3, <2>4, <2>5 DEF Current
<1>5. Current(a, p, row)
  BY <1>2, <1>4 DEF Current
<1>6. QED BY <1>1, <1>3, <1>5 DEF CurrentInv, p

\* A second passes alike for the row and for what is going to be saved.
LEMMA TickIsCurrent ==
  ASSUME TypeOK, CurrentInv, Tick
  PROVE  CurrentInv'
<1> SUFFICES ASSUME NEW a \in Actor PROVE Current(a, req'[a], row')
  BY DEF CurrentInv
<1> DEFINE q == req[a]
           p == req'[a]
<1>1. q \in RequestState /\ q.entity \in Room
  BY DEF TypeOK, RequestState
<1>2. CASE q.pc = "idle" \/ q.overtaken
  <2>1. p.pc = "idle" \/ p.overtaken
    BY <1>1, <1>2 DEF Tick, Idle, RequestState
  <2>2. QED BY <2>1 DEF Current
<1>3. CASE q.pc # "idle" /\ ~q.overtaken
  <2>1. row # NoRoom /\ q.pc # "inserting" /\ Answers(a, q, row)
    BY <1>3 DEF CurrentInv, Current
  <2>2. q.pc = "updating" => \A col \in DOMAIN NewRoom : col \in q.cols \/ q.entity[col] = row[col]
    BY <1>3 DEF CurrentInv, Current
  <2>3. row \in Room /\ row' = [row EXCEPT !.age = Older(row.age)]
    BY <2>1 DEF Tick, TypeOK
  <2>4. /\ p.pc = q.pc /\ p.cols = q.cols
        /\ p.entity = [q.entity EXCEPT !.age = Older(q.entity.age)]
    BY <1>1, <1>3 DEF Tick, RequestState
  <2> HIDE DEF q, p
  <2>5. row' # NoRoom
    BY <2>3, RoomChanges, NoRoomAssumption
  <2>6. /\ row'.guestId = row.guestId /\ row'.status = row.status /\ row'.age = Older(row.age)
        /\ p.entity.guestId = q.entity.guestId /\ p.entity.status = q.entity.status
        /\ p.entity.age = Older(q.entity.age)
    BY <1>1, <2>3, <2>4 DEF Room
  <2>7. Answers(a, p, row')
    <3>1. ASSUME a \in Guest PROVE p.entity = Joined(row', a)
      <4>1. q.entity = Joined(row, a)
        BY <2>1, <3>1 DEF Answers
      <4>2. q.entity.age = row.age
        BY <2>3, <4>1 DEF Joined, Room
      <4>3. QED BY <2>3, <2>4, <4>1, <4>2 DEF Joined, Room
    <3>2. ASSUME a = "heartbeat" PROVE p.entity = [row' EXCEPT !.age = p.entity.age]
      <4>1. q.entity = [row EXCEPT !.age = q.entity.age]
        BY <2>1, <3>2 DEF Answers
      <4>2. QED BY <1>1, <2>3, <2>4, <4>1 DEF Room
    <3>3. QED BY <2>1, <2>4, <2>6, <3>1, <3>2 DEF Answers
  <2>8. p.pc = "updating" => \A col \in DOMAIN NewRoom : col \in p.cols \/ p.entity[col] = row'[col]
    BY <1>1, <2>2, <2>3, <2>4, <2>6 DEF NewRoom, Room
  <2>9. QED BY <2>1, <2>4, <2>5, <2>7, <2>8 DEF Current, p
<1>4. QED BY <1>2, <1>3

LEMMA FinishIsCurrent ==
  ASSUME TypeOK, CurrentInv, NEW a \in Actor, Finish(a)
  PROVE  CurrentInv'
<1>1. CASE SaveSelect(a)
  BY <1>1, SelectIsCurrent
<1>2. CASE SaveUpdate(a)
  BY <1>2, DoneIsCurrent DEF SaveUpdate
<1>3. CASE SaveInsert(a)
  BY <1>3, DoneIsCurrent DEF SaveInsert
<1>4. CASE SaveInsertFails(a)
  <2>1. Current(a, req'[a], row')
    BY <1>4 DEF SaveInsertFails, TypeOK, Current, Idle
  <2>2. \A b \in Actor \ {a} : req'[b] = req[b]
    BY <1>4 DEF SaveInsertFails, TypeOK
  <2>3. QED BY <1>4, <2>1, <2>2 DEF CurrentInv, SaveInsertFails
<1>5. CASE Delete(a)
  BY <1>5, DoneIsCurrent DEF Delete
<1>6. QED BY <1>1, <1>2, <1>3, <1>4, <1>5 DEF Finish

LEMMA CurrentStep == TypeOK /\ CurrentInv /\ [Next]_vars => CurrentInv'
<1> SUFFICES ASSUME TypeOK, CurrentInv, [Next]_vars PROVE CurrentInv'
  OBVIOUS
<1>1. ASSUME NEW g \in Guest, Join(g) PROVE CurrentInv'
  <2> DEFINE q == [Idle EXCEPT !.pc = "saving", !.entity = Joined(row, g)]
  <2>1. row \in Room /\ row' = row /\ row.guestId = NoGuest /\ Find(g, "saving", Joined(row, g))
    BY <1>1 DEF Join, TypeOK, Joined
  <2>2. Joined(row, g) \in Room
    BY <2>1, RoomChanges DEF Joined
  <2>3. q.pc = "saving" /\ q.entity = Joined(row, g)
    BY DEF Idle
  <2>4. Answers(g, q, row)
    BY <2>1, <2>3, ActorFacts DEF Answers
  <2>5. QED BY <2>1, <2>2, <2>4, ActorFacts, FindIsCurrent
<1>2. CASE Heartbeat
  <2> DEFINE entity == [row EXCEPT !.age = 0]
             q == [Idle EXCEPT !.pc = "saving", !.entity = entity]
  <2>1. CASE Find("heartbeat", "saving", entity)
    <3>1. row \in Room /\ row' = row
      BY <1>2, <2>1 DEF Heartbeat, Find, TypeOK
    <3>2. q.pc = "saving" /\ q.entity = entity /\ entity = [row EXCEPT !.age = entity.age]
      BY <3>1 DEF Idle, Room
    <3>3. Answers("heartbeat", q, row)
      BY <3>2, ActorFacts DEF Answers
    <3>4. QED BY <2>1, <3>1, <3>3, RoomChanges, ActorFacts, FindIsCurrent
  <2>2. CASE UNCHANGED <<row, req>>
    BY <2>2 DEF CurrentInv
  <2>3. QED BY <1>2, <2>1, <2>2 DEF Heartbeat
<1>3. ASSUME NEW a \in {"leave", "purge", "sweep"}, Find(a, "deleting", row), row' = row
      PROVE  CurrentInv'
  <2> DEFINE q == [Idle EXCEPT !.pc = "deleting", !.entity = row]
  <2>1. row \in Room /\ q.pc = "deleting"
    BY <1>3 DEF Find, TypeOK, Idle
  <2>2. Answers(a, q, row)
    BY <1>3, <2>1, ActorFacts DEF Answers
  <2>3. QED BY <1>3, <2>1, <2>2, ActorFacts, FindIsCurrent
<1>4. CASE Leave \/ Purge
  BY <1>3, <1>4 DEF Leave, Purge
<1>5. CASE Sweep
  BY <1>3, <1>5 DEF Sweep, CurrentInv
<1>6. ASSUME NEW a \in Actor, Finish(a) PROVE CurrentInv'
  BY <1>6, FinishIsCurrent
<1>7. CASE Open \/ Poll \/ Abandon \/ UNCHANGED vars
  BY <1>7 DEF Open, Poll, Abandon, vars, CurrentInv
<1>8. CASE Tick
  BY <1>8, TickIsCurrent
<1>9. QED
  BY <1>1, <1>2, <1>4, <1>5, <1>6, <1>7, <1>8 DEF Next

\* What handler a saves when it was not overtaken is its entity.
LEMMA CleanSave ==
  ASSUME TypeOK, CurrentInv, NEW a \in Actor, req[a].pc \in {"updating", "inserting"}, ~req[a].overtaken
  PROVE  /\ row \in Room /\ req[a].pc = "updating" /\ Answers(a, req[a], row)
         /\ Updated(row, req[a].entity, req[a].cols) = req[a].entity
<1>1. Current(a, req[a], row)
  BY DEF CurrentInv
<1>2. row \in Room /\ req[a].pc = "updating" /\ Answers(a, req[a], row)
  BY <1>1 DEF Current, TypeOK
<1>3. \A col \in DOMAIN NewRoom : col \in req[a].cols \/ req[a].entity[col] = row[col]
  BY <1>1, <1>2 DEF Current
<1>4. req[a].entity \in Room
  BY DEF TypeOK, RequestState
<1>5. QED BY <1>2, <1>3, <1>4, UpdatedAll

LEMMA HonourStep == TypeOK /\ CurrentInv /\ JoinHonoured /\ [Next]_vars => JoinHonoured'
<1> SUFFICES ASSUME TypeOK, CurrentInv, JoinHonoured, [Next]_vars, clean', row' # NoRoom
             PROVE  told' = IF row'.status = "playing" THEN {row'.guestId} ELSE {}
  BY DEF JoinHonoured
<1> DEFINE Honoured(t, room) == t = IF room.status = "playing" THEN {room.guestId} ELSE {}
<1>1. ASSUME UNCHANGED <<row, told, clean>> PROVE Honoured(told', row')
  BY <1>1 DEF JoinHonoured
<1>2. ASSUME NEW a \in Actor, Finish(a) PROVE Honoured(told', row')
  <2>1. CASE SaveSelect(a) \/ SaveInsertFails(a)
    BY <1>1, <2>1 DEF SaveSelect, SaveInsertFails
  <2>2. CASE Delete(a)
    BY <2>2 DEF Delete, Done
  <2>3. CASE SaveUpdate(a) \/ SaveInsert(a)
    <3> DEFINE entity == req[a].entity
    <3>1. req[a].pc \in {"updating", "inserting"} /\ clean /\ ~req[a].overtaken
      BY <2>3 DEF SaveUpdate, SaveInsert, Done
    <3>2. row \in Room /\ Answers(a, req[a], row) /\ row # NoRoom /\ req[a].pc = "updating"
      BY <3>1, CleanSave, NoRoomAssumption
    <3>3. row' = entity /\ told' = IF a \in Guest THEN told \union {a} ELSE told
      BY <2>3, <3>1, <3>2, CleanSave DEF SaveUpdate, SaveInsert, Done
    <3>4. Honoured(told, row)
      BY <3>1, <3>2 DEF JoinHonoured
    <3>5. CASE a \in Guest
      <4>1. row.guestId = NoGuest /\ entity = Joined(row, a)
        BY <3>2, <3>5 DEF Answers
      <4>2. told = {}
        BY <3>4, <4>1, NoGuestAssumption DEF TypeOK
      <4>3. entity.status = "playing" /\ entity.guestId = a
        BY <3>2, <4>1 DEF Joined, Room
      <4>4. QED BY <3>3, <3>5, <4>2, <4>3
    <3>6. CASE a = "heartbeat"
      <4>1. entity = [row EXCEPT !.age = entity.age]
        BY <3>2, <3>6 DEF Answers
      <4>2. entity.status = row.status /\ entity.guestId = row.guestId
        BY <3>2, <4>1 DEF Room
      <4>3. QED BY <3>3, <3>4, <3>6, <4>2, ActorFacts
    <3>7. CASE a \in {"leave", "purge", "sweep"}
      BY <3>2, <3>7 DEF Answers
    <3>8. QED BY <3>5, <3>6, <3>7 DEF Actor
  <2>4. QED BY <1>2, <2>1, <2>2, <2>3 DEF Finish
<1>3. CASE Tick
  <2>1. row \in Room /\ row' = [row EXCEPT !.age = Older(row.age)] /\ told' = told /\ clean
    BY <1>3 DEF Tick, TypeOK
  <2>2. row'.status = row.status /\ row'.guestId = row.guestId
    BY <2>1 DEF Room
  <2>3. row # NoRoom
    BY <1>3 DEF Tick
  <2>4. QED BY <2>1, <2>2, <2>3 DEF JoinHonoured
<1>4. CASE Next
  BY <1>1, <1>2, <1>3, <1>4 DEF Next, Join, Heartbeat, Leave, Purge, Sweep, Open, Poll, Abandon
<1>5. QED BY <1>1, <1>4 DEF vars

LEMMA InitIsCurrent == Init => CurrentInv
BY DEF Init, CurrentInv, Current, Idle

LEMMA LobbyIsCurrent == Spec => []CurrentInv
BY InitIsCurrent, LobbyTypes, CurrentStep, PTL DEF Spec

(***************************************************************************)
(* Until a handler writes over a change it had not seen, the guest of a    *)
(* room that is playing is the only one who was told that the join         *)
(* succeeded, whatever else finds and saves the row at the same time.      *)
(***************************************************************************)
THEOREM JoinsAreHonoured == Spec => []JoinHonoured
<1>1. Init => JoinHonoured
  BY DEF Init, JoinHonoured, NewRoom
<1>2. QED
  BY <1>1, LobbyTypes, LobbyIsCurrent, HonourStep, PTL DEF Spec

-----------------------------------------------------------------------------
\* The end of a handler leaves the others what they are, or overtakes them.
LEMMA DoneOthers ==
  ASSUME TypeOK, NEW a \in Actor, NEW newRow, Done(a, newRow), NEW b \in Actor
  PROVE  /\ b = a => req'[b].pc = "idle"
         /\ b # a => /\ req'[b].pc = req[b].pc
                     /\ req[b].pc # "idle" =>
                          /\ req'[b].entity = req[b].entity /\ req'[b].delay = req[b].delay
                          /\ ~req'[b].overtaken => ~req[b].overtaken
<1>1. req[b] \in RequestState
  BY DEF TypeOK
<1>2. CASE b = a
  BY <1>2 DEF Done, Idle
<1>3. CASE b # a /\ req[b].pc = "idle"
  BY <1>3 DEF Done, Idle
<1>4. CASE b # a /\ req[b].pc # "idle"
  <2>1. req'[b] = [req[b] EXCEPT !.overtaken = @ \/ newRow # row]
    BY <1>4 DEF Done
  <2>2. QED BY <1>1, <1>4, <2>1 DEF RequestState
<1>5. QED BY <1>2, <1>3, <1>4


(***************************************************************************)
(* SparesTheWaiting.  From the INSERT until the match, saves overwrite     *)
(* each other, but as long as one guest at most was told that he joined,   *)
(* at most one save of a guest has been written, over a waiting room.      *)
(* That room is playing; it waits again only by the save of a heartbeat    *)
(* that had found it before, and such a save leaves the room with the age  *)
(* of that heartbeat.  The room itself is older than what the browser has  *)
(* counted by the delay of the first answer, and, while a heartbeat is on  *)
(* its way, by a period.                                                   *)
(***************************************************************************)
FewTold == \A g, h \in told : g = h

OwnerIsThere == view \in {"opening", "waiting"}

\* What the age of a waiting room may be above beat.
Slack(q) == IF view = "opening" THEN 0
            ELSE IF q.pc = "idle" THEN MaxDelay ELSE HeartbeatPeriod + MaxDelay

Watched ==
  LET q == req["heartbeat"] IN
  /\ row # NoRoom
  /\ view = "opening" => q.pc = "idle" /\ beat <= MaxDelay
  /\ view = "waiting" => beat <= HeartbeatPeriod
  /\ \A a \in Actor : req[a].pc # "inserting"
  /\ \A a \in {"leave", "purge", "sweep"} : req[a].pc = "idle"
  /\ told = {} => /\ row.status = "waiting"
                  /\ \A g \in Guest : req[g].pc = "updating" => "status" \in req[g].cols
  /\ q.pc # "idle" =>
       /\ beat <= q.delay /\ q.entity.age <= beat
       /\ row.status = "waiting" => q.entity.status = "waiting"
  /\ q.pc = "updating" =>
       /\ row.status = "waiting" => "status" \notin q.cols
       /\ row.status = "waiting" \/ "status" \in q.cols => "age" \in q.cols \/ row.age = q.entity.age
  /\ row.status = "waiting" => row.age <= beat + Slack(q)

JoinsOnce ==
  \A g \in Guest : req[g].pc # "idle" =>
    g \notin told /\ req[g].pc # "deleting" /\ req[g].entity.status = "playing"

WaitInv ==
  /\ IsFiniteSet(told)
  /\ JoinsOnce
  /\ req["heartbeat"].pc # "deleting"
  /\ OwnerIsThere /\ FewTold => Watched

\* The room of an owner who is there is no ghost.
LEMMA WaitingIsNoGhost ==
  ASSUME TypeOK, Watched, OwnerIsThere, HeartbeatPeriod + 2 * MaxDelay <= GhostAge
  PROVE  ~IsGhost
<1> SUFFICES ASSUME IsGhost PROVE FALSE
  OBVIOUS
<1> DEFINE q == req["heartbeat"]
<1>1. row.age > GhostAge /\ row.age \in Nat /\ beat \in Nat /\ row.age <= beat + Slack(q)
  BY Ages DEF IsGhost, TypeOK, Room, Watched
<1>2. q.delay \in 0 .. MaxDelay
  BY ActorFacts DEF TypeOK, RequestState
<1>3. /\ view = "opening" => beat <= MaxDelay
      /\ view = "waiting" => beat <= HeartbeatPeriod
      /\ q.pc # "idle" => beat <= q.delay
  BY DEF Watched
<1> HIDE DEF q
<1>4. CASE view = "opening"
  BY <1>1, <1>3, <1>4, Ages DEF Slack
<1>5. CASE view = "waiting" /\ q.pc = "idle"
  BY <1>1, <1>3, <1>5, Ages DEF Slack
<1>6. CASE view = "waiting" /\ q.pc # "idle"
  BY <1>1, <1>2, <1>3, <1>6, Ages DEF Slack
<1>7. QED BY <1>4, <1>5, <1>6 DEF OwnerIsThere

\* A handler of somebody else enters.
LEMMA WaitFind ==
  ASSUME TypeOK, WaitInv, NEW a \in Actor, a # "heartbeat", NEW pc \in {"saving", "deleting"},
         NEW entity, Find(a, pc, entity), UNCHANGED <<row, beat, told>>,
         a \in Guest => a \notin told /\ pc = "saving" /\ entity.status = "playing" /\ view' = view,
         a \notin Guest => ~OwnerIsThere'
  PROVE  WaitInv'
<1>1. /\ req'[a].pc = pc /\ req'[a].entity = entity
      /\ \A b \in Actor \ {a} : req'[b] = req[b]
  BY NewRoomType DEF Find, TypeOK, Idle
<1>2. JoinsOnce' /\ req'["heartbeat"] = req["heartbeat"]
  BY <1>1, ActorFacts DEF WaitInv, JoinsOnce
<1>3. ASSUME a \in Guest, Watched PROVE Watched'
  BY <1>1, <1>2, <1>3, ActorFacts DEF Watched, Slack
<1>4. QED BY <1>2, <1>3 DEF WaitInv, FewTold, OwnerIsThere

\* The SELECT of a save.
LEMMA WaitSelect ==
  ASSUME TypeOK, WaitInv, NEW a \in Actor, SaveSelect(a)
  PROVE  WaitInv'
<1>1. /\ UNCHANGED <<row, view, beat, told>> /\ req[a].pc = "saving"
      /\ \A b \in Actor \ {a} : req'[b] = req[b]
      /\ req[a] \in RequestState /\ req[a].entity \in Room
  BY DEF SaveSelect, clock, TypeOK, RequestState
<1>2. /\ req'[a].pc = IF row = NoRoom THEN "inserting" ELSE "updating"
      /\ req'[a].cols = IF row = NoRoom THEN {} ELSE Changed(req[a].entity, row)
      /\ req'[a].entity = req[a].entity /\ req'[a].delay = req[a].delay
  BY <1>1 DEF SaveSelect, TypeOK, RequestState
<1>3. JoinsOnce' /\ req'["heartbeat"].pc # "deleting"
  BY <1>1, <1>2, ActorFacts DEF WaitInv, JoinsOnce
<1>4. ASSUME Watched PROVE Watched'
  <2>1. row \in Room /\ row # NoRoom
    BY <1>4 DEF Watched, TypeOK
  <2>2. \A col \in {"status", "age"} : col \in req'[a].cols <=> req[a].entity[col] # row[col]
    BY <1>2, <2>1 DEF Changed, Room
  <2>3. /\ "status" \in req'[a].cols <=> req[a].entity.status # row.status
        /\ "age" \in req'[a].cols <=> req[a].entity.age # row.age
    BY <2>2
  <2>4. req'[a].pc = "updating"
    BY <1>2, <2>1
  <2>5. CASE a = "heartbeat"
    BY <1>1, <1>2, <1>4, <2>3, <2>4, <2>5, ActorFacts DEF Watched, Slack
  <2>6. CASE a \in Guest
    <3>1. req'["heartbeat"] = req["heartbeat"] /\ req[a].entity.status = "playing"
      BY <1>1, <2>6, ActorFacts DEF WaitInv, JoinsOnce
    <3>2. QED BY <1>1, <1>4, <2>3, <2>4, <2>6, <3>1, ActorFacts DEF Watched, Slack
  <2>7. QED BY <1>1, <1>4, <2>5, <2>6 DEF Watched, Actor
<1>5. QED BY <1>1, <1>3, <1>4 DEF WaitInv, FewTold, OwnerIsThere

\* Saves and deletes that change the history: what they leave of the others.
LEMMA DoneJoins ==
  ASSUME TypeOK, WaitInv, NEW a \in Actor, NEW newRow, Done(a, newRow)
  PROVE  /\ IsFiniteSet(told') /\ JoinsOnce' /\ req'["heartbeat"].pc # "deleting"
         /\ view' = view /\ (FewTold' => FewTold)
<1>1. told' = told \union {a} \/ told' = told
  BY DEF Done
<1>2. IsFiniteSet(told')
  BY <1>1, FS_AddElement DEF WaitInv
<1>3. ASSUME NEW g \in Guest, req'[g].pc # "idle"
      PROVE  g \notin told' /\ req'[g].pc # "deleting" /\ req'[g].entity.status = "playing"
  <2>1. g # a /\ g \in Actor
    BY <1>3, ActorFacts, DoneOthers
  <2>2. req'[g].pc = req[g].pc /\ req'[g].entity = req[g].entity
    BY <1>3, <2>1, DoneOthers
  <2>3. QED BY <1>1, <1>3, <2>1, <2>2 DEF WaitInv, JoinsOnce
<1>4. req'["heartbeat"].pc # "deleting"
  BY ActorFacts, DoneOthers DEF WaitInv
<1>5. view' = view /\ (FewTold' => FewTold)
  BY <1>1 DEF Done, FewTold
<1>6. QED BY <1>2, <1>3, <1>4, <1>5 DEF JoinsOnce

\* The UPDATE of a save.
LEMMA WaitUpdate ==
  ASSUME TypeOK, WaitInv, NEW a \in Actor, SaveUpdate(a)
  PROVE  WaitInv'
<1> DEFINE q == req["heartbeat"]
           p == req'["heartbeat"]
<1>1. PICK newRow : Done(a, newRow)
  BY DEF SaveUpdate
<1>2. SUFFICES ASSUME OwnerIsThere, FewTold, FewTold', Watched PROVE Watched'
  BY <1>1, DoneJoins DEF WaitInv, OwnerIsThere
<1>3. /\ row \in Room /\ row # NoRoom /\ req[a] \in RequestState /\ req[a].entity \in Room
      /\ req[a].pc = "updating" /\ beat' = beat /\ view' = view
  BY <1>1, <1>2 DEF Watched, TypeOK, RequestState, SaveUpdate, Done, clock
<1>4. row' = Updated(row, req[a].entity, req[a].cols) /\ row' \in Room /\ row' # NoRoom
  BY <1>3, RoomChanges, NoRoomAssumption DEF SaveUpdate, Done
<1>5. /\ row'.status = IF "status" \in req[a].cols THEN req[a].entity.status ELSE row.status
      /\ row'.age = IF "age" \in req[a].cols THEN req[a].entity.age ELSE row.age
  BY <1>3, <1>4 DEF Updated, Room
<1>6. /\ \A b \in Actor : b # a => req'[b].pc = req[b].pc
      /\ req'[a].pc = "idle"
      /\ \A b \in Actor : b # a /\ req[b].pc # "idle" =>
           req'[b].entity = req[b].entity /\ req'[b].delay = req[b].delay /\ req'[b].cols = req[b].cols
  <2>1. ASSUME NEW b \in Actor, b # a, req[b].pc # "idle" PROVE req'[b].cols = req[b].cols
    <3>1. req[b] \in RequestState
      BY DEF TypeOK
    <3>2. req'[b] = [req[b] EXCEPT !.overtaken = @ \/ newRow # row]
      BY <1>1, <2>1 DEF Done
    <3>3. QED BY <3>1, <3>2 DEF RequestState
  <2>2. QED BY <1>1, <2>1, DoneOthers
<1>7. /\ \A b \in Actor : req'[b].pc # "inserting"
      /\ \A b \in {"leave", "purge", "sweep"} : req'[b].pc = "idle"
  BY <1>2, <1>6, ActorFacts DEF Watched
<1>8. CASE a = "heartbeat"
  <2>1. told' = told
    BY <1>1, <1>8, ActorFacts DEF Done
  <2>2. /\ q.entity.age <= beat
        /\ row.status = "waiting" => q.entity.status = "waiting" /\ "status" \notin q.cols
        /\ row.status = "waiting" \/ "status" \in q.cols => "age" \in q.cols \/ row.age = q.entity.age
    BY <1>2, <1>3, <1>8 DEF Watched
  <2>3. view = "waiting" /\ (row'.status = "waiting" => row'.age <= beat)
    BY <1>2, <1>3, <1>5, <1>8, <2>2 DEF Watched, OwnerIsThere
  <2>4. told' = {} => /\ row'.status = "waiting"
                      /\ \A g \in Guest : req'[g].pc = "updating" => "status" \in req'[g].cols
    BY <1>2, <1>5, <1>6, <1>8, <2>1, <2>2, ActorFacts DEF Watched
  <2>5. p.pc = "idle"
    BY <1>6, <1>8
  <2>6. row'.status = "waiting" => row'.age <= beat + MaxDelay
    <3>1. row'.age \in Nat /\ beat \in Nat
      BY <1>4, Ages DEF Room, TypeOK
    <3>2. QED BY <2>3, <3>1, Ages
  <2>7. QED BY <1>2, <1>3, <1>4, <1>7, <2>3, <2>4, <2>5, <2>6 DEF Watched, Slack
<1>9. CASE a \in Guest
  <2>1. told' = told \union {a} /\ a \notin told
    BY <1>1, <1>3, <1>9 DEF Done, WaitInv, JoinsOnce
  <2>2. told = {}
    BY <1>2, <2>1 DEF FewTold
  <2>3. row'.status = "playing"
    BY <1>2, <1>3, <1>5, <1>9, <2>2 DEF Watched, WaitInv, JoinsOnce
  <2>4. /\ a # "heartbeat" /\ "heartbeat" \in Actor
        /\ q.pc = "updating" => "status" \notin q.cols
    BY <1>2, <1>9, <2>2, ActorFacts DEF Watched
  <2>5. p.pc = q.pc /\ (q.pc # "idle" => p.entity = q.entity /\ p.delay = q.delay /\ p.cols = q.cols)
    BY <1>6, <2>4
  <2>6. p.pc # "idle" => beat' <= p.delay /\ p.entity.age <= beat'
    BY <1>2, <1>3, <2>5 DEF Watched
  <2>7. QED BY <1>2, <1>3, <1>4, <1>7, <2>1, <2>3, <2>4, <2>5, <2>6 DEF Watched
<1>10. QED BY <1>2, <1>3, <1>8, <1>9 DEF Watched, Actor

\* No other end of a handler falls to a waiting room.
LEMMA WaitFinish ==
  ASSUME TypeOK, WaitInv, NEW a \in Actor, Finish(a)
  PROVE  WaitInv'
<1>1. CASE SaveInsert(a) \/ Delete(a)
  <2>1. PICK newRow : Done(a, newRow)
    BY <1>1 DEF SaveInsert, Delete
  <2>2. ~Watched
    BY <1>1, ActorFacts DEF SaveInsert, Delete, Watched, WaitInv, JoinsOnce, Actor
  <2>3. QED BY <2>1, <2>2, DoneJoins DEF WaitInv, OwnerIsThere
<1>2. CASE SaveInsertFails(a)
  <2>1. UNCHANGED <<row, view, told>> /\ \A b \in Actor : req'[b] = req[b] \/ req'[b].pc = "idle"
    BY <1>2 DEF SaveInsertFails, TypeOK, Idle
  <2>2. ~Watched
    BY <1>2 DEF SaveInsertFails, Watched
  <2>3. JoinsOnce' /\ req'["heartbeat"].pc # "deleting"
    BY <2>1, ActorFacts DEF WaitInv, JoinsOnce
  <2>4. QED BY <2>1, <2>2, <2>3 DEF WaitInv, FewTold, OwnerIsThere
<1>3. QED BY <1>1, <1>2, WaitSelect, WaitUpdate DEF Finish

\* The owner's browser sends a heartbeat.
LEMMA WaitHeartbeat ==
  ASSUME TypeOK, WaitInv, Heartbeat
  PROVE  WaitInv'
<1>1. UNCHANGED <<row, view, told>> /\ view = "waiting" /\ beat = HeartbeatPeriod /\ beat' = 0
  BY DEF Heartbeat
<1>2. CASE Find("heartbeat", "saving", [row EXCEPT !.age = 0])
  <2> DEFINE p == req'["heartbeat"]
  <2>1. row \in Room /\ row # NoRoom /\ req["heartbeat"].pc = "idle"
    BY <1>2 DEF Find, TypeOK
  <2>2. /\ p.pc = "saving" /\ p.delay = 0 /\ p.entity.age = 0 /\ p.entity.status = row.status
        /\ \A b \in Actor \ {"heartbeat"} : req'[b] = req[b]
    BY <1>2, <2>1, ActorFacts DEF Find, TypeOK, Idle, Room
  <2> HIDE DEF p
  <2>3. JoinsOnce' /\ p.pc # "deleting"
    BY <1>1, <2>2, ActorFacts DEF WaitInv, JoinsOnce
  <2>4. ASSUME Watched PROVE Watched'
    <3>1. row.status = "waiting" => row.age <= 0 + (HeartbeatPeriod + MaxDelay)
      BY <1>1, <2>1, <2>4, Ages DEF Watched, Slack
    <3>2. 0 <= p.delay /\ p.entity.age <= 0
      BY <2>2
    <3>3. \A a \in Actor : req'[a].pc # "inserting"
      BY <2>2, <2>4 DEF Watched, p
    <3>4. \A a \in {"leave", "purge", "sweep"} : req'[a].pc = "idle"
      BY <2>2, <2>4, ActorFacts DEF Watched
    <3>5. told = {} => /\ row.status = "waiting"
                       /\ \A g \in Guest : req'[g].pc = "updating" => "status" \in req'[g].cols
      BY <2>2, <2>4, ActorFacts DEF Watched
    <3>6. QED BY <1>1, <2>1, <2>2, <3>1, <3>2, <3>3, <3>4, <3>5, Ages DEF Watched, Slack, p
  <2>5. QED BY <1>1, <2>3, <2>4 DEF WaitInv, FewTold, OwnerIsThere, p
<1>3. CASE row = NoRoom /\ UNCHANGED req
  BY <1>1, <1>3 DEF WaitInv, JoinsOnce, FewTold, OwnerIsThere, Watched
<1>4. QED BY <1>2, <1>3 DEF Heartbeat

\* A second passes: for the row, the entities and the heartbeat alike.
LEMMA WaitTick ==
  ASSUME TypeOK, WaitInv, Tick
  PROVE  WaitInv'
<1> DEFINE q == req["heartbeat"]
           p == req'["heartbeat"]
<1>1. UNCHANGED <<view, told>>
  BY DEF Tick
<1>2. ASSUME NEW a \in Actor
      PROVE  /\ req'[a].pc = req[a].pc
             /\ req[a].pc # "idle" =>
                  /\ req'[a].cols = req[a].cols /\ req'[a].delay = req[a].delay + 1
                  /\ req'[a].entity.status = req[a].entity.status
                  /\ req'[a].entity.age = Older(req[a].entity.age)
  <2>1. req[a] \in RequestState /\ req[a].entity \in Room
    BY DEF TypeOK, RequestState
  <2>2. CASE req[a].pc = "idle"
    BY <2>2 DEF Tick, Idle
  <2>3. CASE req[a].pc # "idle"
    <3>1. req'[a] = [req[a] EXCEPT !.delay = @ + 1, !.entity.age = Older(@)]
      BY <2>3 DEF Tick
    <3>2. QED BY <2>1, <3>1 DEF RequestState, Room
  <2>4. QED BY <2>2, <2>3
<1>3. JoinsOnce' /\ p.pc # "deleting"
  BY <1>1, <1>2, ActorFacts DEF WaitInv, JoinsOnce
<1>4. ASSUME OwnerIsThere, Watched PROVE Watched'
  <2>1. /\ row \in Room /\ row # NoRoom /\ beat' = beat + 1 /\ beat \in Nat
        /\ row' = [row EXCEPT !.age = Older(row.age)]
    <3>1. row \in Room /\ row # NoRoom
      BY <1>4 DEF Watched, TypeOK
    <3>2. beat' = beat + 1 /\ row' = [row EXCEPT !.age = Older(row.age)]
      BY <1>4, <3>1 DEF Tick, OwnerIsThere
    <3>3. beat \in Nat
      BY Ages DEF TypeOK
    <3>4. QED BY <3>1, <3>2, <3>3
  <2>2. row' # NoRoom /\ row'.status = row.status /\ row'.age = Older(row.age) /\ row.age \in Nat
    <3>1. row' \in Room
      BY <2>1, RoomChanges
    <3>2. row.age \in 0 .. MaxAge
      BY <2>1 DEF Room
    <3>3. QED BY <2>1, <3>1, <3>2, Ages, NoRoomAssumption DEF Room
  <2>3. \A age \in Nat : Older(age) \in Nat /\ Older(age) <= age + 1
    BY Ages DEF Older
  <2>4. q.entity.age \in Nat /\ q.delay \in Nat
    <3>1. q.entity.age \in 0 .. MaxAge /\ q.delay \in 0 .. MaxDelay
      BY ActorFacts DEF TypeOK, RequestState, Room
    <3>2. QED BY <3>1, Ages
  <2>5. /\ p.pc = q.pc
        /\ q.pc # "idle" =>
             /\ p.cols = q.cols /\ p.delay = q.delay + 1
             /\ p.entity.status = q.entity.status /\ p.entity.age = Older(q.entity.age)
    BY <1>2, ActorFacts
  <2>6. p.pc # "idle" =>
          /\ beat' <= p.delay /\ p.entity.age <= beat'
          /\ row'.status = "waiting" => p.entity.status = "waiting"
    <3> SUFFICES ASSUME q.pc # "idle"
                 PROVE  /\ beat' <= p.delay /\ p.entity.age <= beat'
                        /\ row'.status = "waiting" => p.entity.status = "waiting"
      BY <2>5
    <3>1. beat <= q.delay /\ q.entity.age <= beat /\ (row.status = "waiting" => q.entity.status = "waiting")
      BY <1>4 DEF Watched
    <3> HIDE DEF p, q
    <3>2. beat' <= p.delay
      BY <2>1, <2>4, <2>5, <3>1
    <3>3. p.entity.age <= beat'
      <4>1. Older(q.entity.age) \in Nat /\ Older(q.entity.age) <= q.entity.age + 1
        BY <2>3, <2>4
      <4>2. QED BY <2>1, <2>4, <2>5, <3>1, <4>1
    <3>4. QED BY <2>2, <2>5, <3>1, <3>2, <3>3
  <2>7. p.pc = "updating" =>
          /\ row'.status = "waiting" => "status" \notin p.cols
          /\ row'.status = "waiting" \/ "status" \in p.cols => "age" \in p.cols \/ row'.age = p.entity.age
    BY <1>4, <2>2, <2>5 DEF Watched
  <2>8. row'.status = "waiting" => row'.age <= beat' + Slack(q)
    <3>1. row.status = "waiting" => row.age <= beat + Slack(q)
      BY <1>4, <2>1 DEF Watched
    <3>2. Slack(q) \in Nat
      BY Ages DEF Slack
    <3>3. Older(row.age) \in Nat /\ Older(row.age) <= row.age + 1
      BY <2>2, <2>3
    <3>4. QED BY <2>1, <2>2, <3>1, <3>2, <3>3
  <2>9. /\ \A a \in Actor : req'[a].pc # "inserting"
        /\ \A a \in {"leave", "purge", "sweep"} : req'[a].pc = "idle"
        /\ told' = {} => /\ row'.status = "waiting"
                         /\ \A g \in Guest : req'[g].pc = "updating" => "status" \in req'[g].cols
    BY <1>1, <1>2, <1>4, <2>2, ActorFacts DEF Watched
  <2>10. /\ view = "opening" => q.pc = "idle" /\ beat' <= MaxDelay
         /\ view = "waiting" => beat' <= HeartbeatPeriod
    <3>1. /\ view = "opening" => q.pc = "idle" /\ beat < MaxDelay
          /\ view = "waiting" => beat < HeartbeatPeriod
      BY <1>4 DEF Tick, Watched
    <3> HIDE DEF p, q
    <3>2. QED BY <2>1, <3>1, Ages
  <2> HIDE DEF p, q
  <2>11. QED BY <1>1, <2>2, <2>5, <2>6, <2>7, <2>8, <2>9, <2>10 DEF Watched, Slack, p
<1>5. QED BY <1>1, <1>3, <1>4 DEF WaitInv, FewTold, OwnerIsThere

\* The answer arrives, no later than MaxDelay after the INSERT.
LEMMA WaitOpen ==
  ASSUME TypeOK, WaitInv, Open
  PROVE  WaitInv'
<1>1. /\ UNCHANGED <<row, req, told>> /\ view = "opening" /\ view' = "waiting" /\ beat' = 0
      /\ beat \in Nat /\ (row # NoRoom => row.age \in Nat)
  BY Ages DEF Open, TypeOK, Room
<1>2. ASSUME Watched PROVE Watched'
  <2>1. req["heartbeat"].pc = "idle" /\ beat <= MaxDelay /\ row # NoRoom
    BY <1>1, <1>2 DEF Watched
  <2>2. row.status = "waiting" => row.age <= 0 + MaxDelay
    BY <1>1, <1>2, <2>1, Ages DEF Watched, Slack
  <2>3. QED BY <1>1, <1>2, <2>1, <2>2, Ages DEF Watched, Slack
<1>3. QED BY <1>1, <1>2 DEF WaitInv, JoinsOnce, FewTold, OwnerIsThere

LEMMA WaitStep ==
  ASSUME HeartbeatPeriod + 2 * MaxDelay <= GhostAge
  PROVE  TypeOK /\ WaitInv /\ [Next]_vars => WaitInv'
<1> SUFFICES ASSUME TypeOK, WaitInv, [Next]_vars PROVE WaitInv'
  OBVIOUS
<1>1. ASSUME NEW g \in Guest, Join(g) PROVE WaitInv'
  <2>1. row \in Room /\ g \in Actor /\ g # "heartbeat"
    BY <1>1, ActorFacts DEF Join, TypeOK
  <2>2. [row EXCEPT !.guestId = g, !.status = "playing"].status = "playing"
    BY <2>1 DEF Room
  <2>3. QED BY <1>1, <2>1, <2>2, WaitFind DEF Join, clock
<1>2. CASE Leave \/ Purge
  BY <1>2, WaitFind, ActorFacts DEF Leave, Purge, clock, OwnerIsThere
<1>3. CASE Sweep
  <2>1. UNCHANGED <<row, view, beat, told>>
    BY <1>3 DEF Sweep
  <2>2. CASE UNCHANGED req
    BY <2>1, <2>2 DEF WaitInv, JoinsOnce, FewTold, OwnerIsThere, Watched, Slack
  <2>3. CASE IsGhost /\ Find("sweep", "deleting", row)
    <3>1. OwnerIsThere => ~Watched
      BY <2>3, WaitingIsNoGhost
    <3>2. \A b \in Actor \ {"sweep"} : req'[b] = req[b]
      BY <2>3 DEF Find, TypeOK
    <3>3. JoinsOnce' /\ req'["heartbeat"].pc # "deleting"
      BY <2>1, <3>2, ActorFacts DEF WaitInv, JoinsOnce
    <3>4. QED BY <2>1, <3>1, <3>3 DEF WaitInv, FewTold, OwnerIsThere
  <2>4. QED BY <1>3, <2>2, <2>3 DEF Sweep
<1>4. CASE Poll \/ Abandon
  BY <1>4 DEF Poll, Abandon, clock, WaitInv, JoinsOnce, OwnerIsThere
<1>5. CASE UNCHANGED vars
  BY <1>5 DEF vars, clock, WaitInv, JoinsOnce, FewTold, OwnerIsThere, Watched, Slack
<1>6. QED
  BY <1>1, <1>2, <1>3, <1>4, <1>5, WaitHeartbeat, WaitOpen, WaitTick, WaitFinish DEF Next

LEMMA InitIsWatched == Init => WaitInv
<1> SUFFICES ASSUME Init PROVE WaitInv
  OBVIOUS
<1>1. \A a \in Actor : req[a].pc = "idle"
  BY DEF Init, Idle
<1>2. /\ row = NewRoom /\ row.age = 0 /\ row.status = "waiting" /\ row # NoRoom
      /\ view = "opening" /\ beat = 0 /\ told = {}
  BY NewRoomType, NoRoomAssumption DEF Init, NewRoom
<1>3. IsFiniteSet(told)
  BY <1>2, FS_EmptySet
<1>4. QED BY <1>1, <1>2, <1>3, Ages, ActorFacts DEF WaitInv, JoinsOnce, Watched, Slack

LEMMA LobbyIsWatched ==
  ASSUME HeartbeatPeriod + 2 * MaxDelay <= GhostAge
  PROVE  Spec => []WaitInv
BY InitIsWatched, LobbyTypes, WaitStep, PTL DEF Spec

LEMMA FewAreTold == ASSUME WaitInv, Cardinality(told) <= 1 PROVE FewTold
<1>1. IsFiniteSet(told)
  BY DEF WaitInv
<1>2. Cardinality(told) \in Nat
  BY <1>1, FS_CardinalityType
<1>3. Cardinality(told) = 0 \/ Cardinality(told) = 1
  BY <1>2
<1>4. told = {} \/ \E g : told = {g}
  BY <1>1, <1>3, FS_EmptySet, FS_Singleton
<1>5. QED BY <1>4 DEF FewTold

(***************************************************************************)
(* When a heartbeat period and two delays, that of the answer that opens   *)
(* the room and that of a heartbeat, are together no longer than the age   *)
(* of a ghost, the ghost cleanup never deletes the room of an owner who is *)
(* there and has no match yet, although saves overwrite heartbeats, until  *)
(* a second guest was told that he joined.                                 *)
(***************************************************************************)
THEOREM WaitingIsSpared ==
  ASSUME HeartbeatPeriod + 2 * MaxDelay <= GhostAge
  PROVE  Spec => SparesTheWaiting
<1>1. WaitInv => [SweepDeletes /\ Cardinality(told) <= 1 => view \notin {"opening", "waiting"}]_vars
  <2> SUFFICES ASSUME WaitInv, SweepDeletes, Cardinality(told) <= 1, OwnerIsThere
               PROVE  FALSE
    BY DEF OwnerIsThere
  <2>1. QED BY FewAreTold DEF WaitInv, Watched, SweepDeletes
<1>2. QED
  BY <1>1, LobbyIsWatched, PTL DEF Spec, SparesTheWaiting

-----------------------------------------------------------------------------
(***************************************************************************)
(* SparesTheMatch.  Once the owner counts down he sends no heartbeat any   *)
(* more.  His room plays and no sweep has found it, until his last         *)
(* heartbeat, if it had found the room before the guest joined, turns the  *)
(* room back to waiting.  A sweep may find that, but then only the save of *)
(* another guest could make it play again.                                 *)
(***************************************************************************)
InMatch ==
  /\ told # {}
  /\ req["leave"].pc = "idle" /\ req["purge"].pc = "idle"
  /\ \/ row # NoRoom /\ row.status = "playing" /\ req["sweep"].pc = "idle"
     \/ (row = NoRoom \/ row.status = "waiting") /\ req["heartbeat"].pc = "idle"

MatchInv ==
  /\ req["sweep"].pc \in {"idle", "deleting"}
  /\ view = "countdown" /\ FewTold => InMatch

LEMMA MatchFinish ==
  ASSUME TypeOK, WaitInv, MatchInv, NEW a \in Actor, Finish(a)
  PROVE  MatchInv'
<1>1. CASE SaveSelect(a) \/ SaveInsertFails(a)
  <2>1. /\ UNCHANGED <<row, view, told>> /\ req[a].pc # "idle"
        /\ \A b \in Actor \ {a} : req'[b] = req[b]
        /\ \A b \in Actor : req[b].pc = "idle" => req'[b].pc = "idle"
        /\ req[a].pc # "deleting"
    BY <1>1 DEF SaveSelect, SaveInsertFails, TypeOK
  <2>2. QED BY <2>1, ActorFacts DEF MatchInv, InMatch, FewTold
<1>2. CASE SaveUpdate(a) \/ SaveInsert(a) \/ Delete(a)
  <2>1. PICK newRow : Done(a, newRow)
    BY <1>2 DEF SaveUpdate, SaveInsert, Delete
  <2> SUFFICES ASSUME view = "countdown", FewTold, FewTold', InMatch PROVE InMatch'
    BY <2>1, DoneJoins, DoneOthers, ActorFacts DEF MatchInv
  <2>2. InMatch
    OBVIOUS
  <2>3. \A b \in Actor : req[b].pc = "idle" => req'[b].pc = "idle"
    BY <2>1, DoneOthers
  <2>4. CASE a \in Guest
    <3>1. told' = told \union {a} /\ a \notin told
      BY <1>2, <2>1, <2>4 DEF Done, WaitInv, JoinsOnce, SaveUpdate, SaveInsert, Delete
    <3>2. QED BY <2>2, <3>1 DEF InMatch, FewTold
  <2>5. CASE a = "heartbeat"
    <3>1. /\ told' = told /\ req'["heartbeat"].pc = "idle"
          /\ req["heartbeat"].pc # "idle"
      <4>1. told' = told
        BY <2>1, <2>5, ActorFacts DEF Done
      <4>2. req'["heartbeat"].pc = "idle"
        BY <2>1, <2>5, ActorFacts, DoneOthers
      <4>3. req["heartbeat"].pc # "idle"
        BY <1>2, <2>5 DEF SaveUpdate, SaveInsert, Delete
      <4>4. QED BY <4>1, <4>2, <4>3
    <3>2. row # NoRoom /\ req["sweep"].pc = "idle"
      BY <2>2, <3>1 DEF InMatch
    <3>3. row' \in Room \union {NoRoom}
      BY <1>2, FinishTypes DEF Finish, TypeOK
    <3>4. row' = NoRoom \/ row'.status \in {"waiting", "playing"}
      BY <3>3 DEF Room
    <3>5. req'["sweep"].pc = "idle" /\ (row' = NoRoom \/ row' \in Room)
      BY <2>3, <3>2, <3>3, ActorFacts
    <3>6. QED BY <2>2, <2>3, <3>1, <3>4, <3>5, NoRoomAssumption, ActorFacts DEF InMatch
  <2>6. CASE a = "sweep"
    <3>1. row' = NoRoom /\ told' = told /\ req["heartbeat"].pc = "idle"
      <4>1. Delete("sweep")
        BY <1>2, <2>6 DEF MatchInv, SaveUpdate, SaveInsert
      <4>2. QED BY <2>2, <4>1, ActorFacts DEF Delete, Done, InMatch
    <3>2. QED BY <2>2, <2>3, <3>1, ActorFacts DEF InMatch
  <2>7. CASE a = "leave" \/ a = "purge"
    BY <1>2, <2>2, <2>7 DEF InMatch, SaveUpdate, SaveInsert, Delete
  <2>8. QED BY <2>4, <2>5, <2>6, <2>7 DEF Actor
<1>3. QED BY <1>1, <1>2 DEF Finish
LEMMA MatchStep == TypeOK /\ WaitInv /\ MatchInv /\ [Next]_vars => MatchInv'
<1> SUFFICES ASSUME TypeOK, WaitInv, MatchInv, [Next]_vars PROVE MatchInv'
  OBVIOUS
<1>1. ASSUME NEW g \in Guest, Join(g) PROVE MatchInv'
  <2>1. /\ UNCHANGED <<row, view, told>> /\ \A b \in Actor \ {g} : req'[b] = req[b]
    BY <1>1 DEF Join, Find, TypeOK
  <2>2. QED BY <2>1, ActorFacts DEF MatchInv, InMatch, FewTold
<1>2. CASE Heartbeat \/ Open
  <2>1. view' # "countdown" /\ req'["sweep"] = req["sweep"]
    BY <1>2, ActorFacts DEF Heartbeat, Open, Find, TypeOK
  <2>2. QED BY <2>1 DEF MatchInv
<1>3. CASE Leave \/ Purge
  <2>1. view' # "countdown" /\ req'["sweep"] = req["sweep"]
    BY <1>3, ActorFacts DEF Leave, Purge, Find, TypeOK
  <2>2. QED BY <2>1 DEF MatchInv
<1>4. CASE Sweep
  <2>1. UNCHANGED <<row, view, told>>
    BY <1>4 DEF Sweep
  <2>2. CASE UNCHANGED req
    BY <2>1, <2>2 DEF MatchInv, InMatch, FewTold
  <2>3. CASE IsGhost /\ Find("sweep", "deleting", row)
    <3>1. /\ req'["sweep"].pc = "deleting" /\ \A b \in Actor \ {"sweep"} : req'[b] = req[b]
          /\ row.status = "waiting" /\ row.status # "playing"
      BY <2>3, ActorFacts DEF Find, TypeOK, Idle, IsGhost
    <3>2. QED BY <2>1, <3>1, ActorFacts DEF MatchInv, InMatch, FewTold
  <2>4. QED BY <1>4, <2>2, <2>3 DEF Sweep
<1>5. CASE Poll
  <2>1. /\ UNCHANGED <<row, req, told>> /\ view = "waiting"
        /\ row # NoRoom /\ row.status = "playing" /\ row.status # "waiting"
    BY <1>5 DEF Poll
  <2>2. FewTold => InMatch
    BY <2>1 DEF WaitInv, OwnerIsThere, Watched, InMatch
  <2>3. QED BY <2>1, <2>2 DEF MatchInv, InMatch, FewTold
<1>6. CASE Abandon
  BY <1>6 DEF Abandon, MatchInv
<1>7. CASE Tick
  <2>1. \A a \in Actor : req'[a].pc = req[a].pc
    BY <1>7 DEF Tick, TypeOK, RequestState, Idle
  <2>2. /\ UNCHANGED <<view, told>> /\ (row' = NoRoom <=> row = NoRoom)
        /\ row # NoRoom => row'.status = row.status
    <3>1. row \in Room => row' = [row EXCEPT !.age = Older(row.age)]
      BY <1>7, NoRoomAssumption DEF Tick
    <3>2. row \in Room => row' \in Room
      BY <3>1, RoomChanges
    <3>3. row \in Room => row'.status = row.status
      BY <3>1 DEF Room
    <3>4. QED BY <1>7, <3>2, <3>3, NoRoomAssumption DEF Tick, TypeOK
  <2>3. QED BY <2>1, <2>2, ActorFacts DEF MatchInv, InMatch, FewTold
<1>8. ASSUME NEW a \in Actor, Finish(a) PROVE MatchInv'
  BY <1>8, MatchFinish
<1>9. CASE UNCHANGED vars
  BY <1>9 DEF vars, MatchInv, InMatch, FewTold
<1>10. QED
  BY <1>1, <1>2, <1>3, <1>4, <1>5, <1>6, <1>7, <1>8, <1>9 DEF Next

(***************************************************************************)
(* Under the same condition on the times, a match that the ghost cleanup   *)
(* deletes, because a guest joined after the cleanup had found the room,   *)
(* is never one of an owner who counts down to it: until a second guest    *)
(* was told that he joined, its owner was gone before.                     *)
(***************************************************************************)
THEOREM MatchIsSpared ==
  ASSUME HeartbeatPeriod + 2 * MaxDelay <= GhostAge
  PROVE  Spec => SparesTheMatch
<1>1. Init => MatchInv
  BY ActorFacts DEF Init, MatchInv, Idle
<1>2. TypeOK /\ WaitInv /\ MatchInv
        => [SweepDeletes /\ Cardinality(told) <= 1 /\ row.status = "playing" => view = "gone"]_vars
  <2> SUFFICES ASSUME TypeOK, WaitInv, MatchInv,
                      SweepDeletes, Cardinality(told) <= 1, row.status = "playing"
               PROVE  view = "gone"
    OBVIOUS
  <2>1. FewTold /\ row # NoRoom /\ req["sweep"].pc = "deleting"
    BY FewAreTold DEF SweepDeletes
  <2>2. ~OwnerIsThere
    BY <2>1 DEF WaitInv, Watched
  <2>3. view # "countdown"
    BY <2>1 DEF MatchInv, InMatch
  <2>4. QED BY <2>2, <2>3 DEF OwnerIsThere, TypeOK
<1>3. QED
  BY <1>1, <1>2, MatchStep, LobbyTypes, LobbyIsWatched, PTL DEF Spec, SparesTheMatch
=============================================================================
