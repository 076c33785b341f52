-------------------------- MODULE RoomMatch_proofs --------------------------
(***************************************************************************)
(* Proofs about RoomMatch that hold for every interleaving of any number   *)
(* of requests: type correctness, NothingInvented and JustWinner, and,     *)
(* until a save is overtaken, that the match is atomic.  Status and winner *)
(* agree until a match is reopened under a save that is being written.     *)
(***************************************************************************)
EXTENDS RoomMatch, TLAPS

\* A save leaves in every column the row's own value or the entity's.
LEMMA UpdatedColumns ==
  ASSUME NEW room \in Room, NEW entity \in Room, NEW cols
  PROVE  LET new == Updated(room, entity, cols) IN
         /\ new \in Room
         /\ new.currBoard \in {room.currBoard, entity.currBoard}
         /\ new.health \in {room.health, entity.health}
         /\ new.ownerMoves \in {room.ownerMoves, entity.ownerMoves}
         /\ new.guestMoves \in {room.guestMoves, entity.guestMoves}
         /\ new.winner \in {room.winner, entity.winner}
<1> DEFINE new == Updated(room, entity, cols)
<1> USE DEF Room
<1>1. /\ DOMAIN room = DOMAIN NewRoom
      /\ DOMAIN NewRoom = {"currBoard", "health", "ownerMoves", "guestMoves",
                           "status", "winner"}
  BY DEF NewRoom
<1>2. \A col \in DOMAIN NewRoom : new[col] \in {room[col], entity[col]}
  BY <1>1 DEF Updated
<1>3. new = [currBoard |-> new.currBoard, health |-> new.health,
             ownerMoves |-> new.ownerMoves, guestMoves |-> new.guestMoves,
             status |-> new.status, winner |-> new.winner]
  BY <1>1 DEF Updated
<1>4. QED BY <1>1, <1>2, <1>3

-----------------------------------------------------------------------------
(* Type correctness.                                                       *)

\* Finishing a match gives a row of the table.
LEMMA FinishedType ==
  ASSUME NEW room \in Room, NEW w \in Role
  PROVE  Finished(room, w) \in Room
  BY DEF Finished, Room

\* A right move computes a row of the table.
LEMMA AfterRightType ==
  ASSUME NEW room \in Room, NEW p \in Role, NEW c \in Cell
  PROVE  AfterRight(room, p, c) \in Room
<1> DEFINE filled == WithCell(room, p, c)
<1>1. filled \in Room
  <2>1. /\ room.currBoard \ {c} \in SUBSET Cell
        /\ (IF p = "owner" THEN room.ownerMoves + 1 ELSE room.ownerMoves) \in Nat
        /\ (IF p = "guest" THEN room.guestMoves + 1 ELSE room.guestMoves) \in Nat
    BY DEF Room
  <2>2. QED BY <2>1 DEF WithCell, Room
<1>2. BoardWinner(filled, p) \in Role
  BY DEF BoardWinner, Role
<1>3. QED BY <1>1, <1>2, FinishedType DEF AfterRight

\* A wrong move computes a row of the table.
LEMMA AfterWrongType ==
  ASSUME NEW room \in Room, NEW p \in Role
  PROVE  AfterWrong(room, p) \in Room
<1> DEFINE hurt == [room EXCEPT !.health[p] = @ - 1]
<1>1. hurt \in Room
  BY DEF Room
<1>2. Other(p) \in Role
  BY DEF Other, Role
<1>3. QED BY <1>1, <1>2, FinishedType DEF AfterWrong

\* Committing a request keeps the history in its types.
LEMMA HistoryType ==
  ASSUME TypeOK, NEW q \in RequestState
  PROVE  /\ Counted(valid, q, "right") \in [Role -> Nat]
         /\ Counted(invalid, q, "wrong") \in [Role -> Nat]
         /\ quit \union Leaving(q) \subseteq Role
  BY DEF TypeOK, RequestState, Counted, Leaving

\* A new room, with no request in flight, is in the types.
LEMMA InitType == Init => TypeOK
  BY LivesAssumption DEF Init, TypeOK, NewRoom, Room, Idle, RequestState, Role

\* Every handler finds, selects and updates within the types.
THEOREM TypeCorrect == Spec => []TypeOK
<1>1. Init => TypeOK
  BY InitType
<1>2. TypeOK /\ [Next]_vars => TypeOK'
  <2> SUFFICES ASSUME TypeOK, [Next]_vars PROVE TypeOK'
    OBVIOUS
  <2>idle. Idle \in RequestState
    BY LivesAssumption DEF Idle, RequestState, NewRoom, Room, Role
  <2>find. ASSUME NEW r \in Request, NEW p \in Role,
                  NEW kind \in {"right", "wrong", "quit"},
                  NEW cells \in SUBSET Cell, NEW entity \in Room,
                  Find(r, p, kind, cells, entity)
           PROVE  TypeOK'
    BY <2>find DEF Find, TypeOK, RequestState, history
  <2>1. ASSUME NEW r \in Request, NEW p \in Role, NEW c \in Cell,
               ValidateRightMove(r, p, c)
        PROVE  TypeOK'
    BY <2>1, <2>find, AfterRightType DEF ValidateRightMove, TypeOK
  <2>2. ASSUME NEW r \in Request, NEW p \in Role, ValidateWrongMove(r, p)
        PROVE  TypeOK'
    BY <2>2, <2>find, AfterWrongType DEF ValidateWrongMove, TypeOK
  <2>3. ASSUME NEW r \in Request, NEW p \in Role, Surrender(r, p)
        PROVE  TypeOK'
    <3>1. Finished(row, Other(p)) \in Room
      BY FinishedType DEF TypeOK, Other, Role
    <3>2. QED BY <2>3, <2>find, <3>1 DEF Surrender
  <2>4. ASSUME NEW r \in Request, SaveSelect(r)
        PROVE  TypeOK'
    <3>1. Changed(req[r].entity, row) \subseteq DOMAIN NewRoom
      BY DEF Changed, TypeOK, Room, NewRoom
    <3>2. req' = [req EXCEPT ![r] = [req[r] EXCEPT
                   !.pc = "updating", !.cols = Changed(req[r].entity, row)]]
      BY <2>4 DEF SaveSelect, TypeOK, RequestState
    <3>3. [req[r] EXCEPT !.pc = "updating", !.cols = Changed(req[r].entity, row)]
            \in RequestState
      BY <3>1 DEF TypeOK, RequestState
    <3>4. QED BY <2>4, <3>2, <3>3 DEF SaveSelect, TypeOK, history
  <2>5. ASSUME NEW r \in Request, SaveUpdate(r)
        PROVE  TypeOK'
    <3>1. req[r] \in RequestState /\ req[r].entity \in Room
      BY DEF TypeOK, RequestState
    <3>2. row' \in Room
      BY <2>5, <3>1, UpdatedColumns DEF SaveUpdate, TypeOK
    <3>3. req' \in [Request -> RequestState]
      BY <2>5, <2>idle DEF SaveUpdate, TypeOK, RequestState
    <3>4. solved' \subseteq Cell /\ clean' \in BOOLEAN
      BY <2>5, <3>1 DEF SaveUpdate, TypeOK, RequestState
    <3>5. QED BY <2>5, <3>1, <3>2, <3>3, <3>4, HistoryType DEF SaveUpdate, TypeOK
  <2>6. CASE Restart
    BY <2>6, <2>idle DEF Restart, TypeOK, history
  <2>7. CASE UNCHANGED vars
    BY <2>7 DEF vars, TypeOK
  <2>8. QED BY <2>1, <2>2, <2>3, <2>4, <2>5, <2>6, <2>7 DEF Next, Handle
<1>3. QED BY <1>1, <1>2, PTL DEF Spec
-----------------------------------------------------------------------------
(***************************************************************************)
(* NothingInvented and JustWinner.  They are not inductive: what a save    *)
(* will write is in its entity.  The strengthening says of every entity in *)
(* flight what the two say of the row, counting the request's own answer.  *)
(***************************************************************************)
Accounted(room, right, wrong, cells, gone) ==
  Backed(room, right, wrong, cells) /\ Deserved(room, wrong, cells, gone)

InFlightAccounted ==
  \A r \in Request : req[r].pc # "idle" =>
    Accounted(req[r].entity, Counted(valid, req[r], "right"), Counted(invalid, req[r], "wrong"),
              solved \union req[r].cells, quit \union Leaving(req[r]))

IInv ==
  /\ TypeOK
  /\ Accounted(row, valid, invalid, solved, quit)
  /\ InFlightAccounted

Counts == [Role -> Nat]

\* More committed answers account for no less.
LEMMA AccountedMonotone ==
  ASSUME NEW room \in Room,
         NEW v \in Counts, NEW w \in Counts, NEW s \in SUBSET Cell, NEW g \in SUBSET Role,
         NEW v2 \in Counts, NEW w2 \in Counts, NEW s2 \in SUBSET Cell, NEW g2 \in SUBSET Role,
         \A p \in Role : v[p] <= v2[p] /\ w[p] <= w2[p],
         s \subseteq s2, g \subseteq g2,
         Accounted(room, v, w, s, g)
  PROVE  Accounted(room, v2, w2, s2, g2)
<1>1. Backed(room, v2, w2, s2)
  <2>1. \A p \in Role : Moves(room, p) \in Nat /\ room.health[p] \in Int
    BY DEF Moves, Room
  <2>2. QED BY <2>1, LivesAssumption DEF Accounted, Backed, Counts
<1>2. Deserved(room, w2, s2, g2)
  <2>1. SUFFICES ASSUME room.winner # NoWinner
                 PROVE  LET loser == Other(room.winner) IN
                        loser \in g2 \/ w2[loser] >= Lives \/ s2 = Cell
    BY DEF Deserved
  <2>2. Other(room.winner) \in Role
    BY DEF Other, Role
  <2> DEFINE loser == Other(room.winner)
  <2>3. loser \in g \/ w[loser] >= Lives \/ s = Cell
    BY <2>1 DEF Accounted, Deserved
  <2>4. w[loser] >= Lives => w2[loser] >= Lives
    BY <2>2, LivesAssumption DEF Counts
  <2>5. s = Cell => s2 = Cell
    OBVIOUS
  <2>6. loser \in g2 \/ w2[loser] >= Lives \/ s2 = Cell
    BY <2>3, <2>4, <2>5
  <2>7. QED BY <2>6
<1>3. QED BY <1>1, <1>2 DEF Accounted

\* A save that mixes two accounted rows writes an accounted row.
LEMMA AccountedUpdate ==
  ASSUME NEW room \in Room, NEW entity \in Room, NEW cols,
         NEW v, NEW w, NEW s, NEW g,
         Accounted(room, v, w, s, g), Accounted(entity, v, w, s, g)
  PROVE  Accounted(Updated(room, entity, cols), v, w, s, g)
  BY UpdatedColumns DEF Accounted, Backed, Deserved, Moves

\* A handler's own answer accounts for what it does to its entity.
LEMMA AccountedRight ==
  ASSUME NEW room \in Room, NEW p \in Role, NEW c \in Cell,
         NEW v \in Counts, NEW w \in Counts, NEW s \in SUBSET Cell, NEW g \in SUBSET Role,
         Accounted(room, v, w, s, g)
  PROVE  Accounted(AfterRight(room, p, c), [v EXCEPT ![p] = @ + 1], w, s \union {c}, g)
<1> DEFINE filled == WithCell(room, p, c)
           v2 == [v EXCEPT ![p] = @ + 1]
<1>1. /\ filled.currBoard = room.currBoard \ {c}
      /\ filled.ownerMoves = IF p = "owner" THEN room.ownerMoves + 1 ELSE room.ownerMoves
      /\ filled.guestMoves = IF p = "guest" THEN room.guestMoves + 1 ELSE room.guestMoves
      /\ filled.health = room.health /\ filled.winner = room.winner
  BY DEF WithCell, Room
<1>2. Backed(filled, v2, w, s \union {c})
  BY <1>1 DEF Accounted, Backed, Moves, Room, Role, Counts
<1>3. Deserved(filled, w, s \union {c}, g)
  BY <1>1 DEF Accounted, Deserved
<1>4. ASSUME filled.currBoard = {}, NEW x \in Role
      PROVE  Accounted(Finished(filled, x), v2, w, s \union {c}, g)
  <2>1. s \union {c} = Cell
    BY <1>2, <1>4 DEF Backed
  <2>2. /\ Finished(filled, x).currBoard = filled.currBoard
        /\ Finished(filled, x).health = filled.health
        /\ Finished(filled, x).ownerMoves = filled.ownerMoves
        /\ Finished(filled, x).guestMoves = filled.guestMoves
    BY DEF Finished, WithCell, Room
  <2>3. QED BY <1>2, <2>1, <2>2 DEF Accounted, Backed, Deserved, Moves
<1>5. BoardWinner(filled, p) \in Role
  BY DEF BoardWinner, Role
<1>6. QED BY <1>2, <1>3, <1>4, <1>5 DEF AfterRight, Accounted

\* A wrong answer accounts for the life it costs, and the last one for the defeat.
LEMMA AccountedWrong ==
  ASSUME NEW room \in Room, NEW p \in Role,
         NEW v \in Counts, NEW w \in Counts, NEW s \in SUBSET Cell, NEW g \in SUBSET Role,
         Accounted(room, v, w, s, g)
  PROVE  Accounted(AfterWrong(room, p), v, [w EXCEPT ![p] = @ + 1], s, g)
<1> DEFINE hurt == [room EXCEPT !.health[p] = @ - 1]
           w2 == [w EXCEPT ![p] = @ + 1]
<1>1. /\ hurt.health = [room.health EXCEPT ![p] = @ - 1]
      /\ hurt.currBoard = room.currBoard /\ hurt.winner = room.winner
      /\ hurt.ownerMoves = room.ownerMoves /\ hurt.guestMoves = room.guestMoves
  BY DEF Room
<1>2. w2 \in Counts /\ (\A q \in Role : v[q] <= v[q] /\ w[q] <= w2[q])
  BY DEF Counts
<1>3. Accounted(room, v, w2, s, g)
  <2> HIDE DEF w2
  <2>1. s \subseteq s /\ g \subseteq g
    OBVIOUS
  <2>2. QED BY <1>2, <2>1, AccountedMonotone
<1>4. \A q \in Role : Lives - hurt.health[q] <= w2[q]
  BY <1>1, LivesAssumption DEF Accounted, Backed, Counts, Room
<1>5. Accounted(hurt, v, w2, s, g)
  BY <1>1, <1>3, <1>4 DEF Accounted, Backed, Deserved, Moves
<1>6. ASSUME hurt.health[p] = 0
      PROVE  Accounted(Finished(hurt, Other(p)), v, w2, s, g)
  <2>1. w2[p] >= Lives
    BY <1>2, <1>4, <1>6, LivesAssumption DEF Counts
  <2>2. /\ Finished(hurt, Other(p)).currBoard = hurt.currBoard
        /\ Finished(hurt, Other(p)).health = hurt.health
        /\ Finished(hurt, Other(p)).ownerMoves = hurt.ownerMoves
        /\ Finished(hurt, Other(p)).guestMoves = hurt.guestMoves
        /\ Finished(hurt, Other(p)).winner = Other(p)
    BY DEF Finished, Room
  <2>3. Other(Other(p)) = p
    BY DEF Other, Role
  <2>4. QED BY <1>5, <2>1, <2>2, <2>3 DEF Accounted, Backed, Deserved, Moves
<1>7. QED BY <1>5, <1>6 DEF AfterWrong

\* Giving up accounts for the opponent's victory.
LEMMA AccountedSurrender ==
  ASSUME NEW room \in Room, NEW p \in Role, NEW v, NEW w, NEW s, NEW g,
         Accounted(room, v, w, s, g)
  PROVE  Accounted(Finished(room, Other(p)), v, w, s, g \union {p})
<1>1. /\ Finished(room, Other(p)).currBoard = room.currBoard
      /\ Finished(room, Other(p)).health = room.health
      /\ Finished(room, Other(p)).ownerMoves = room.ownerMoves
      /\ Finished(room, Other(p)).guestMoves = room.guestMoves
      /\ Finished(room, Other(p)).winner = Other(p)
  BY DEF Finished, Room
<1>2. Other(Other(p)) = p
  BY DEF Other, Role
<1>3. QED BY <1>1, <1>2 DEF Accounted, Backed, Deserved, Moves

\* Committing one more request loses none of the history.
LEMMA HistoryGrows ==
  ASSUME TypeOK, NEW r \in Request, SaveUpdate(r), TypeOK'
  PROVE  /\ \A p \in Role : valid[p] <= valid'[p] /\ invalid[p] <= invalid'[p]
         /\ solved \subseteq solved' /\ quit \subseteq quit'
  BY DEF TypeOK, SaveUpdate, Counted, Leaving, RequestState

\* Starting a request puts an accounted entity in flight.
LEMMA FindAccounted ==
  ASSUME IInv, TypeOK', NEW r \in Request, NEW p \in Role,
         NEW kind \in {"right", "wrong", "quit"}, NEW cells \in SUBSET Cell,
         NEW entity \in Room, Find(r, p, kind, cells, entity),
         Accounted(entity, Counted(valid, [by |-> p, kind |-> kind], "right"),
                   Counted(invalid, [by |-> p, kind |-> kind], "wrong"), solved \union cells,
                   quit \union Leaving([by |-> p, kind |-> kind]))
  PROVE  IInv'
<1>1. UNCHANGED <<row, valid, invalid, solved, quit, clean>>
  BY DEF Find, history
<1>2. InFlightAccounted'
  <2>1. SUFFICES ASSUME NEW s \in Request, req'[s].pc # "idle"
                 PROVE  Accounted(req'[s].entity, Counted(valid, req'[s], "right"),
                          Counted(invalid, req'[s], "wrong"), solved \union req'[s].cells,
                          quit \union Leaving(req'[s]))
    BY <1>1 DEF InFlightAccounted, Counted, Leaving
  <2>2. CASE s = r
    BY <2>2 DEF Find, IInv, TypeOK, Counted, Leaving
  <2>3. CASE s # r
    BY <2>1, <2>3 DEF Find, IInv, TypeOK, InFlightAccounted
  <2>4. QED BY <2>2, <2>3
<1>3. QED BY <1>1, <1>2 DEF IInv

\* Every step of every handler keeps the row and the entities in flight accounted for.
LEMMA Inductive == IInv /\ TypeOK' /\ [Next]_vars => IInv'
<1> SUFFICES ASSUME IInv, TypeOK', [Next]_vars PROVE IInv'
  OBVIOUS
<1> DEFINE asks(p, kind) == [by |-> p, kind |-> kind]
<1>t. /\ row \in Room /\ valid \in Counts /\ invalid \in Counts
      /\ solved \in SUBSET Cell /\ quit \in SUBSET Role
  BY DEF IInv, TypeOK, Counts
<1>1. ASSUME NEW r \in Request, NEW p \in Role, NEW c \in Cell,
             ValidateRightMove(r, p, c)
      PROVE  IInv'
  <2>1. Accounted(AfterRight(row, p, c), Counted(valid, asks(p, "right"), "right"),
          Counted(invalid, asks(p, "right"), "wrong"), solved \union {c}, quit \union Leaving(asks(p, "right")))
    BY <1>t, AccountedRight DEF IInv, Counted, Leaving
  <2>2. QED BY <1>1, <1>t, <2>1, FindAccounted, AfterRightType DEF ValidateRightMove
<1>2. ASSUME NEW r \in Request, NEW p \in Role, ValidateWrongMove(r, p)
      PROVE  IInv'
  <2>1. Accounted(AfterWrong(row, p), Counted(valid, asks(p, "wrong"), "right"),
          Counted(invalid, asks(p, "wrong"), "wrong"), solved \union {}, quit \union Leaving(asks(p, "wrong")))
    <3>1. solved \union {} = solved
      OBVIOUS
    <3>2. QED BY <1>t, <3>1, AccountedWrong DEF IInv, Counted, Leaving
  <2>2. QED BY <1>2, <1>t, <2>1, FindAccounted, AfterWrongType DEF ValidateWrongMove
<1>3. ASSUME NEW r \in Request, NEW p \in Role, Surrender(r, p)
      PROVE  IInv'
  <2>1. Accounted(Finished(row, Other(p)), Counted(valid, asks(p, "quit"), "right"),
          Counted(invalid, asks(p, "quit"), "wrong"), solved \union {}, quit \union Leaving(asks(p, "quit")))
    <3>1. solved \union {} = solved
      OBVIOUS
    <3>2. QED BY <1>t, <3>1, AccountedSurrender DEF IInv, Counted, Leaving
  <2>2. Finished(row, Other(p)) \in Room
    BY <1>t, FinishedType DEF Other, Role
  <2>3. QED BY <1>3, <2>1, <2>2, FindAccounted DEF Surrender
<1>4. ASSUME NEW r \in Request, SaveSelect(r)
      PROVE  IInv'
  <2>1. UNCHANGED <<row, valid, invalid, solved, quit, clean>>
    BY <1>4 DEF SaveSelect, history
  <2>2. \A s \in Request : /\ req'[s].entity = req[s].entity /\ req'[s].by = req[s].by
                           /\ req'[s].kind = req[s].kind /\ req'[s].cells = req[s].cells
                           /\ req'[s].pc # "idle" => req[s].pc # "idle"
    BY <1>4 DEF SaveSelect, IInv, TypeOK, RequestState
  <2>3. InFlightAccounted'
    BY <2>1, <2>2 DEF IInv, InFlightAccounted, Counted, Leaving
  <2>4. QED BY <2>1, <2>3 DEF IInv
<1>5. ASSUME NEW r \in Request, SaveUpdate(r)
      PROVE  IInv'
  <2> DEFINE q == req[r]
  <2>t. /\ valid' \in Counts /\ invalid' \in Counts
        /\ solved' \in SUBSET Cell /\ quit' \in SUBSET Role
        /\ q \in RequestState /\ q.entity \in Room
    BY DEF IInv, TypeOK, Counts, RequestState
  <2>g. /\ \A p \in Role : valid[p] <= valid'[p] /\ invalid[p] <= invalid'[p]
        /\ solved \subseteq solved' /\ quit \subseteq quit'
    BY <1>5, HistoryGrows DEF IInv
  <2>1. Accounted(row, valid', invalid', solved', quit')
    BY <1>t, <2>t, <2>g, AccountedMonotone DEF IInv
  <2>2. Accounted(q.entity, valid', invalid', solved', quit')
    BY <1>5 DEF SaveUpdate, IInv, InFlightAccounted
  <2>3. Accounted(row, valid, invalid, solved, quit)'
    <3>1. Accounted(Updated(row, q.entity, q.cols), valid', invalid', solved', quit')
      BY <1>t, <2>t, <2>1, <2>2, AccountedUpdate
    <3>2. row' = Updated(row, q.entity, q.cols)
      BY <1>5 DEF SaveUpdate
    <3>3. QED BY <3>1, <3>2 DEF Accounted, Backed, Deserved, Moves
  <2>4. InFlightAccounted'
    <3>1. SUFFICES ASSUME NEW s \in Request, req'[s].pc # "idle"
                   PROVE  Accounted(req'[s].entity, Counted(valid', req'[s], "right"),
                            Counted(invalid', req'[s], "wrong"),
                            solved' \union req'[s].cells, quit' \union Leaving(req'[s]))
      BY DEF InFlightAccounted, Accounted, Backed, Deserved, Moves, Counted, Leaving
    <3>2. /\ req'[s].entity = req[s].entity /\ req'[s].by = req[s].by
          /\ req'[s].kind = req[s].kind /\ req'[s].cells = req[s].cells
          /\ req[s].pc # "idle"
      BY <1>5, <3>1 DEF SaveUpdate, IInv, TypeOK, RequestState, Idle
    <3> DEFINE u == req[s]
    <3>3. /\ u \in RequestState /\ u.entity \in Room
          /\ u.by \in Role /\ u.cells \in SUBSET Cell /\ Leaving(u) \in SUBSET Role
      BY DEF IInv, TypeOK, RequestState, Leaving
    <3>4. Accounted(u.entity, Counted(valid, u, "right"), Counted(invalid, u, "wrong"),
                    solved \union u.cells, quit \union Leaving(u))
      BY <3>2 DEF IInv, InFlightAccounted
    <3>5. /\ Counted(valid, u, "right") \in Counts /\ Counted(valid', u, "right") \in Counts
          /\ Counted(invalid, u, "wrong") \in Counts /\ Counted(invalid', u, "wrong") \in Counts
          /\ \A p \in Role : /\ Counted(valid, u, "right")[p] <= Counted(valid', u, "right")[p]
                             /\ Counted(invalid, u, "wrong")[p] <= Counted(invalid', u, "wrong")[p]
      BY <1>t, <2>t, <2>g, <3>3 DEF Counted, Counts
    <3>6. Accounted(u.entity, Counted(valid', u, "right"), Counted(invalid', u, "wrong"),
                    solved' \union u.cells, quit' \union Leaving(u))
      BY <1>t, <2>t, <2>g, <3>3, <3>4, <3>5, AccountedMonotone
    <3>7. QED BY <3>2, <3>6 DEF Counted, Leaving
  <2>5. QED BY <2>3, <2>4 DEF IInv
<1>6. CASE Restart
  BY <1>6 DEF Restart, history, IInv, InFlightAccounted, Idle, Accounted, Backed,
     Deserved, Moves
<1>7. CASE UNCHANGED vars
  BY <1>7 DEF vars, IInv, InFlightAccounted, Accounted, Backed, Deserved, Moves,
     Counted, Leaving
<1>8. QED BY <1>1, <1>2, <1>3, <1>4, <1>5, <1>6, <1>7 DEF Next, Handle

\* The strengthened invariant holds in every state.
LEMMA AccountedAlways == Spec => []IInv
<1>1. Init => IInv
  <2> SUFFICES ASSUME Init PROVE IInv
    OBVIOUS
  <2>1. TypeOK
    BY InitType
  <2>2. Accounted(row, valid, invalid, solved, quit)
    BY LivesAssumption DEF Init, NewRoom, Accounted, Backed, Deserved, Moves
  <2>3. InFlightAccounted
    BY DEF Init, InFlightAccounted, Idle
  <2>4. QED BY <2>1, <2>2, <2>3 DEF IInv
<1>2. QED BY <1>1, TypeCorrect, Inductive, PTL DEF Spec

\* No interleaving of saves credits or charges a player without an answer.
THEOREM NothingIsInvented == Spec => []NothingInvented
<1>1. IInv => NothingInvented
  BY DEF IInv, Accounted, NothingInvented
<1>2. QED BY <1>1, AccountedAlways, PTL

\* No interleaving of saves makes a player lose who did not deserve it.
THEOREM WinnerIsJust == Spec => []JustWinner
<1>1. IInv => JustWinner
  BY DEF IInv, Accounted, JustWinner
<1>2. QED BY <1>1, AccountedAlways, PTL

-----------------------------------------------------------------------------
(***************************************************************************)
(* Until a save is overtaken RoomMatch implements Match: proofs of         *)
(* CleanRecord and CleanStepsAreAtomic.  A request that has not been       *)
(* overtaken holds in its entity the answer to the row as it is now, so    *)
(* its UPDATE turns the row into exactly this answer.                      *)
(***************************************************************************)

\* q.entity is the answer of q's handler to the row room.
Answers(q, room) ==
  \/ /\ q.kind = "right"
     /\ \E c \in Cell : q.cells = {c} /\ q.entity = AfterRight(room, q.by, c)
  \/ q.kind = "wrong" /\ q.cells = {} /\ q.entity = AfterWrong(room, q.by)
  \/ q.kind = "quit" /\ q.cells = {} /\ q.entity = Finished(room, Other(q.by))

Current(q, room) ==
  q.pc # "idle" /\ ~q.overtaken =>
    /\ room.status = "playing"
    /\ Answers(q, room)
    /\ q.pc = "updating" => q.cols = Changed(q.entity, room)

CleanInv ==
  /\ TypeOK
  /\ clean => TrueRecord /\ StatusAgrees
  /\ \A r \in Request : Current(req[r], row)

\* An UPDATE of all the columns that differ writes the entity.
LEMMA UpdatedAll ==
  ASSUME NEW room \in Room, NEW entity \in Room
  PROVE  Updated(room, entity, Changed(entity, room)) = entity
  BY DEF Updated, Changed, Room

\* What a right answer leaves in the columns of the row.
LEMMA RightColumns ==
  ASSUME NEW room \in Room, NEW p \in Role, NEW c \in Cell, NEW new,
         new = AfterRight(room, p, c)
  PROVE  /\ new.currBoard = room.currBoard \ {c}
         /\ new.health = room.health
         /\ new.ownerMoves = IF p = "owner" THEN room.ownerMoves + 1 ELSE room.ownerMoves
         /\ new.guestMoves = IF p = "guest" THEN room.guestMoves + 1 ELSE room.guestMoves
         /\ new.currBoard # {} => new.winner = room.winner /\ new.status = room.status
         /\ new.currBoard = {} => new.winner = BoardWinner(new, p) /\ new.status = "finished"
  BY DEF AfterRight, WithCell, Finished, BoardWinner, Room

\* What a wrong answer leaves in the columns of the row.
LEMMA WrongColumns ==
  ASSUME NEW room \in Room, NEW p \in Role, NEW new, new = AfterWrong(room, p)
  PROVE  /\ new.currBoard = room.currBoard
         /\ new.health = [room.health EXCEPT ![p] = @ - 1]
         /\ new.ownerMoves = room.ownerMoves /\ new.guestMoves = room.guestMoves
         /\ room.health[p] # 1 => new.winner = room.winner /\ new.status = room.status
         /\ room.health[p] = 1 => new.winner = Other(p) /\ new.status = "finished"
  BY DEF AfterWrong, Finished, Room

\* What finishing a match leaves in the columns of the row.
LEMMA FinishedColumns ==
  ASSUME NEW room \in Room, NEW w, NEW new, new = Finished(room, w)
  PROVE  /\ new.currBoard = room.currBoard /\ new.health = room.health
         /\ new.ownerMoves = room.ownerMoves /\ new.guestMoves = room.guestMoves
         /\ new.winner = w /\ new.status = "finished"
  BY DEF Finished, Room

\* The UPDATE of a request that was not overtaken writes its answer to the row.
LEMMA CommitAnswers ==
  ASSUME CleanInv, NEW r \in Request, SaveUpdate(r), ~req[r].overtaken
  PROVE  /\ row.status = "playing"
         /\ row' = req[r].entity
         /\ Answers(req[r], row)
<1>1. /\ req[r].pc = "updating" /\ Current(req[r], row)
      /\ row' = Updated(row, req[r].entity, req[r].cols)
  BY DEF SaveUpdate, CleanInv
<1>2. row \in Room /\ req[r].entity \in Room
  BY DEF CleanInv, TypeOK, RequestState
<1>3. QED BY <1>1, <1>2, UpdatedAll DEF Current

\* An exact row stays exact, and its columns agree, when its answer is written.
LEMMA CommitIsExact ==
  ASSUME CleanInv, NEW r \in Request, SaveUpdate(r), clean'
  PROVE  TrueRecord' /\ StatusAgrees'
<1> DEFINE q == req[r]
           p == q.by
<1>1. clean /\ ~q.overtaken
  BY DEF SaveUpdate
<1>2. /\ row.status = "playing" /\ row' = q.entity /\ Answers(q, row)
  BY <1>1, CommitAnswers
<1>3. /\ valid' = Counted(valid, q, "right") /\ invalid' = Counted(invalid, q, "wrong")
      /\ solved' = solved \union q.cells
  BY DEF SaveUpdate
<1>4. /\ row \in Room /\ q \in RequestState /\ q.by \in Role
      /\ valid \in [Role -> Nat] /\ invalid \in [Role -> Nat] /\ solved \subseteq Cell
      /\ TrueRecord /\ StatusAgrees
  BY <1>1 DEF CleanInv, TypeOK, RequestState
<1>5. row.winner = NoWinner /\ row \in Room /\ p \in Role
  BY <1>2, <1>4 DEF StatusAgrees
<1>6. ASSUME NEW c \in Cell, q.kind = "right", q.cells = {c}, q.entity = AfterRight(row, p, c)
      PROVE  TrueRecord' /\ StatusAgrees'
  <2>1. /\ row'.currBoard = row.currBoard \ {c} /\ row'.health = row.health
        /\ row'.ownerMoves = IF p = "owner" THEN row.ownerMoves + 1 ELSE row.ownerMoves
        /\ row'.guestMoves = IF p = "guest" THEN row.guestMoves + 1 ELSE row.guestMoves
        /\ row'.currBoard # {} => row'.winner = row.winner /\ row'.status = row.status
        /\ row'.currBoard = {} => row'.winner = BoardWinner(row', p) /\ row'.status = "finished"
    BY <1>2, <1>5, <1>6, RightColumns
  <2>2. valid' = [valid EXCEPT ![p] = @ + 1] /\ invalid' = invalid /\ solved' = solved \union {c}
    BY <1>3, <1>6 DEF Counted
  <2>3. \A x \in Role : Moves(row', x) = valid'[x]
    BY <1>4, <2>1, <2>2 DEF TrueRecord, Moves, Role
  <2>4. BoardWinner(row', p) \in Role
    BY <1>4 DEF BoardWinner, Role
  <2>5. TrueRecord'
    BY <1>4, <2>1, <2>2, <2>3 DEF TrueRecord
  <2>6. StatusAgrees'
    BY <1>2, <1>5, <2>1, <2>4, NoWinnerAssumption DEF StatusAgrees, Role
  <2>7. QED BY <2>5, <2>6
<1>7. ASSUME q.kind = "wrong", q.cells = {}, q.entity = AfterWrong(row, p)
      PROVE  TrueRecord' /\ StatusAgrees'
  <2>1. /\ row'.currBoard = row.currBoard /\ row'.health = [row.health EXCEPT ![p] = @ - 1]
        /\ row'.ownerMoves = row.ownerMoves /\ row'.guestMoves = row.guestMoves
        /\ row.health[p] # 1 => row'.winner = row.winner /\ row'.status = row.status
        /\ row.health[p] = 1 => row'.winner = Other(p) /\ row'.status = "finished"
    BY <1>2, <1>5, <1>7, WrongColumns
  <2>2. valid' = valid /\ invalid' = [invalid EXCEPT ![p] = @ + 1] /\ solved' = solved
    BY <1>3, <1>7 DEF Counted
  <2>3. \A x \in Role : row'.health[x] = Lives - invalid'[x]
    BY <1>4, <2>1, <2>2, LivesAssumption DEF TrueRecord, Room
  <2>4. TrueRecord'
    BY <1>4, <2>1, <2>2, <2>3 DEF TrueRecord, Moves
  <2>5. StatusAgrees'
    BY <1>2, <1>5, <2>1, NoWinnerAssumption DEF StatusAgrees, Other
  <2>6. QED BY <2>4, <2>5
<1>8. ASSUME q.kind = "quit", q.cells = {}, q.entity = Finished(row, Other(p))
      PROVE  TrueRecord' /\ StatusAgrees'
  <2>1. /\ row'.currBoard = row.currBoard /\ row'.health = row.health
        /\ row'.ownerMoves = row.ownerMoves /\ row'.guestMoves = row.guestMoves
        /\ row'.winner = Other(p) /\ row'.status = "finished"
    BY <1>2, <1>5, <1>8, FinishedColumns
  <2>2. valid' = valid /\ invalid' = invalid /\ solved' = solved
    BY <1>3, <1>8 DEF Counted
  <2>3. TrueRecord'
    BY <1>4, <2>1, <2>2 DEF TrueRecord, Moves
  <2>4. StatusAgrees'
    BY <2>1, NoWinnerAssumption DEF StatusAgrees, Other
  <2>5. QED BY <2>3, <2>4
<1>9. QED BY <1>2, <1>6, <1>7, <1>8 DEF Answers

\* Starting a request on the row as it is puts a current request in flight.
LEMMA FindIsCurrent ==
  ASSUME CleanInv, TypeOK', NEW r \in Request, NEW p \in Role,
         NEW kind \in {"right", "wrong", "quit"}, NEW cells \in SUBSET Cell,
         NEW entity \in Room, Find(r, p, kind, cells, entity),
         Answers([kind |-> kind, cells |-> cells, entity |-> entity, by |-> p], row)
  PROVE  CleanInv'
<1>1. UNCHANGED <<row, valid, invalid, solved, quit, clean>>
  BY DEF Find, history
<1>2. ASSUME NEW s \in Request PROVE Current(req[s], row)'
  <2>1. CASE s = r
    BY <1>1, <2>1 DEF Find, CleanInv, TypeOK, Current, Answers
  <2>2. CASE s # r
    <3>1. req'[s] = req[s]
      BY <2>2 DEF Find, CleanInv, TypeOK
    <3>2. QED BY <1>1, <3>1 DEF CleanInv, Current, Answers
  <2>3. QED BY <2>1, <2>2
<1>3. (clean => TrueRecord /\ StatusAgrees)'
  BY <1>1 DEF CleanInv, TrueRecord, StatusAgrees
<1>4. QED BY <1>2, <1>3 DEF CleanInv

\* Every step keeps the row exact until a save is overtaken, and requests current.
LEMMA CleanInductive == CleanInv /\ TypeOK' /\ [Next]_vars => CleanInv'
<1> SUFFICES ASSUME CleanInv, TypeOK', [Next]_vars PROVE CleanInv'
  OBVIOUS
<1>t. row \in Room
  BY DEF CleanInv, TypeOK
<1>1. ASSUME NEW r \in Request, NEW p \in Role, NEW c \in Cell, ValidateRightMove(r, p, c)
      PROVE  CleanInv'
  BY <1>1, <1>t, AfterRightType, FindIsCurrent DEF ValidateRightMove, Answers
<1>2. ASSUME NEW r \in Request, NEW p \in Role, ValidateWrongMove(r, p)
      PROVE  CleanInv'
  BY <1>2, <1>t, AfterWrongType, FindIsCurrent DEF ValidateWrongMove, Answers
<1>3. ASSUME NEW r \in Request, NEW p \in Role, Surrender(r, p)
      PROVE  CleanInv'
  <2>1. Finished(row, Other(p)) \in Room
    BY <1>t, FinishedType DEF Other, Role
  <2>2. QED BY <1>3, <2>1, FindIsCurrent DEF Surrender, Answers
<1>4. ASSUME NEW r \in Request, SaveSelect(r)
      PROVE  CleanInv'
  <2>1. UNCHANGED <<row, valid, invalid, solved, quit, clean>>
    BY <1>4 DEF SaveSelect, history
  <2>2. ASSUME NEW s \in Request PROVE Current(req[s], row)'
    <3>1. /\ req'[s].entity = req[s].entity /\ req'[s].by = req[s].by
          /\ req'[s].kind = req[s].kind /\ req'[s].cells = req[s].cells
          /\ req'[s].overtaken = req[s].overtaken
          /\ req'[s].pc # "idle" => req[s].pc # "idle"
      BY <1>4 DEF SaveSelect, CleanInv, TypeOK, RequestState
    <3>2. req'[s].pc = "updating" =>
            req'[s].cols = Changed(req[s].entity, row) \/ req[s] = req'[s]
      BY <1>4 DEF SaveSelect, CleanInv, TypeOK, RequestState
    <3>3. QED BY <2>1, <3>1, <3>2 DEF CleanInv, Current, Answers
  <2>3. (clean => TrueRecord /\ StatusAgrees)'
    BY <2>1 DEF CleanInv, TrueRecord, StatusAgrees
  <2>4. QED BY <2>2, <2>3 DEF CleanInv
<1>5. ASSUME NEW r \in Request, SaveUpdate(r)
      PROVE  CleanInv'
  <2>1. ASSUME NEW s \in Request PROVE Current(req[s], row)'
    <3>1. SUFFICES ASSUME req'[s].pc # "idle", ~req'[s].overtaken
                   PROVE  Current(req'[s], row')
      BY DEF Current, Answers
    <3>2. /\ s # r /\ req[s].pc # "idle"
          /\ req' [s] = [req[s] EXCEPT !.overtaken = @ \/ row' # row]
      BY <1>5, <3>1 DEF SaveUpdate, Idle
    <3>3. row' = row /\ ~req[s].overtaken
      BY <3>1, <3>2 DEF CleanInv, TypeOK, RequestState
    <3>4. /\ req'[s].entity = req[s].entity /\ req'[s].by = req[s].by
          /\ req'[s].kind = req[s].kind /\ req'[s].cells = req[s].cells
          /\ req'[s].pc = req[s].pc /\ req'[s].cols = req[s].cols
      BY <3>2 DEF CleanInv, TypeOK, RequestState
    <3>5. QED BY <3>2, <3>3, <3>4 DEF CleanInv, Current, Answers
  <2>2. clean' => TrueRecord' /\ StatusAgrees'
    BY <1>5, CommitIsExact
  <2>3. QED BY <2>1, <2>2 DEF CleanInv
<1>6. CASE Restart
  BY <1>6 DEF Restart, history, CleanInv, Current, Idle, TrueRecord, StatusAgrees
<1>7. CASE UNCHANGED vars
  BY <1>7 DEF vars, CleanInv, Current, Answers, TrueRecord, StatusAgrees
<1>8. QED BY <1>1, <1>2, <1>3, <1>4, <1>5, <1>6, <1>7 DEF Next, Handle

\* The strengthened invariant holds in every state.
LEMMA CleanAlways == Spec => []CleanInv
<1>1. Init => CleanInv
  <2> SUFFICES ASSUME Init PROVE CleanInv
    OBVIOUS
  <2>1. TrueRecord /\ StatusAgrees
    BY LivesAssumption DEF Init, NewRoom, TrueRecord, StatusAgrees, Moves
  <2>2. \A r \in Request : Current(req[r], row)
    BY DEF Init, Idle, Current
  <2>3. QED BY <2>1, <2>2, InitType DEF CleanInv
<1>2. QED BY <1>1, TypeCorrect, CleanInductive, PTL DEF Spec

\* A row that differs from the answers given is the work of a save that was overtaken.
THEOREM RecordIsClean == Spec => []CleanRecord
<1>1. CleanInv => CleanRecord
  BY DEF CleanInv, CleanRecord
<1>2. QED BY <1>1, CleanAlways, PTL

-----------------------------------------------------------------------------
(* The refinement of Match.                                                *)

\* The two modules number the players alike.
LEMMA SameOther == M!Role = Role /\ \A p \in Role : M!Other(p) = Other(p)
<1>1. ASSUME NEW p \in Role PROVE \A q \in Role : q # p <=> q = Other(p)
  BY DEF Role, Other
<1>2. \A p \in Role : Other(p) \in Role
  BY DEF Role, Other
<1>3. M!Role = Role
  BY DEF M!Role, Role
<1>4. ASSUME NEW p \in Role PROVE M!Other(p) = Other(p)
  BY <1>1, <1>2, <1>3, <1>4 DEF M!Other
<1>5. QED BY <1>3, <1>4

\* Committing a request that was not overtaken is one move of the match.
LEMMA CommitIsMove ==
  ASSUME CleanInv, NEW r \in Request, SaveUpdate(r), clean'
  PROVE  M!Next
<1> DEFINE q == req[r]
           p == q.by
           score == [x \in Role |-> Moves(row, x)]
<1>1. clean /\ ~q.overtaken
  BY DEF SaveUpdate
<1>2. /\ row.status = "playing" /\ row' = q.entity /\ Answers(q, row)
  BY <1>1, CommitAnswers
<1>3. row \in Room /\ p \in Role /\ Other(p) \in Role /\ row' \in Room
  BY <1>2 DEF CleanInv, TypeOK, RequestState, Other, Role
<1>4. row.winner = NoWinner
  BY <1>1, <1>2 DEF CleanInv, StatusAgrees
<1>5. M!Role = Role /\ M!Other(p) = Other(p)
  BY <1>3, SameOther
<1>6. ASSUME NEW c \in Cell, q.kind = "right", q.cells = {c}, q.entity = AfterRight(row, p, c)
      PROVE  M!Fill(p, c)
  <2>1. /\ row'.currBoard = row.currBoard \ {c} /\ row'.health = row.health
        /\ row'.ownerMoves = IF p = "owner" THEN row.ownerMoves + 1 ELSE row.ownerMoves
        /\ row'.guestMoves = IF p = "guest" THEN row.guestMoves + 1 ELSE row.guestMoves
        /\ row'.currBoard # {} => row'.winner = row.winner /\ row'.status = row.status
        /\ row'.currBoard = {} => row'.winner = BoardWinner(row', p) /\ row'.status = "finished"
    BY <1>2, <1>3, <1>6, RightColumns
  <2>2. score' = [score EXCEPT ![p] = @ + 1]
    BY <1>3, <2>1 DEF Moves, Role
  <2>3. \/ Moves(row', p) >= Moves(row', Other(p)) /\ BoardWinner(row', p) = p
        \/ Moves(row', p) < Moves(row', Other(p)) /\ BoardWinner(row', p) = Other(p)
    BY <1>3 DEF Moves, BoardWinner, Other, Role, Room
  <2>4. Moves(row, Other(p)) = Moves(row', Other(p))
    BY <1>3, <2>1 DEF Moves, Other, Role
  <2>5. score'[p] = Moves(row', p) /\ score[Other(p)] = Moves(row', Other(p))
    BY <1>3, <2>4
  <2>6. row'.currBoard = {} =>
          \/ score'[p] >= score[Other(p)] /\ row'.winner = p
          \/ score'[p] < score[Other(p)] /\ row'.winner = Other(p)
    BY <2>1, <2>3, <2>5
  <2>7. QED BY <1>5, <2>1, <2>2, <2>6 DEF M!Fill
<1>7. ASSUME q.kind = "wrong", q.cells = {}, q.entity = AfterWrong(row, p)
      PROVE  M!Miss(p)
  <2>1. /\ row'.currBoard = row.currBoard /\ row'.health = [row.health EXCEPT ![p] = @ - 1]
        /\ row'.ownerMoves = row.ownerMoves /\ row'.guestMoves = row.guestMoves
        /\ row.health[p] # 1 => row'.winner = row.winner /\ row'.status = row.status
        /\ row.health[p] = 1 => row'.winner = Other(p) /\ row'.status = "finished"
    BY <1>2, <1>3, <1>7, WrongColumns
  <2>2. score' = score
    BY <2>1 DEF Moves
  <2>3. QED BY <1>5, <2>1, <2>2 DEF M!Miss
<1>8. ASSUME q.kind = "quit", q.cells = {}, q.entity = Finished(row, Other(p))
      PROVE  M!GiveUp(p)
  <2>1. /\ row'.currBoard = row.currBoard /\ row'.health = row.health
        /\ row'.ownerMoves = row.ownerMoves /\ row'.guestMoves = row.guestMoves
        /\ row'.winner = Other(p) /\ row'.status = "finished"
    BY <1>2, <1>3, <1>8, FinishedColumns
  <2>2. score' = score
    BY <2>1 DEF Moves
  <2>3. QED BY <1>5, <2>1, <2>2 DEF M!GiveUp
<1>9. QED BY <1>2, <1>3, <1>4, <1>5, <1>6, <1>7, <1>8 DEF Answers, M!Next

\* A match begins as Match says.
THEOREM AtomicInit == Init => M!Init
  BY SameOther DEF Init, NewRoom, M!Init, Moves, Role

\* Until a save is overtaken every change of the row is one move of the match.
THEOREM StepsAreAtomic == Spec => CleanStepsAreAtomic
<1>1. CleanInv /\ [Next]_vars => [clean' => M!Next]_row
  <2> SUFFICES ASSUME CleanInv, [Next]_vars, row' # row, clean' PROVE M!Next
    OBVIOUS
  <2>1. PICK r \in Request : SaveUpdate(r)
    BY DEF Next, Handle, ValidateRightMove, ValidateWrongMove, Surrender, Find, SaveSelect,
       Restart, vars
  <2>2. QED BY <2>1, CommitIsMove
<1>2. QED BY <1>1, CleanAlways, PTL DEF Spec, CleanStepsAreAtomic

-----------------------------------------------------------------------------
(***************************************************************************)
(* StatusAgrees.  Its two columns are compared and written one by one.  A  *)
(* save writes only one of them if its SELECT found the row finished with  *)
(* another winner; they come apart if the row is playing again when its    *)
(* UPDATE comes.                                                           *)
(***************************************************************************)
Agrees(room) == room.status = "finished" <=> room.winner # NoWinner

\* A save takes a decided match back to playing, and another save has compared but not written.
ReopensUnderASave ==
  /\ row.status = "finished" /\ row'.status # "finished"
  /\ \E r \in Request : req'[r].pc = "updating"

StatusInv ==
  /\ Agrees(row)
  /\ \A r \in Request : req[r].pc # "idle" => Agrees(req[r].entity)
  /\ \A r \in Request : req[r].pc = "updating" =>
       \/ "status" \in req[r].cols <=> "winner" \in req[r].cols
       \/ row.status = "finished" /\ req[r].entity.status = "finished"

\* A handler that finds the room playing computes a room that agrees.
LEMMA HandlersAgree ==
  ASSUME NEW room \in Room, room.status = "playing", Agrees(room), NEW p \in Role
  PROVE  /\ \A c \in Cell : Agrees(AfterRight(room, p, c))
         /\ Agrees(AfterWrong(room, p))
         /\ Agrees(Finished(room, Other(p)))
<1>1. ASSUME NEW x \in Room, NEW w \in Role
      PROVE  Agrees(Finished(x, w))
  BY NoWinnerAssumption DEF Agrees, Finished, Room, Role
<1>2. Other(p) \in Role
  BY DEF Other, Role
<1>3. ASSUME NEW c \in Cell PROVE Agrees(AfterRight(room, p, c))
  <2> DEFINE filled == WithCell(room, p, c)
  <2>1. filled \in Room /\ filled.status = room.status /\ filled.winner = room.winner
    <3>1. /\ room.currBoard \ {c} \in SUBSET Cell
          /\ (IF p = "owner" THEN room.ownerMoves + 1 ELSE room.ownerMoves) \in Nat
          /\ (IF p = "guest" THEN room.guestMoves + 1 ELSE room.guestMoves) \in Nat
      BY DEF Room
    <3>2. QED BY <3>1 DEF WithCell, Room
  <2>2. BoardWinner(filled, p) \in Role
    BY DEF BoardWinner, Role
  <2>3. Agrees(filled)
    BY <2>1 DEF Agrees
  <2> HIDE DEF filled
  <2>4. QED BY <1>1, <2>1, <2>2, <2>3 DEF AfterRight, filled
<1>4. Agrees(AfterWrong(room, p))
  <2> DEFINE hurt == [room EXCEPT !.health[p] = @ - 1]
  <2>1. hurt \in Room /\ hurt.status = room.status /\ hurt.winner = room.winner
    BY DEF Room
  <2>2. Agrees(hurt)
    BY <2>1 DEF Agrees
  <2> HIDE DEF hurt
  <2>3. QED BY <1>1, <1>2, <2>1, <2>2 DEF AfterWrong, hurt
<1>5. QED BY <1>1, <1>2, <1>3, <1>4

\* A save that writes both columns or neither, or one of a finished room to another, agrees.
LEMMA UpdateAgrees ==
  ASSUME NEW room \in Room, NEW entity \in Room, NEW cols, Agrees(room), Agrees(entity),
         \/ "status" \in cols <=> "winner" \in cols
         \/ room.status = "finished" /\ entity.status = "finished"
  PROVE  Agrees(Updated(room, entity, cols))
<1>1. "status" \in DOMAIN room /\ "winner" \in DOMAIN room
  BY DEF Room
<1>2. /\ Updated(room, entity, cols).status = IF "status" \in cols THEN entity.status ELSE room.status
      /\ Updated(room, entity, cols).winner = IF "winner" \in cols THEN entity.winner ELSE room.winner
  BY <1>1 DEF Updated
<1>3. QED BY <1>2 DEF Agrees

\* What the SELECT inside save makes of two rooms that agree.
LEMMA SelectAgrees ==
  ASSUME NEW room \in Room, NEW entity \in Room, Agrees(room), Agrees(entity)
  PROVE  LET cols == Changed(entity, room) IN
         \/ "status" \in cols <=> "winner" \in cols
         \/ room.status = "finished" /\ entity.status = "finished"
<1>1. "status" \in DOMAIN room /\ "winner" \in DOMAIN room
  BY DEF Room
<1>2. room.status \in {"playing", "finished"} /\ entity.status \in {"playing", "finished"}
  BY DEF Room
<1>3. QED BY <1>1, <1>2 DEF Changed, Agrees

\* A request enters while the room is playing.
LEMMA StatusFind ==
  ASSUME TypeOK, StatusInv, NEW r \in Request, NEW p \in Role, NEW kind, NEW cells, NEW entity,
         Find(r, p, kind, cells, entity), Agrees(entity)
  PROVE  StatusInv'
<1>1. row' = row /\ row.status # "finished"
  BY DEF Find
<1>2. req'[r].pc = "saving" /\ req'[r].entity = entity /\ \A s \in Request \ {r} : req'[s] = req[s]
  BY DEF Find, TypeOK
<1>3. QED BY <1>1, <1>2 DEF StatusInv, Agrees

\* No other step takes the two columns apart.
LEMMA StatusStep ==
  ASSUME TypeOK, StatusInv, [Next]_vars, ~ReopensUnderASave
  PROVE  StatusInv'
<1>1. row \in Room /\ \A r \in Request : req[r] \in RequestState /\ req[r].entity \in Room
  BY DEF TypeOK, RequestState
<1>2. ASSUME NEW r \in Request, NEW p \in Role,
             \/ \E c \in Cell : ValidateRightMove(r, p, c)
             \/ ValidateWrongMove(r, p) \/ Surrender(r, p)
      PROVE  StatusInv'
  <2>1. row.status = "playing" /\ Agrees(row)
    BY <1>2 DEF ValidateRightMove, ValidateWrongMove, Surrender, Find, StatusInv
  <2>2. /\ \A c \in Cell : Agrees(AfterRight(row, p, c))
        /\ Agrees(AfterWrong(row, p)) /\ Agrees(Finished(row, Other(p)))
    BY <1>1, <2>1, HandlersAgree
  <2>3. QED BY <1>2, <2>2, StatusFind DEF ValidateRightMove, ValidateWrongMove, Surrender
<1>3. ASSUME NEW r \in Request, SaveSelect(r)
      PROVE  StatusInv'
  <2>1. /\ row' = row /\ req[r].pc = "saving" /\ req'[r].entity = req[r].entity
        /\ req'[r].cols = Changed(req[r].entity, row)
        /\ \A s \in Request \ {r} : req'[s] = req[s]
    BY <1>1, <1>3 DEF SaveSelect, RequestState, TypeOK
  <2>2. \/ "status" \in req'[r].cols <=> "winner" \in req'[r].cols
        \/ row.status = "finished" /\ req[r].entity.status = "finished"
    BY <1>1, <2>1, SelectAgrees DEF StatusInv
  <2>3. QED BY <2>1, <2>2 DEF StatusInv, Agrees
<1>4. ASSUME NEW r \in Request, SaveUpdate(r)
      PROVE  StatusInv'
  <2>1. req[r].pc = "updating" /\ row' = Updated(row, req[r].entity, req[r].cols) /\ req'[r].pc = "idle"
    BY <1>4 DEF SaveUpdate, Idle
  <2>2. ASSUME NEW s \in Request, req'[s].pc # "idle"
        PROVE  /\ s # r /\ req[s].pc = req'[s].pc
               /\ req'[s].entity = req[s].entity /\ req'[s].cols = req[s].cols
    BY <1>1, <1>4, <2>2 DEF SaveUpdate, Idle, RequestState
  <2>3. Agrees(row)'
    BY <1>1, <2>1, UpdateAgrees DEF StatusInv, Agrees
  <2>4. \A s \in Request : req'[s].pc # "idle" => Agrees(req'[s].entity)
    BY <2>2 DEF StatusInv
  <2>5. ASSUME NEW s \in Request, req'[s].pc = "updating"
        PROVE  \/ "status" \in req'[s].cols <=> "winner" \in req'[s].cols
               \/ row'.status = "finished" /\ req'[s].entity.status = "finished"
    <3>1. s # r /\ req[s].pc = "updating" /\ req'[s].entity = req[s].entity /\ req'[s].cols = req[s].cols
      BY <2>2, <2>5
    <3>2. row.status = "finished" => row'.status = "finished"
      BY <2>5 DEF ReopensUnderASave
    <3>3. QED BY <3>1, <3>2 DEF StatusInv
  <2>6. QED BY <2>3, <2>4, <2>5 DEF StatusInv
<1>5. CASE Restart
  BY <1>5 DEF Restart, Idle, history, StatusInv, Agrees
<1>6. CASE UNCHANGED vars
  BY <1>6 DEF vars, StatusInv, Agrees
<1>7. QED BY <1>2, <1>3, <1>4, <1>5, <1>6 DEF Next, Handle

(***************************************************************************)
(* Any number of requests may be in flight and overwrite each other's      *)
(* saves.  Until a save takes a decided match back to playing while        *)
(* another one stands between its SELECT and its UPDATE, the room is       *)
(* finished exactly if it has a winner.                                    *)
(***************************************************************************)
THEOREM StatusIsWinner == Spec /\ [][~ReopensUnderASave]_vars => []StatusAgrees
<1>1. Init => StatusInv
  BY NoWinnerAssumption DEF Init, NewRoom, Idle, StatusInv, Agrees
<1>2. TypeOK /\ StatusInv /\ [Next]_vars /\ [~ReopensUnderASave]_vars => StatusInv'
  <2>1. CASE UNCHANGED vars
    BY <2>1 DEF vars, StatusInv, Agrees
  <2>2. CASE ~ReopensUnderASave
    BY <2>2, StatusStep
  <2>3. QED BY <2>1, <2>2
<1>3. StatusInv => StatusAgrees
  BY DEF StatusInv, Agrees, StatusAgrees
<1>4. QED
  BY <1>1, <1>2, <1>3, TypeCorrect, PTL DEF Spec
=============================================================================
