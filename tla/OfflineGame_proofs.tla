------------------------- MODULE OfflineGame_proofs -------------------------
(***************************************************************************)
(* Proofs about OfflineGame that hold for every board, every number of     *)
(* requests in flight and every number of loads: type correctness,         *)
(* ResultIsEarned, CleanRecord, and ShownIsSaved.                          *)
(***************************************************************************)
EXTENDS OfflineGame, FiniteSetTheorems, TLAPS

\* The handlers compute rows of the table.
LEMMA HandlerTypes ==
  ASSUME NEW room \in Room
  PROVE  /\ \A c \in Cell : AfterRight(room, c) \in Room
         /\ AfterWrong(room) \in Room /\ AfterHint(room) \in Room /\ Abandoned(room) \in Room
<1>1. ASSUME NEW c \in Cell PROVE AfterRight(room, c) \in Room
  <2>1. [room EXCEPT !.currBoard = @ \ {c}] \in Room
    BY DEF Room
  <2>2. QED BY <2>1 DEF AfterRight, Room
<1>2. [room EXCEPT !.health = @ - 1] \in Room
  BY DEF Room
<1>3. AfterWrong(room) \in Room
  BY <1>2 DEF AfterWrong, Room
<1>4. QED BY <1>1, <1>3 DEF AfterHint, Abandoned, Room

\* A save leaves in every column the row's own value or the entity's.
LEMMA UpdatedColumns ==
  ASSUME NEW room \in Room, NEW entity \in Room, NEW cols
  PROVE  LET new == Updated(room, entity, cols) IN
         /\ new \in Room
         /\ new.currBoard \in {room.currBoard, entity.currBoard}
         /\ new.health \in {room.health, entity.health}
<1> DEFINE new == Updated(room, entity, cols)
<1> USE DEF Room
<1>1. DOMAIN room = {"currBoard", "health", "status", "hintsUsed"}
  OBVIOUS
<1>2. \A col \in DOMAIN room : new[col] \in {room[col], entity[col]}
  BY DEF Updated
<1>3. new = [currBoard |-> new.currBoard, health |-> new.health,
             status |-> new.status, hintsUsed |-> new.hintsUsed]
  BY <1>1 DEF Updated
<1>4. QED BY <1>1, <1>2, <1>3

-----------------------------------------------------------------------------
(* Type correctness.                                                       *)

\* An idle slot, a new game and the page that shows a game.
LEMMA ConstantTypes ==
  /\ NewRoom \in Room /\ Idle \in RequestState
  /\ \A state \in Room : Loaded(state) \in Page
  /\ Gone \in Page /\ [Loaded(NewRoom) EXCEPT !.holes = Cell, !.fixed = {}] \in Page
<1>1. NewRoom \in Room
  BY GameAssumption DEF NewRoom, Room
<1>2. Idle \in RequestState
  BY <1>1 DEF Idle, RequestState
<1>3. ASSUME NEW state \in Room PROVE Loaded(state) \in Page
  BY GameAssumption DEF Room, Loaded, Page
<1>4. QED BY <1>1, <1>2, <1>3 DEF Gone, Page

\* What happens to all the requests at once keeps them in their types.
LEMMA RequestTypes ==
  ASSUME TypeOK
  PROVE  /\ \A newRow : Overtaken(newRow) \in [Request -> RequestState]
         /\ \A kinds : Unheard(kinds) \in [Request -> RequestState]
         /\ \A kind \in {"right", "wrong", "apply", "ask", "hint", "abandon"}, cells \in SUBSET Cell,
              entity \in Room : Found(kind, cells, entity) \in RequestState
<1>1. ASSUME NEW newRow PROVE Overtaken(newRow) \in [Request -> RequestState]
  <2>1. ASSUME NEW r \in Request
        PROVE  [req[r] EXCEPT !.overtaken = @ \/ newRow # row] \in RequestState
    BY DEF TypeOK, RequestState
  <2>2. QED BY <2>1 DEF Overtaken, TypeOK
<1>2. ASSUME NEW kinds PROVE Unheard(kinds) \in [Request -> RequestState]
  <2>1. ASSUME NEW r \in Request PROVE [req[r] EXCEPT !.heard = FALSE] \in RequestState
    BY DEF TypeOK, RequestState
  <2>2. QED BY <2>1, ConstantTypes DEF Unheard, TypeOK
<1>3. ASSUME NEW kind \in {"right", "wrong", "apply", "ask", "hint", "abandon"},
             NEW cells \in SUBSET Cell, NEW entity \in Room
      PROVE  Found(kind, cells, entity) \in RequestState
  BY DEF Found, RequestState
<1>4. QED BY <1>1, <1>2, <1>3

\* Every step of the handlers and of the page stays within the types.
LEMMA TypeStep == TypeOK /\ [Next]_vars => TypeOK'
<1> SUFFICES ASSUME TypeOK, [Next]_vars PROVE TypeOK'
  OBVIOUS
<1> USE DEF history
<1>send. ASSUME NEW r \in Request, NEW request \in RequestState,
                Send(r, request)
         PROVE  req' \in [Request -> RequestState] /\ sent' \in Nat
  BY <1>send DEF Send, TypeOK
<1>nil. ASSUME row # NoRow PROVE row \in Room
  BY <1>nil DEF TypeOK
<1>1. ASSUME NEW r \in Request, NEW c \in Cell, TypeRight(r, c) PROVE TypeOK'
  <2>1. CASE row = NoRow
    BY <1>1, <2>1 DEF TypeRight, Send, TypeOK
  <2>2. CASE row # NoRow
    <3>1. Found("right", {c}, AfterRight(row, c)) \in RequestState
      BY <2>2, <1>nil, HandlerTypes, RequestTypes
    <3>2. QED BY <1>1, <3>1, <1>send DEF TypeRight, TypeOK
  <2>3. QED BY <2>1, <2>2
<1>2. ASSUME NEW r \in Request, TypeWrong(r) PROVE TypeOK'
  <2>1. CASE row = NoRow
    BY <1>2, <2>1 DEF TypeWrong, Send, TypeOK
  <2>2. CASE row # NoRow
    <3>1. Found("wrong", {}, AfterWrong(row)) \in RequestState
      BY <2>2, <1>nil, HandlerTypes, RequestTypes
    <3>2. QED BY <1>2, <3>1, <1>send DEF TypeWrong, TypeOK
  <2>3. QED BY <2>1, <2>2
<1>3. ASSUME NEW r \in Request, NEW c \in Cell, AskHint(r, c) PROVE TypeOK'
  <2>1. [Idle EXCEPT !.pc = "asking", !.cells = {c}, !.heard = TRUE] \in RequestState
    BY ConstantTypes DEF RequestState
  <2>2. QED BY <1>3, <2>1 DEF AskHint, TypeOK
<1>4. ASSUME NEW r \in Request, ApplyHint(r) PROVE TypeOK'
  <2>1. PICK c \in page.hint :
          /\ page' = [page EXCEPT !.holes = @ \ {c}, !.fixed = @ \ {c}, !.hint = {}]
          /\ Send(r, Found("apply", {c}, AfterRight(row, c)))
          /\ UNCHANGED <<row, reported, quits, loads, history>>
    BY <1>4 DEF ApplyHint
  <2>2. c \in Cell /\ page' \in Page
    BY <2>1 DEF TypeOK, Page
  <2>3. CASE row = NoRow
    BY <2>1, <2>2, <2>3 DEF Send, TypeOK
  <2>4. CASE row # NoRow
    <3>1. Found("apply", {c}, AfterRight(row, c)) \in RequestState
      BY <2>2, <2>4, <1>nil, HandlerTypes, RequestTypes
    <3>2. QED BY <2>1, <2>2, <3>1, <1>send DEF TypeOK
  <2>5. QED BY <2>3, <2>4
<1>exit. ASSUME NEW requests \in [Request -> RequestState], ReportExit(requests)
         PROVE  /\ req' \in [Request -> RequestState] /\ page' \in Page
                /\ reported' \in [win : Nat, lose : Nat]
  BY <1>exit, ConstantTypes DEF ReportExit, TypeOK
<1>5. ASSUME NEW r \in Request, ConfirmExit(r) PROVE TypeOK'
  <2>1. CASE row = NoRow
    BY <1>5, <2>1, <1>exit, RequestTypes DEF ConfirmExit, TypeOK
  <2>2. CASE row # NoRow
    <3>1. Found("abandon", {}, Abandoned(row)) \in RequestState
      BY <2>2, <1>nil, HandlerTypes, RequestTypes
    <3>2. [page EXCEPT !.exit = FALSE] \in Page
      BY DEF TypeOK, Page
    <3>3. req' \in [Request -> RequestState]
      BY <1>5, <2>2, <3>1 DEF ConfirmExit, TypeOK
    <3>4. /\ page' = [page EXCEPT !.exit = FALSE] /\ reported' = reported
          /\ quits' = quits + 1 /\ sent' = sent + 1
      BY <1>5, <2>2, Zenon DEF ConfirmExit
    <3>5. UNCHANGED <<row, loads, history>>
      BY <1>5 DEF ConfirmExit
    <3>6. QED BY <3>2, <3>3, <3>4, <3>5 DEF TypeOK
  <2>3. QED BY <2>1, <2>2
<1>6. ASSUME NEW r \in Request, SaveSelect(r) PROVE TypeOK'
  <2> DEFINE pc == IF row = NoRow THEN "inserting" ELSE "updating"
             cols == IF row = NoRow THEN {} ELSE Changed(req[r].entity, row)
  <2>1. cols \subseteq DOMAIN NewRoom
    BY <1>nil DEF Changed, Room, NewRoom
  <2>2. req' = [req EXCEPT ![r] = [req[r] EXCEPT !.pc = pc, !.cols = cols]]
    BY <1>6 DEF SaveSelect, TypeOK, RequestState
  <2>3. [req[r] EXCEPT !.pc = pc, !.cols = cols] \in RequestState
    <3> HIDE DEF cols
    <3> QED BY <2>1 DEF TypeOK, RequestState
  <2>4. QED BY <1>6, <2>2, <2>3 DEF SaveSelect, TypeOK
<1>saved. ASSUME NEW r \in Request, NEW newRow \in Room \union {NoRow}, Saved(r, newRow)
          PROVE  TypeOK'
  <2>1. [req[r] EXCEPT !.pc = "answered", !.cols = {}, !.overtaken = FALSE] \in RequestState
    BY DEF TypeOK, RequestState
  <2>2. req' \in [Request -> RequestState]
    BY <1>saved, <2>1, RequestTypes, ConstantTypes DEF Saved
  <2>3. solved' \subseteq Cell
    BY <1>saved DEF Saved, TypeOK, RequestState
  <2>4. QED BY <1>saved, <2>2, <2>3 DEF Saved, TypeOK
<1>7. ASSUME NEW r \in Request, SaveUpdate(r) PROVE TypeOK'
  <2>1. req[r].entity \in Room
    BY DEF TypeOK, RequestState
  <2>2. QED BY <1>7, <2>1, <1>nil, <1>saved, UpdatedColumns DEF SaveUpdate
<1>8. ASSUME NEW r \in Request, SaveInsert(r) PROVE TypeOK'
  <2>1. req[r].entity \in Room
    BY DEF TypeOK, RequestState
  <2>2. QED BY <1>8, <2>1, <1>saved DEF SaveInsert
<1>9. ASSUME NEW r \in Request, ShowHint(r) PROVE TypeOK'
  <2>1. [page EXCEPT !.hint = req[r].cells, !.hints = @ - 1] \in Page
    <3>1. req[r].cells \subseteq Cell
      BY DEF TypeOK, RequestState
    <3>2. page \in Page /\ page.hints - 1 \in Int
      BY DEF TypeOK, Page
    <3>3. \A cells \in SUBSET Cell, n \in Int : [page EXCEPT !.hint = cells, !.hints = n] \in Page
      BY <3>2 DEF Page
    <3>4. QED BY <3>1, <3>2, <3>3
  <2>2. (IF row = NoRow THEN Idle ELSE Found("hint", {}, AfterHint(row))) \in RequestState
    BY <1>nil, HandlerTypes, RequestTypes, ConstantTypes
  <2>3. QED BY <1>9, <2>1, <2>2 DEF ShowHint, TypeOK
<1>10. ASSUME NEW r \in Request, AnswerMove(r) PROVE TypeOK'
  <2> DEFINE q == req[r]
             shown == IF q.kind = "right" THEN [page EXCEPT !.holes = @ \ q.cells]
                      ELSE [page EXCEPT !.lives = q.entity.health]
  <2>1. shown \in Page
    <3>1. q.entity.health \in Int
      <4>1. req[r] \in RequestState
        BY DEF TypeOK
      <4>2. req[r].entity \in Room
        BY <4>1 DEF RequestState
      <4>3. QED BY <4>2 DEF Room
    <3>2. [page EXCEPT !.lives = q.entity.health] \in Page
      BY <3>1 DEF TypeOK, Page
    <3>3. [page EXCEPT !.holes = @ \ q.cells] \in Page
      BY DEF TypeOK, Page
    <3>4. QED BY <3>2, <3>3
  <2>2. \A result \in {"win", "lose"} : [shown EXCEPT !.result = result] \in Page
    <3> HIDE DEF shown
    <3> QED BY <2>1 DEF Page
  <2>3. \A result \in {"win", "lose"} : [reported EXCEPT ![result] = @ + 1] \in [win : Nat, lose : Nat]
    BY DEF TypeOK
  <2>4. page' \in Page /\ reported' \in [win : Nat, lose : Nat]
    <3>1. \/ Ends(shown, "win")
          \/ Ends(shown, "lose")
          \/ page' = shown /\ UNCHANGED reported
      <4> DEFINE won == q.kind = "right" /\ IsWin(q.entity.currBoard)
                 lost == q.kind = "wrong" /\ q.entity.health <= 0
      <4>1. IF won THEN Ends(shown, "win")
            ELSE IF lost THEN Ends(shown, "lose")
            ELSE page' = shown /\ UNCHANGED reported
        BY <1>10, Zenon DEF AnswerMove
      <4> HIDE DEF won, lost, shown
      <4>2. CASE won
        BY <4>1, <4>2
      <4>3. CASE ~won /\ lost
        BY <4>1, <4>3
      <4>4. CASE ~won /\ ~lost
        BY <4>1, <4>4
      <4>5. QED BY <4>2, <4>3, <4>4
    <3> HIDE DEF shown
    <3>2. QED BY <2>1, <2>2, <2>3, <3>1 DEF Ends, TypeOK
  <2>5. req' \in [Request -> RequestState]
    BY <1>10, ConstantTypes DEF AnswerMove, TypeOK
  <2>6. QED BY <1>10, <2>4, <2>5 DEF AnswerMove, TypeOK
<1>11. ASSUME NEW r \in Request, MissHint(r) PROVE TypeOK'
  BY <1>11, ConstantTypes DEF MissHint, TypeOK
<1>idle. \A r \in Request : /\ [Unheard(Moves) EXCEPT ![r] = Idle] \in [Request -> RequestState]
                            /\ [req EXCEPT ![r] = Idle] \in [Request -> RequestState]
  BY RequestTypes, ConstantTypes DEF TypeOK
<1>12. ASSUME NEW r \in Request, AnswerExit(r) PROVE TypeOK'
  BY <1>12, <1>idle, <1>exit DEF AnswerExit, TypeOK
<1>13. ASSUME NEW r \in Request, Lose(r) PROVE TypeOK'
  <2>1. /\ req' \in [Request -> RequestState] /\ page' \in Page
        /\ reported' \in [win : Nat, lose : Nat]
    BY <1>13, <1>idle, <1>exit DEF Lose, TypeOK
  <2>2. QED BY <1>13, <2>1 DEF Lose, TypeOK
<1>14. ASSUME NEW c \in Cell, Erase(c) PROVE TypeOK'
  BY <1>14 DEF Erase, TypeOK, Page
<1>15. CASE StartOther
  BY <1>15, RequestTypes DEF StartOther, TypeOK
<1>16. CASE Back
  <2>1. page' \in Page
    BY <1>16, ConstantTypes DEF Back, TypeOK, Page
  <2>2. QED BY <1>16, <2>1, RequestTypes DEF Back, TypeOK
<1>17. CASE CancelExit
  BY <1>17 DEF CancelExit, TypeOK, Page
<1>18. CASE Load
  <2>1. page' \in Page
    BY <1>18, <1>nil, ConstantTypes DEF Load
  <2>2. QED BY <1>18, <2>1, RequestTypes DEF Load, TypeOK
<1>19. CASE UNCHANGED vars
  BY <1>19 DEF vars, TypeOK
<1>20. QED
  BY <1>1, <1>2, <1>3, <1>4, <1>5, <1>6, <1>7, <1>8, <1>9, <1>10, <1>11, <1>12, <1>13, <1>14,
     <1>15, <1>16, <1>17, <1>18, <1>19 DEF Next, Serve, Answer

\* A new game and the page that shows it are well typed.
LEMMA InitTypes == Init => TypeOK
<1> SUFFICES ASSUME Init PROVE TypeOK
  OBVIOUS
<1>1. row \in Room /\ page \in Page /\ req \in [Request -> RequestState]
  BY ConstantTypes DEF Init
<1>2. reported \in [win : Nat, lose : Nat]
  BY DEF Init
<1>3. QED BY <1>1, <1>2 DEF Init, TypeOK

\* The row, the requests in flight and the page are always well typed.
THEOREM OfflineTypes == Spec => []TypeOK
BY InitTypes, TypeStep, PTL DEF Spec

-----------------------------------------------------------------------------
(* ResultIsEarned.  What an entity claims, and with it the row, every save *)
(* in flight and every answer, was saved before: a column is only ever     *)
(* copied, or changed by the move of its own request.                      *)

Working == {"saving", "updating", "inserting"}
NewCells(q) == IF q.kind \in {"right", "apply"} THEN q.cells ELSE {}
NewWrong(q) == IF q.kind = "wrong" THEN 1 ELSE 0

\* The right moves s and w wrong moves explain the row room.
Backed(room, s, w) == Cell \ room.currBoard \subseteq s /\ room.health >= Lives - w

\* They explain the entity of q, with q's own move, and a move that was typed
\* in is only answered on a page that is open.
Honest(q, s, w, open) ==
  /\ q.pc \in Working =>
       /\ Cell \ q.entity.currBoard \subseteq s \union NewCells(q)
       /\ q.entity.health >= Lives - w - NewWrong(q)
  /\ q.pc = "answered" => Backed(q.entity, s, w) /\ q.heard
  /\ q.heard /\ q.kind \in {"right", "wrong"} => open

Honesty ==
  /\ row # NoRow => Backed(row, solved, wrong)
  /\ \A r \in Request : Honest(req[r], solved, wrong, page.open)

\* What was explained once is explained for ever.
LEMMA HonestLater ==
  ASSUME NEW q \in RequestState, NEW s, NEW t, NEW w \in Nat, NEW v \in Nat, NEW open, NEW later,
         Honest(q, s, w, open), s \subseteq t, w <= v, open => later
  PROVE  Honest(q, t, v, later)
<1>1. q.entity.health \in Int /\ NewWrong(q) \in Int
  <2>1. q.entity \in Room
    BY DEF RequestState
  <2>2. QED BY <2>1 DEF Room, NewWrong
<1>2. QED BY <1>1, GameAssumption DEF Honest, Backed

\* What the handlers make of a row that is explained.
LEMMA HonestFound ==
  ASSUME NEW room \in Room, NEW s, NEW w \in Nat, NEW open, Backed(room, s, w)
  PROVE  /\ \A c \in Cell : /\ Honest(Found("right", {c}, AfterRight(room, c)), s, w, TRUE)
                            /\ Honest(Found("apply", {c}, AfterRight(room, c)), s, w, open)
         /\ Honest(Found("wrong", {}, AfterWrong(room)), s, w, TRUE)
         /\ Honest(Found("hint", {}, AfterHint(room)), s, w, open)
         /\ Honest(Found("abandon", {}, Abandoned(room)), s, w, open)
<1> DEFINE hurt == [room EXCEPT !.health = @ - 1]
<1>1. room.health \in Int
  BY DEF Room
<1>2. \A c \in Cell : /\ AfterRight(room, c).currBoard = room.currBoard \ {c}
                      /\ AfterRight(room, c).health = room.health
  BY DEF AfterRight, Room
<1>3. AfterWrong(room).currBoard = room.currBoard /\ AfterWrong(room).health = room.health - 1
  BY DEF AfterWrong, Room
<1>4. /\ AfterHint(room).currBoard = room.currBoard /\ AfterHint(room).health = room.health
      /\ Abandoned(room).currBoard = room.currBoard /\ Abandoned(room).health = room.health
  BY DEF AfterHint, Abandoned, Room
<1>5. QED
  BY <1>1, <1>2, <1>3, <1>4, GameAssumption DEF Honest, Found, Backed, NewCells, NewWrong, Working

\* What a request claims depends on some of its fields, and less is claimed of
\* one that nobody listens to.
LEMMA HonestFields ==
  ASSUME NEW p, NEW q, NEW s, NEW w, NEW open, NEW later, Honest(p, s, w, open),
         q.pc = p.pc, q.kind = p.kind, q.cells = p.cells, q.entity = p.entity,
         \/ q.heard = p.heard /\ (q.kind \in {"right", "wrong"} => open = later)
         \/ q.heard = FALSE /\ q.pc # "answered"
  PROVE  Honest(q, s, w, later)
<1>1. NewCells(q) = NewCells(p) /\ NewWrong(q) = NewWrong(p)
  BY DEF NewCells, NewWrong
<1>2. q.pc = "answered" => Backed(q.entity, s, w) /\ q.heard
  BY Zenon DEF Honest
<1>3. q.heard /\ q.kind \in {"right", "wrong"} => later
  BY Zenon DEF Honest
<1>4. QED BY <1>1, <1>2, <1>3 DEF Honest

\* An idle slot claims nothing, and neither the saves of others nor leaving the
\* page add to what a request claims.
LEMMA HonestOthers ==
  ASSUME TypeOK, NEW s, NEW w, NEW open, NEW x \in Request, Honest(req[x], s, w, page.open)
  PROVE  /\ Honest(Idle, s, w, open)
         /\ \A newRow : Honest(Overtaken(newRow)[x], s, w, page.open)
         /\ \A kinds : Moves \subseteq kinds => Honest(Unheard(kinds)[x], s, w, open)
<1>1. Honest(Idle, s, w, open)
  BY DEF Honest, Idle, Working
<1>2. ASSUME NEW newRow PROVE Honest(Overtaken(newRow)[x], s, w, page.open)
  <2> DEFINE q == Overtaken(newRow)[x]
  <2>1. /\ q.pc = req[x].pc /\ q.kind = req[x].kind /\ q.cells = req[x].cells
        /\ q.entity = req[x].entity /\ q.heard = req[x].heard
    BY DEF Overtaken, TypeOK, RequestState
  <2>2. QED BY <2>1, HonestFields
<1>3. ASSUME NEW kinds, Moves \subseteq kinds PROVE Honest(Unheard(kinds)[x], s, w, open)
  <2> DEFINE q == Unheard(kinds)[x]
  <2>1. CASE req[x].kind \notin kinds
    <3>1. q = req[x] /\ req[x].kind \notin {"right", "wrong"}
      BY <1>3, <2>1 DEF Unheard, Moves
    <3>2. QED BY <3>1, HonestFields
  <2>2. CASE req[x].kind \in kinds /\ req[x].pc \in {"asking", "answered"}
    BY <1>1, <2>2 DEF Unheard
  <2>3. CASE req[x].kind \in kinds /\ req[x].pc \notin {"asking", "answered"}
    <3>1. /\ q.pc = req[x].pc /\ q.kind = req[x].kind /\ q.cells = req[x].cells
          /\ q.entity = req[x].entity /\ q.heard = FALSE
      BY <2>3 DEF Unheard, TypeOK, RequestState
    <3>2. QED BY <2>3, <3>1, HonestFields
  <2>4. QED BY <2>1, <2>2, <2>3
<1>4. QED BY <1>1, <1>2, <1>3

\* A request that is explained is sent.
LEMMA HonestSend ==
  ASSUME TypeOK, Honesty, NEW r \in Request, NEW request, Send(r, request),
         row # NoRow => Honest(request, solved, wrong, page.open)
  PROVE  \A x \in Request : Honest(req'[x], solved, wrong, page.open)
BY DEF Send, TypeOK, Honesty

\* The move of a request joins the explanation when it is saved.
LEMMA SavedHonest ==
  ASSUME TypeOK, TypeOK', Honesty, NEW r \in Request, req[r].pc \in Working, NEW newRow,
         Saved(r, newRow),
         newRow # NoRow => Backed(newRow, solved \union NewCells(req[r]), wrong + NewWrong(req[r]))
  PROVE  Honesty'
<1> DEFINE q == req[r]
<1>1. solved' = solved \union NewCells(q) /\ wrong' = wrong + NewWrong(q) /\ page' = page
  BY DEF Saved, NewCells, NewWrong, TypeOK
<1>2. solved \subseteq solved' /\ wrong <= wrong' /\ wrong \in Nat /\ wrong' \in Nat
  BY <1>1 DEF TypeOK, NewWrong
<1>3. row' # NoRow => Backed(row', solved', wrong')
  BY <1>1 DEF Saved
<1>4. ASSUME NEW x \in Request, x # r PROVE Honest(req'[x], solved', wrong', page'.open)
  <2>1. req'[x] = Overtaken(newRow)[x] /\ Overtaken(newRow)[x] \in RequestState
    BY <1>4, RequestTypes DEF Saved, Overtaken
  <2>2. Honest(Overtaken(newRow)[x], solved, wrong, page.open)
    BY HonestOthers DEF Honesty
  <2>3. QED BY <1>1, <1>2, <2>1, <2>2, HonestLater
<1>5. Honest(req'[r], solved', wrong', page'.open)
  <2>1. CASE ~q.heard
    <3>1. req'[r] = Idle
      BY <2>1 DEF Saved, Overtaken
    <3>2. QED BY <3>1 DEF Honest, Idle, Working
  <2>2. CASE q.heard
    <3> DEFINE done == [q EXCEPT !.pc = "answered", !.cols = {}, !.overtaken = FALSE]
    <3>1. req'[r] = done
      BY <2>2 DEF Saved, Overtaken
    <3>2. /\ done.pc = "answered" /\ done.entity = q.entity /\ done.heard
          /\ done.kind = q.kind
      BY <2>2 DEF TypeOK, RequestState
    <3>3. Honest(q, solved, wrong, page.open)
      BY DEF Honesty
    <3>4. q.entity.health \in Int /\ NewWrong(q) \in {0, 1}
      <4>1. q.entity \in Room
        BY DEF TypeOK, RequestState
      <4>2. QED BY <4>1 DEF Room, NewWrong
    <3>5. Backed(q.entity, solved', wrong')
      BY <1>1, <1>2, <3>3, <3>4, GameAssumption DEF Honest, Backed
    <3>6. q.kind \in {"right", "wrong"} => page'.open
      BY <1>1, <2>2, <3>3, Zenon DEF Honest
    <3> HIDE DEF done
    <3>7. Honest(done, solved', wrong', page'.open)
      BY <3>2, <3>5, <3>6 DEF Honest, Working
    <3>8. QED BY <3>1, <3>7
  <2>3. QED BY <2>1, <2>2
<1>6. QED BY <1>3, <1>4, <1>5 DEF Honesty

\* The answer to a move shows its cell or the lives, and perhaps a result.
LEMMA PageStays ==
  ASSUME TypeOK, NEW r \in Request, AnswerMove(r)
  PROVE  /\ page'.open = page.open
         /\ \/ page'.result = page.result /\ reported' = reported
            \/ /\ req[r].kind = "right" /\ IsWin(req[r].entity.currBoard)
               /\ page'.result = "win"
               /\ reported' = IF page.result # "none" THEN reported ELSE [reported EXCEPT !.win = @ + 1]
            \/ /\ req[r].kind = "wrong" /\ req[r].entity.health <= 0
               /\ page'.result = "lose"
               /\ reported' = IF page.result # "none" THEN reported ELSE [reported EXCEPT !.lose = @ + 1]
<1> DEFINE q == req[r]
           shown == IF q.kind = "right" THEN [page EXCEPT !.holes = @ \ q.cells]
                    ELSE [page EXCEPT !.lives = q.entity.health]
           won == q.kind = "right" /\ IsWin(q.entity.currBoard)
           lost == q.kind = "wrong" /\ q.entity.health <= 0
<1>1. IF won THEN Ends(shown, "win")
      ELSE IF lost THEN Ends(shown, "lose")
      ELSE page' = shown /\ UNCHANGED reported
  BY Zenon DEF AnswerMove
<1>2. /\ shown.open = page.open /\ shown.result = page.result
      /\ \A result : /\ [shown EXCEPT !.result = result].open = page.open
                     /\ [shown EXCEPT !.result = result].result = result
  BY DEF TypeOK, Page
<1> HIDE DEF shown
<1>3. CASE won
  BY <1>1, <1>2, <1>3 DEF Ends
<1>4. CASE ~won /\ lost
  BY <1>1, <1>2, <1>4 DEF Ends
<1>5. CASE ~won /\ ~lost
  BY <1>1, <1>2, <1>5
<1>6. QED BY <1>3, <1>4, <1>5

\* Every step keeps the row and the requests explained.
LEMMA HonestyStep == TypeOK /\ TypeOK' /\ Honesty /\ [Next]_vars => Honesty'
<1> SUFFICES ASSUME TypeOK, TypeOK', Honesty, [Next]_vars PROVE Honesty'
  OBVIOUS
<1> USE DEF history
<1>wrong. wrong \in Nat /\ (row # NoRow => row \in Room /\ Backed(row, solved, wrong))
  BY DEF TypeOK, Honesty
<1>found. row # NoRow =>
            /\ \A c \in Cell :
                 /\ Honest(Found("right", {c}, AfterRight(row, c)), solved, wrong, TRUE)
                 /\ Honest(Found("apply", {c}, AfterRight(row, c)), solved, wrong, page.open)
            /\ Honest(Found("wrong", {}, AfterWrong(row)), solved, wrong, TRUE)
            /\ Honest(Found("hint", {}, AfterHint(row)), solved, wrong, page.open)
            /\ Honest(Found("abandon", {}, Abandoned(row)), solved, wrong, page.open)
  BY <1>wrong, HonestFound
<1>open. page.open \in BOOLEAN
  BY DEF TypeOK, Page
<1>still. ASSUME UNCHANGED <<row, solved, wrong>>,
                 \A x \in Request : Honest(req'[x], solved, wrong, page'.open)
          PROVE  Honesty'
  BY <1>still DEF Honesty
<1>left. ASSUME NEW kinds, Moves \subseteq kinds, NEW open, NEW r \in Request
         PROVE  \A x \in Request : /\ Honest(Unheard(kinds)[x], solved, wrong, open)
                                   /\ Honest([Unheard(kinds) EXCEPT ![r] = Idle][x], solved, wrong, open)
  <2>1. \A x \in Request : /\ Honest(Unheard(kinds)[x], solved, wrong, open)
                           /\ Honest(Idle, solved, wrong, open)
    BY <1>left, HonestOthers DEF Honesty
  <2>2. QED BY <2>1 DEF Unheard
<1>idle. ASSUME NEW r \in Request
         PROVE  \A x \in Request : Honest([req EXCEPT ![r] = Idle][x], solved, wrong, page.open)
  BY HonestOthers DEF Honesty, TypeOK
<1>1. ASSUME NEW r \in Request, NEW c \in Cell, TypeRight(r, c) PROVE Honesty'
  <2>1. page.open = TRUE /\ Send(r, Found("right", {c}, AfterRight(row, c)))
    BY <1>1, <1>open, Zenon DEF TypeRight, Playing
  <2>2. \A x \in Request : Honest(req'[x], solved, wrong, page.open)
    BY <2>1, <1>found, HonestSend
  <2>3. QED BY <1>1, <2>2, <1>still DEF TypeRight
<1>2. ASSUME NEW r \in Request, TypeWrong(r) PROVE Honesty'
  <2>1. page.open = TRUE /\ Send(r, Found("wrong", {}, AfterWrong(row)))
    BY <1>2, <1>open, Zenon DEF TypeWrong, Playing
  <2>2. \A x \in Request : Honest(req'[x], solved, wrong, page.open)
    BY <2>1, <1>found, HonestSend
  <2>3. QED BY <1>2, <2>2, <1>still DEF TypeWrong
<1>3. ASSUME NEW r \in Request, NEW c \in Cell, AskHint(r, c) PROVE Honesty'
  <2>1. Honest([Idle EXCEPT !.pc = "asking", !.cells = {c}, !.heard = TRUE], solved, wrong, page.open)
    BY DEF Honest, Idle, Working
  <2>2. \A x \in Request : Honest(req'[x], solved, wrong, page.open)
    BY <1>3, <2>1 DEF AskHint, TypeOK, Honesty
  <2>3. QED BY <1>3, <2>2, <1>still DEF AskHint
<1>4. ASSUME NEW r \in Request, ApplyHint(r) PROVE Honesty'
  <2>1. PICK c \in page.hint :
          /\ page' = [page EXCEPT !.holes = @ \ {c}, !.fixed = @ \ {c}, !.hint = {}]
          /\ Send(r, Found("apply", {c}, AfterRight(row, c)))
          /\ UNCHANGED <<row, reported, quits, loads, history>>
    BY <1>4 DEF ApplyHint
  <2>2. c \in Cell /\ page'.open = page.open
    BY <2>1 DEF TypeOK, Page
  <2>3. \A x \in Request : Honest(req'[x], solved, wrong, page.open)
    BY <2>1, <2>2, <1>found, HonestSend
  <2>4. QED BY <2>1, <2>2, <2>3, <1>still
<1>5. ASSUME NEW r \in Request, ConfirmExit(r) PROVE Honesty'
  <2>1. CASE row = NoRow
    <3>1. req' = Unheard(Moves)
      BY <1>5, <2>1 DEF ConfirmExit, ReportExit
    <3>2. QED BY <1>5, <3>1, <1>left, <1>still DEF ConfirmExit
  <2>2. CASE row # NoRow
    <3>1. /\ req' = [req EXCEPT ![r] = Found("abandon", {}, Abandoned(row))]
          /\ page'.open = page.open
      BY <1>5, <2>2 DEF ConfirmExit, TypeOK, Page
    <3>2. \A x \in Request : Honest(req'[x], solved, wrong, page.open)
      BY <2>2, <3>1, <1>found DEF TypeOK, Honesty
    <3>3. QED BY <1>5, <3>1, <3>2, <1>still DEF ConfirmExit
  <2>3. QED BY <2>1, <2>2
<1>6. ASSUME NEW r \in Request, SaveSelect(r) PROVE Honesty'
  <2>1. Honest(req[r], solved, wrong, page.open) /\ req[r].pc \in Working
    BY <1>6 DEF SaveSelect, Honesty, Working
  <2>2. /\ req'[r].pc \in Working /\ req'[r].kind = req[r].kind /\ req'[r].cells = req[r].cells
        /\ req'[r].entity = req[r].entity /\ req'[r].heard = req[r].heard
        /\ \A x \in Request : x # r => req'[x] = req[x]
    BY <1>6 DEF SaveSelect, TypeOK, RequestState, Working
  <2>3. NewCells(req'[r]) = NewCells(req[r]) /\ NewWrong(req'[r]) = NewWrong(req[r])
    BY <2>2 DEF NewCells, NewWrong
  <2>4. Honest(req'[r], solved, wrong, page.open)
    BY <2>1, <2>2, <2>3 DEF Honest, Working
  <2>5. \A x \in Request : Honest(req'[x], solved, wrong, page.open)
    BY <2>2, <2>4 DEF Honesty
  <2>6. QED BY <1>6, <2>5, <1>still DEF SaveSelect
<1>entity. ASSUME NEW r \in Request, req[r].pc \in Working
           PROVE  /\ req[r].entity \in Room
                  /\ Backed(req[r].entity, solved \union NewCells(req[r]), wrong + NewWrong(req[r]))
  <2>1. req[r].entity \in Room /\ Honest(req[r], solved, wrong, page.open)
    BY DEF TypeOK, RequestState, Honesty
  <2>2. req[r].entity.health \in Int /\ NewWrong(req[r]) \in {0, 1}
    BY <2>1 DEF Room, NewWrong
  <2>3. QED BY <1>entity, <1>wrong, <2>1, <2>2, GameAssumption DEF Honest, Backed
<1>7. ASSUME NEW r \in Request, SaveUpdate(r) PROVE Honesty'
  <2> DEFINE new == Updated(row, req[r].entity, req[r].cols)
  <2>1. req[r].pc \in Working
    BY <1>7 DEF SaveUpdate, Working
  <2>2. CASE row = NoRow
    BY <1>7, <2>1, <2>2, SavedHonest DEF SaveUpdate
  <2>3. CASE row # NoRow
    <3>1. /\ new.currBoard \in {row.currBoard, req[r].entity.currBoard}
          /\ new.health \in {row.health, req[r].entity.health}
      BY <2>1, <2>3, <1>wrong, <1>entity, UpdatedColumns
    <3>2. row.health \in Int /\ NewWrong(req[r]) \in {0, 1}
      BY <2>3, <1>wrong DEF Room, NewWrong
    <3>3. Backed(row, solved \union NewCells(req[r]), wrong + NewWrong(req[r]))
      BY <2>3, <3>2, <1>wrong, GameAssumption DEF Backed
    <3> HIDE DEF new
    <3>4. Backed(new, solved \union NewCells(req[r]), wrong + NewWrong(req[r]))
      BY <2>1, <3>1, <3>3, <1>entity DEF Backed
    <3>5. Saved(r, new)
      BY <1>7, <2>3 DEF SaveUpdate, new
    <3>6. QED BY <2>1, <3>4, <3>5, SavedHonest
  <2>4. QED BY <2>2, <2>3
<1>8. ASSUME NEW r \in Request, SaveInsert(r) PROVE Honesty'
  <2>1. req[r].pc \in Working /\ Saved(r, req[r].entity)
    BY <1>8 DEF SaveInsert, Working
  <2>2. QED BY <2>1, <1>entity, SavedHonest
<1>9. ASSUME NEW r \in Request, ShowHint(r) PROVE Honesty'
  <2>1. page'.open = page.open
    BY <1>9 DEF ShowHint, TypeOK, Page
  <2>2. Honest(Idle, solved, wrong, page.open)
    BY <1>idle DEF TypeOK
  <2>3. \A x \in Request : Honest(req'[x], solved, wrong, page.open)
    BY <1>9, <2>2, <1>found DEF ShowHint, TypeOK, Honesty
  <2>4. QED BY <1>9, <2>1, <2>3, <1>still DEF ShowHint
<1>10. ASSUME NEW r \in Request, AnswerMove(r) PROVE Honesty'
  <2>1. req' = [req EXCEPT ![r] = Idle] /\ UNCHANGED <<row, solved, wrong>>
    BY <1>10 DEF AnswerMove
  <2>2. page'.open = page.open
    BY <1>10, PageStays DEF TypeOK
  <2>3. QED BY <2>1, <2>2, <1>idle, <1>still
<1>11. ASSUME NEW r \in Request, MissHint(r) PROVE Honesty'
  BY <1>11, <1>idle, <1>still DEF MissHint
<1>12. ASSUME NEW r \in Request, AnswerExit(r) PROVE Honesty'
  <2>1. req' = [Unheard(Moves) EXCEPT ![r] = Idle] /\ UNCHANGED <<row, solved, wrong>>
    BY <1>12 DEF AnswerExit, ReportExit
  <2>2. QED BY <2>1, <1>left, <1>still
<1>13. ASSUME NEW r \in Request, Lose(r) PROVE Honesty'
  <2>1. UNCHANGED <<row, solved, wrong>>
    BY <1>13 DEF Lose
  <2>2. CASE req[r].kind = "abandon" /\ req[r].heard
    <3>1. req' = [Unheard(Moves) EXCEPT ![r] = Idle]
      BY <1>13, <2>2 DEF Lose, ReportExit
    <3>2. QED BY <2>1, <3>1, <1>left, <1>still
  <2>3. CASE ~(req[r].kind = "abandon" /\ req[r].heard)
    BY <1>13, <2>1, <2>3, <1>idle, <1>still DEF Lose
  <2>4. QED BY <2>2, <2>3
<1>14. ASSUME NEW c \in Cell, Erase(c) PROVE Honesty'
  <2>1. page'.open = page.open
    BY <1>14 DEF Erase, TypeOK, Page
  <2>2. QED BY <1>14, <2>1, <1>still DEF Erase, Honesty
<1>15. CASE StartOther
  <2>1. row' = NoRow /\ req' = Overtaken(NoRow) /\ UNCHANGED <<page, solved, wrong>>
    BY <1>15 DEF StartOther
  <2>2. QED BY <2>1, HonestOthers DEF Honesty
<1>16. CASE Back
  <2>1. UNCHANGED <<row, solved, wrong>>
    BY <1>16 DEF Back
  <2>2. CASE Playing
    <3>1. page'.open = page.open /\ req' = req
      BY <1>16, <2>2 DEF Back, TypeOK, Page
    <3>2. QED BY <2>1, <3>1, <1>still DEF Honesty
  <2>3. CASE ~Playing
    <3>1. req' = Unheard(Moves)
      BY <1>16, <2>3 DEF Back
    <3>2. \A x \in Request : Honest(req'[x], solved, wrong, page'.open)
      BY <3>1, <1>left
    <3>3. QED BY <2>1, <3>2, <1>still
  <2>4. QED BY <2>2, <2>3
<1>17. CASE CancelExit
  <2>1. page'.open = page.open
    BY <1>17 DEF CancelExit, TypeOK, Page
  <2>2. QED BY <1>17, <2>1, <1>still DEF CancelExit, Honesty
<1>18. CASE Load
  <2>1. UNCHANGED <<row, solved, wrong>>
    BY <1>18 DEF Load
  <2>2. PICK kinds : Moves \subseteq kinds /\ req' = Unheard(kinds)
    BY <1>18 DEF Load
  <2>3. QED BY <2>1, <2>2, <1>left, <1>still
<1>19. CASE UNCHANGED vars
  BY <1>19 DEF vars, Honesty
<1>20. QED
  BY <1>1, <1>2, <1>3, <1>4, <1>5, <1>6, <1>7, <1>8, <1>9, <1>10, <1>11, <1>12, <1>13, <1>14,
     <1>15, <1>16, <1>17, <1>18, <1>19 DEF Next, Serve, Answer

(***************************************************************************)
(* The results.  Quitting: the abandonments that the page waits for; each  *)
(* of them will report a defeat that was confirmed, as a page that is      *)
(* still playing may report one result.                                    *)
(***************************************************************************)
Quits(q) == q.kind = "abandon" /\ q.pc # "idle" /\ q.heard
Quitting == {r \in Request : Quits(req[r])}
Unreported == IF Playing THEN 1 ELSE 0

Ledger ==
  /\ page.result = "win" \/ reported.win > 0 => solved = Cell
  /\ page.result = "lose" => wrong >= Lives
  /\ wrong >= Lives \/ reported.lose + Cardinality(Quitting) <= quits
  /\ reported.win + reported.lose + Cardinality(Quitting) + Unreported <= quits + loads + 1

\* How many abandonments wait when one is sent, one has ended, or none is new.
LEMMA QuittingSize ==
  ASSUME NEW r
  PROVE  /\ Cardinality(Quitting) \in Nat /\ Cardinality(Quitting') \in Nat
         /\ Quitting' = Quitting \union {r} => Cardinality(Quitting') <= Cardinality(Quitting) + 1
         /\ Quitting' \subseteq Quitting => Cardinality(Quitting') <= Cardinality(Quitting)
         /\ r \in Quitting /\ Quitting' \subseteq Quitting \ {r} =>
              Cardinality(Quitting') + 1 <= Cardinality(Quitting)
<1>1. IsFiniteSet(Quitting) /\ IsFiniteSet(Quitting')
  BY GameAssumption, FS_Subset DEF Quitting
<1>2. Cardinality(Quitting) \in Nat /\ Cardinality(Quitting') \in Nat
  BY <1>1, FS_CardinalityType
<1>3. ASSUME Quitting' = Quitting \union {r}
      PROVE  Cardinality(Quitting') <= Cardinality(Quitting) + 1
  BY <1>1, <1>2, <1>3, FS_AddElement
<1>4. Quitting' \subseteq Quitting => Cardinality(Quitting') <= Cardinality(Quitting)
  BY <1>1, FS_Subset
<1>5. ASSUME r \in Quitting, Quitting' \subseteq Quitting \ {r}
      PROVE  Cardinality(Quitting') + 1 <= Cardinality(Quitting)
  <2>1. /\ IsFiniteSet(Quitting \ {r})
        /\ Cardinality(Quitting \ {r}) = Cardinality(Quitting) - 1
    BY <1>1, <1>5, FS_RemoveElement
  <2>2. Cardinality(Quitting') <= Cardinality(Quitting \ {r})
    BY <1>5, <2>1, FS_Subset
  <2>3. QED BY <1>2, <2>1, <2>2
<1>6. QED BY <1>2, <1>3, <1>4, <1>5

\* Nobody begins to give up by being overtaken, by leaving the page, or by a
\* request of another kind.
LEMMA QuitsOthers ==
  ASSUME TypeOK, NEW x \in Request
  PROVE  /\ ~Quits(Idle)
         /\ \A newRow : Quits(Overtaken(newRow)[x]) <=> Quits(req[x])
         /\ \A kinds : Quits(Unheard(kinds)[x]) => Quits(req[x])
         /\ \A kind, cells, entity : kind # "abandon" => ~Quits(Found(kind, cells, entity))
<1>1. ~Quits(Idle)
  BY DEF Quits, Idle
<1>2. ASSUME NEW newRow PROVE Quits(Overtaken(newRow)[x]) <=> Quits(req[x])
  <2> DEFINE q == Overtaken(newRow)[x]
  <2>1. q.pc = req[x].pc /\ q.kind = req[x].kind /\ q.heard = req[x].heard
    BY DEF Overtaken, TypeOK, RequestState
  <2>2. QED BY <2>1, Zenon DEF Quits
<1>3. ASSUME NEW kinds PROVE Quits(Unheard(kinds)[x]) => Quits(req[x])
  <2>1. CASE req[x].kind \notin kinds
    BY <2>1 DEF Unheard
  <2>2. CASE req[x].kind \in kinds /\ req[x].pc \in {"asking", "answered"}
    BY <2>2, <1>1 DEF Unheard
  <2>3. CASE req[x].kind \in kinds /\ req[x].pc \notin {"asking", "answered"}
    BY <2>3 DEF Unheard, Quits, TypeOK, RequestState
  <2>4. QED BY <2>1, <2>2, <2>3
<1>4. \A kind, cells, entity : kind # "abandon" => ~Quits(Found(kind, cells, entity))
  BY DEF Quits, Found
<1>5. QED BY <1>1, <1>2, <1>3, <1>4

\* A step that neither gives up nor shows or reports a result.
LEMMA LedgerQuiet ==
  ASSUME TypeOK, TypeOK', Ledger, Quitting' \subseteq Quitting, Playing' => Playing,
         page'.result \in {page.result, "none"}, solved \subseteq solved', wrong <= wrong',
         UNCHANGED <<reported, quits, loads>>
  PROVE  Ledger'
<1>1. /\ Cardinality(Quitting) \in Nat /\ Cardinality(Quitting') \in Nat
      /\ Cardinality(Quitting') <= Cardinality(Quitting)
  BY QuittingSize
<1>2. Unreported \in {0, 1} /\ Unreported' <= Unreported /\ Unreported' \in {0, 1}
  BY DEF Unreported
<1>3. /\ reported.win \in Nat /\ reported.lose \in Nat /\ quits \in Nat /\ loads \in Nat
      /\ wrong \in Nat /\ wrong' \in Nat /\ solved' \subseteq Cell
  BY DEF TypeOK
<1>4. reported' = reported /\ quits' = quits /\ loads' = loads
  OBVIOUS
<1>5. page'.result = "win" \/ reported'.win > 0 => solved' = Cell
  BY <1>3, <1>4 DEF Ledger
<1>6. page'.result = "lose" => wrong' >= Lives
  BY <1>3, GameAssumption DEF Ledger
<1>7. wrong' >= Lives \/ reported'.lose + Cardinality(Quitting') <= quits'
  BY <1>1, <1>3, <1>4, GameAssumption DEF Ledger
<1>8. reported'.win + reported'.lose + Cardinality(Quitting') + Unreported' <= quits' + loads' + 1
  BY <1>1, <1>2, <1>3, <1>4 DEF Ledger
<1>9. QED BY <1>5, <1>6, <1>7, <1>8 DEF Ledger

\* Giving up reports a defeat, at once or when its request has ended.
LEMMA LedgerExit ==
  ASSUME TypeOK, TypeOK', Ledger, NEW r, NEW requests, ReportExit(requests),
         UNCHANGED <<solved, wrong, loads>>,
         \/ quits' = quits + 1 /\ Quitting' \subseteq Quitting
         \/ quits' = quits /\ r \in Quitting /\ Quitting' \subseteq Quitting \ {r}
  PROVE  Ledger'
<1>1. Unreported \in {0, 1} /\ Unreported' = 0 /\ page'.result = "none"
  BY DEF Unreported, Playing, ReportExit, Gone, Loaded, NewRoom
<1>2. reported'.lose = reported.lose + 1 /\ reported'.win = reported.win
  BY DEF ReportExit, TypeOK
<1>3. /\ reported.win \in Nat /\ reported.lose \in Nat /\ quits \in Nat /\ loads \in Nat
      /\ wrong \in Nat
  BY DEF TypeOK
<1>4. /\ Cardinality(Quitting) \in Nat /\ Cardinality(Quitting') \in Nat
      /\ \/ quits' = quits + 1 /\ Cardinality(Quitting') <= Cardinality(Quitting)
         \/ quits' = quits /\ Cardinality(Quitting') + 1 <= Cardinality(Quitting)
  BY QuittingSize
<1>5. page'.result = "win" \/ reported'.win > 0 => solved' = Cell
  BY <1>1, <1>2 DEF Ledger
<1>6. wrong' >= Lives \/ reported'.lose + Cardinality(Quitting') <= quits'
  BY <1>2, <1>3, <1>4 DEF Ledger
<1>7. reported'.win + reported'.lose + Cardinality(Quitting') + Unreported' <= quits' + loads' + 1
  BY <1>1, <1>2, <1>3, <1>4 DEF Ledger
<1>8. QED BY <1>1, <1>5, <1>6, <1>7 DEF Ledger

\* An answer that shows a result reports it, unless the page has shown one.
LEMMA LedgerAnswer ==
  ASSUME TypeOK, TypeOK', Honesty, Ledger, NEW r \in Request, AnswerMove(r),
         page'.result # page.result \/ reported' # reported
  PROVE  Ledger'
<1> DEFINE q == req[r]
<1>1. /\ q.entity \in Room /\ Backed(q.entity, solved, wrong)
      /\ q.kind \in {"right", "wrong"} /\ page.open = TRUE
  <2>1. /\ q.pc = "answered" /\ q.kind \in {"right", "wrong"} /\ q \in RequestState
        /\ Honest(q, solved, wrong, page.open) /\ page.open \in BOOLEAN
    BY DEF AnswerMove, TypeOK, Honesty, Page
  <2>2. QED BY <2>1, Zenon DEF Honest, RequestState
<1>2. /\ q.entity.currBoard \subseteq Cell /\ q.entity.health \in Int /\ wrong \in Nat
      /\ reported \in [win : Nat, lose : Nat] /\ quits \in Nat /\ loads \in Nat
      /\ solved \subseteq Cell
  BY <1>1 DEF Room, TypeOK
<1>3. UNCHANGED <<solved, wrong, quits, loads>> /\ Quitting' \subseteq Quitting
  <2>1. \A x \in Request : Quits(req'[x]) => Quits(req[x])
    BY QuitsOthers DEF AnswerMove, TypeOK
  <2>2. QED BY <2>1 DEF AnswerMove, Quitting, history
<1>4. /\ Cardinality(Quitting) \in Nat /\ Cardinality(Quitting') \in Nat
      /\ Cardinality(Quitting') <= Cardinality(Quitting)
  BY <1>3, QuittingSize
<1>5. Unreported = IF page.result = "none" THEN 1 ELSE 0
  BY <1>1 DEF Unreported, Playing
<1>6. CASE /\ q.kind = "right" /\ IsWin(q.entity.currBoard)
           /\ page'.result = "win"
           /\ reported' = IF page.result # "none" THEN reported ELSE [reported EXCEPT !.win = @ + 1]
  <2>1. solved = Cell
    BY <1>1, <1>2, <1>6 DEF IsWin, Backed
  <2>2. /\ reported'.lose = reported.lose
        /\ reported'.win = reported.win + Unreported
    BY <1>2, <1>5, <1>6
  <2>3. Unreported' = 0
    BY <1>6 DEF Unreported, Playing
  <2>4. wrong' >= Lives \/ reported'.lose + Cardinality(Quitting') <= quits'
    BY <1>2, <1>3, <1>4, <2>2 DEF Ledger
  <2>5. reported'.win + reported'.lose + Cardinality(Quitting') + Unreported' <= quits' + loads' + 1
    BY <1>2, <1>3, <1>4, <1>5, <2>2, <2>3 DEF Ledger
  <2>6. QED BY <1>3, <1>6, <2>1, <2>4, <2>5 DEF Ledger
<1>7. CASE /\ q.kind = "wrong" /\ q.entity.health <= 0
           /\ page'.result = "lose"
           /\ reported' = IF page.result # "none" THEN reported ELSE [reported EXCEPT !.lose = @ + 1]
  <2>1. wrong >= Lives
    BY <1>1, <1>2, <1>7, GameAssumption DEF Backed
  <2>2. /\ reported'.win = reported.win
        /\ reported'.lose = reported.lose + Unreported
    BY <1>2, <1>5, <1>7
  <2>3. Unreported' = 0
    BY <1>7 DEF Unreported, Playing
  <2>4. reported'.win + reported'.lose + Cardinality(Quitting') + Unreported' <= quits' + loads' + 1
    BY <1>2, <1>3, <1>4, <1>5, <2>2, <2>3 DEF Ledger
  <2>5. reported'.win > 0 => solved' = Cell
    BY <1>3, <2>2 DEF Ledger
  <2>6. QED BY <1>3, <1>7, <2>1, <2>4, <2>5 DEF Ledger
<1>8. QED BY <1>6, <1>7, PageStays

\* Every step keeps the account of the results.
LEMMA LedgerStep == TypeOK /\ TypeOK' /\ Honesty /\ Ledger /\ [Next]_vars => Ledger'
<1> SUFFICES ASSUME TypeOK, TypeOK', Honesty, Ledger, [Next]_vars PROVE Ledger'
  OBVIOUS
<1> USE DEF history
<1>wrong. wrong \in Nat /\ page \in Page
  BY DEF TypeOK
<1>sub. ASSUME \A x \in Request : Quits(req'[x]) => Quits(req[x])
        PROVE  Quitting' \subseteq Quitting
  BY <1>sub DEF Quitting
<1>others. \A r, x \in Request :
             /\ Quits([req EXCEPT ![r] = Idle][x]) => Quits(req[x])
             /\ \A kinds : Quits(Unheard(kinds)[x]) => Quits(req[x])
             /\ \A kinds : Quits([Unheard(kinds) EXCEPT ![r] = Idle][x]) => Quits(req[x]) /\ x # r
  BY QuitsOthers DEF TypeOK, Unheard
<1>quiet. ASSUME UNCHANGED <<reported, quits, loads, solved, wrong>>,
                 \A x \in Request : Quits(req'[x]) => Quits(req[x]),
                 page'.result \in {page.result, "none"}, Playing' => Playing
          PROVE  Ledger'
  BY <1>quiet, <1>sub, <1>wrong, LedgerQuiet
<1>send. ASSUME NEW r \in Request, NEW kind, NEW cells, NEW entity, kind # "abandon",
                Send(r, Found(kind, cells, entity))
         PROVE  \A x \in Request : Quits(req'[x]) => Quits(req[x])
  BY <1>send, QuitsOthers DEF Send, TypeOK
<1>1. ASSUME NEW r \in Request, NEW c \in Cell, TypeRight(r, c) PROVE Ledger'
  BY <1>1, <1>send, <1>quiet DEF TypeRight, Playing
<1>2. ASSUME NEW r \in Request, TypeWrong(r) PROVE Ledger'
  BY <1>2, <1>send, <1>quiet DEF TypeWrong, Playing
<1>3. ASSUME NEW r \in Request, NEW c \in Cell, AskHint(r, c) PROVE Ledger'
  <2>1. ~Quits([Idle EXCEPT !.pc = "asking", !.cells = {c}, !.heard = TRUE])
    BY DEF Quits, Idle
  <2>2. \A x \in Request : Quits(req'[x]) => Quits(req[x])
    BY <1>3, <2>1 DEF AskHint, TypeOK
  <2>3. QED BY <1>3, <2>2, <1>quiet DEF AskHint, Playing
<1>4. ASSUME NEW r \in Request, ApplyHint(r) PROVE Ledger'
  <2>1. PICK c \in page.hint :
          /\ page' = [page EXCEPT !.holes = @ \ {c}, !.fixed = @ \ {c}, !.hint = {}]
          /\ Send(r, Found("apply", {c}, AfterRight(row, c)))
          /\ UNCHANGED <<row, reported, quits, loads, history>>
    BY <1>4 DEF ApplyHint
  <2>2. page'.open = page.open /\ page'.result = page.result
    BY <2>1, <1>wrong DEF Page
  <2>3. QED BY <2>1, <2>2, <1>send, <1>quiet DEF Playing
<1>5. ASSUME NEW r \in Request, ConfirmExit(r) PROVE Ledger'
  <2>1. CASE row = NoRow
    <3>1. /\ ReportExit(Unheard(Moves)) /\ quits' = quits + 1
          /\ UNCHANGED <<solved, wrong, loads>>
      BY <1>5, <2>1 DEF ConfirmExit
    <3>2. Quitting' \subseteq Quitting
      BY <3>1, <1>others, <1>sub DEF ReportExit
    <3>3. QED BY <3>1, <3>2, LedgerExit
  <2>2. CASE row # NoRow
    <3>1. /\ req' = [req EXCEPT ![r] = Found("abandon", {}, Abandoned(row))]
          /\ page' = [page EXCEPT !.exit = FALSE]
          /\ reported' = reported /\ quits' = quits + 1 /\ loads' = loads
          /\ solved' = solved /\ wrong' = wrong
      BY <1>5, <2>2, Zenon DEF ConfirmExit
    <3>2. page'.open = page.open /\ page'.result = page.result
      BY <3>1, <1>wrong DEF Page
    <3>3. Quits(req'[r]) /\ \A x \in Request : x # r => req'[x] = req[x]
      BY <3>1 DEF TypeOK, Quits, Found
    <3>4. Quitting' = Quitting \union {r}
      BY <3>3 DEF Quitting
    <3>5. /\ Cardinality(Quitting) \in Nat /\ Cardinality(Quitting') \in Nat
          /\ Cardinality(Quitting') <= Cardinality(Quitting) + 1
      BY <3>4, QuittingSize
    <3>6. Unreported' = Unreported /\ Unreported \in {0, 1}
      BY <3>2 DEF Unreported, Playing
    <3>7. reported.win \in Nat /\ reported.lose \in Nat /\ quits \in Nat /\ loads \in Nat
      BY DEF TypeOK
    <3>8. wrong' >= Lives \/ reported'.lose + Cardinality(Quitting') <= quits'
      BY <3>1, <3>5, <3>7 DEF Ledger
    <3>9. reported'.win + reported'.lose + Cardinality(Quitting') + Unreported' <= quits' + loads' + 1
      BY <3>1, <3>5, <3>6, <3>7 DEF Ledger
    <3>10. QED BY <3>1, <3>2, <3>8, <3>9 DEF Ledger
  <2>3. QED BY <2>1, <2>2
<1>6. ASSUME NEW r \in Request, SaveSelect(r) PROVE Ledger'
  <2>1. \A x \in Request : Quits(req'[x]) => Quits(req[x])
    BY <1>6 DEF SaveSelect, Quits, TypeOK, RequestState
  <2>2. QED BY <1>6, <2>1, <1>quiet DEF SaveSelect, Playing
<1>saved. ASSUME NEW r \in Request, NEW newRow, Saved(r, newRow), req[r].pc # "idle" PROVE Ledger'
  <2> DEFINE done == [req[r] EXCEPT !.pc = "answered", !.cols = {}, !.overtaken = FALSE]
  <2>1. req[r].heard /\ Quits(done) => Quits(req[r])
    BY <1>saved DEF Quits, TypeOK, RequestState
  <2>2. req' = [Overtaken(newRow) EXCEPT ![r] = IF req[r].heard THEN done ELSE Idle]
    BY <1>saved DEF Saved
  <2> HIDE DEF done
  <2>3. \A x \in Request : Quits(req'[x]) => Quits(req[x])
    BY <2>1, <2>2, QuitsOthers DEF Overtaken
  <2>4. solved \subseteq solved' /\ wrong <= wrong' /\ UNCHANGED <<page, reported, quits, loads>>
    BY <1>saved, <1>wrong DEF Saved
  <2>5. QED BY <2>3, <2>4, <1>sub, LedgerQuiet DEF Playing
<1>7. ASSUME NEW r \in Request, SaveUpdate(r) PROVE Ledger'
  BY <1>7, <1>saved DEF SaveUpdate
<1>8. ASSUME NEW r \in Request, SaveInsert(r) PROVE Ledger'
  BY <1>8, <1>saved DEF SaveInsert
<1>9. ASSUME NEW r \in Request, ShowHint(r) PROVE Ledger'
  <2>1. page'.open = page.open /\ page'.result = page.result
    BY <1>9, <1>wrong DEF ShowHint, Page
  <2>2. \A x \in Request : Quits(req'[x]) => Quits(req[x])
    BY <1>9, QuitsOthers DEF ShowHint, TypeOK
  <2>3. QED BY <1>9, <2>1, <2>2, <1>quiet DEF ShowHint, Playing
<1>10. ASSUME NEW r \in Request, AnswerMove(r) PROVE Ledger'
  <2>1. CASE page'.result # page.result \/ reported' # reported
    BY <1>10, <2>1, LedgerAnswer
  <2>2. CASE page'.result = page.result /\ reported' = reported
    <3>1. page'.open = page.open
      BY <1>10, PageStays
    <3>2. QED BY <1>10, <2>2, <3>1, <1>others, <1>quiet DEF AnswerMove, Playing
  <2>3. QED BY <2>1, <2>2
<1>11. ASSUME NEW r \in Request, MissHint(r) PROVE Ledger'
  BY <1>11, <1>others, <1>quiet DEF MissHint, Playing
<1>exit. ASSUME NEW r \in Request, Quits(req[r]), ReportExit([Unheard(Moves) EXCEPT ![r] = Idle]),
                UNCHANGED <<quits, loads, solved, wrong>>
         PROVE  Ledger'
  <2>1. r \in Quitting /\ Quitting' \subseteq Quitting \ {r}
    BY <1>exit, <1>others DEF Quitting, ReportExit
  <2>2. QED BY <1>exit, <2>1, LedgerExit
<1>12. ASSUME NEW r \in Request, AnswerExit(r) PROVE Ledger'
  <2>1. Quits(req[r])
    BY <1>12, Zenon DEF AnswerExit, Quits, Honesty, Honest
  <2>2. QED BY <1>12, <2>1, <1>exit DEF AnswerExit
<1>13. ASSUME NEW r \in Request, Lose(r) PROVE Ledger'
  <2>1. UNCHANGED <<quits, loads, solved, wrong>> /\ req[r].pc # "idle"
    BY <1>13 DEF Lose
  <2>2. CASE req[r].kind = "abandon" /\ req[r].heard
    <3>1. ReportExit([Unheard(Moves) EXCEPT ![r] = Idle])
      BY <1>13, <2>2, Zenon DEF Lose
    <3>2. QED BY <2>1, <2>2, <3>1, <1>exit DEF Quits
  <2>3. CASE ~(req[r].kind = "abandon" /\ req[r].heard)
    <3>1. req' = [req EXCEPT ![r] = Idle] /\ UNCHANGED <<page, reported>>
      BY <1>13, <2>3 DEF Lose
    <3>2. QED BY <2>1, <3>1, <1>others, <1>quiet DEF Playing
  <2>4. QED BY <2>2, <2>3
<1>14. ASSUME NEW c \in Cell, Erase(c) PROVE Ledger'
  <2>1. page'.open = page.open /\ page'.result = page.result
    BY <1>14, <1>wrong DEF Erase, Page
  <2>2. QED BY <1>14, <2>1, <1>quiet DEF Erase, Playing
<1>15. CASE StartOther
  BY <1>15, QuitsOthers, <1>quiet DEF StartOther, Playing
<1>16. CASE Back
  <2>1. UNCHANGED <<reported, quits, loads, solved, wrong>>
    BY <1>16 DEF Back
  <2>2. CASE Playing
    <3>1. page'.open = page.open /\ page'.result = page.result /\ req' = req
      BY <1>16, <2>2, <1>wrong DEF Back, Page
    <3>2. QED BY <2>1, <3>1, <1>quiet DEF Playing
  <2>3. CASE ~Playing
    <3>1. page' = Gone /\ req' = Unheard(Moves)
      BY <1>16, <2>3 DEF Back
    <3>2. page'.result = "none" /\ ~Playing'
      BY <3>1 DEF Playing, Gone, Loaded, NewRoom
    <3>3. QED BY <2>1, <3>1, <3>2, <1>others, <1>quiet
  <2>4. QED BY <2>2, <2>3
<1>17. CASE CancelExit
  <2>1. page'.open = page.open /\ page'.result = page.result
    BY <1>17, <1>wrong DEF CancelExit, Page
  <2>2. QED BY <1>17, <2>1, <1>quiet DEF CancelExit, Playing
<1>18. CASE Load
  <2>1. UNCHANGED <<row, solved, wrong, quits, reported>> /\ loads' = loads + 1
    BY <1>18 DEF Load
  <2>2. Quitting' \subseteq Quitting
    BY <1>18, <1>others, <1>sub DEF Load
  <2>3. page'.result = "none"
    <3>1. /\ \A state : Loaded(state).result = "none"
          /\ [Loaded(NewRoom) EXCEPT !.holes = Cell, !.fixed = {}].result = "none"
      BY DEF Loaded
    <3>2. QED BY <1>18, <3>1 DEF Load
  <2>4. /\ Cardinality(Quitting) \in Nat /\ Cardinality(Quitting') \in Nat
        /\ Cardinality(Quitting') <= Cardinality(Quitting)
    BY <2>2, QuittingSize
  <2>5. Unreported \in {0, 1} /\ Unreported' \in {0, 1}
    BY DEF Unreported
  <2>6. reported.win \in Nat /\ reported.lose \in Nat /\ quits \in Nat /\ loads \in Nat
    BY DEF TypeOK
  <2>7. wrong' >= Lives \/ reported'.lose + Cardinality(Quitting') <= quits'
    BY <2>1, <2>4, <2>6 DEF Ledger
  <2>8. reported'.win + reported'.lose + Cardinality(Quitting') + Unreported' <= quits' + loads' + 1
    BY <2>1, <2>4, <2>5, <2>6 DEF Ledger
  <2>9. QED BY <2>1, <2>3, <2>7, <2>8 DEF Ledger
<1>19. CASE UNCHANGED vars
  BY <1>19, <1>quiet DEF vars, Playing
<1>20. QED
  BY <1>1, <1>2, <1>3, <1>4, <1>5, <1>6, <1>7, <1>8, <1>9, <1>10, <1>11, <1>12, <1>13, <1>14,
     <1>15, <1>16, <1>17, <1>18, <1>19 DEF Next, Serve, Answer

\* The account and the explanations imply that the results are earned.
LEMMA LedgerEarned == TypeOK /\ Ledger => ResultIsEarned
<1> SUFFICES ASSUME TypeOK, Ledger PROVE ResultIsEarned
  OBVIOUS
<1>1. Cardinality(Quitting) \in Nat
  BY QuittingSize
<1>2. /\ reported.win \in Nat /\ reported.lose \in Nat /\ quits \in Nat /\ loads \in Nat
      /\ wrong \in Nat /\ Unreported \in {0, 1}
  BY DEF TypeOK, Unreported
<1>3. page.result = "lose" \/ reported.lose > quits => wrong >= Lives
  BY <1>1, <1>2, GameAssumption DEF Ledger
<1>4. reported.win + reported.lose <= quits + loads + 1
  BY <1>1, <1>2 DEF Ledger
<1>5. QED BY <1>3, <1>4 DEF Ledger, ResultIsEarned

\* A result is shown and reported only of a game that earned it, and as often
\* as the page was loaded and the player gave up, whatever overlaps.
THEOREM ResultsAreEarned == Spec => []ResultIsEarned
<1>1. Init => TypeOK /\ Honesty /\ Ledger
  <2> SUFFICES ASSUME Init PROVE TypeOK /\ Honesty /\ Ledger
    OBVIOUS
  <2>1. TypeOK
    BY InitTypes
  <2>2. Honesty
    BY GameAssumption DEF Init, Honesty, Backed, Honest, Idle, NewRoom, Working
  <2>3. Quitting = {}
    BY DEF Init, Quitting, Quits, Idle
  <2>4. Cardinality(Quitting) = 0
    BY <2>3, FS_EmptySet
  <2>5. page.result = "none" /\ Unreported \in {0, 1}
    BY DEF Init, Loaded, Unreported
  <2>6. reported.win = 0 /\ reported.lose = 0 /\ quits = 0 /\ loads = 0
    BY DEF Init
  <2>7. QED BY <2>1, <2>2, <2>4, <2>5, <2>6 DEF Ledger
<1>2. TypeOK /\ Honesty /\ Ledger /\ [Next]_vars => (TypeOK /\ Honesty /\ Ledger)'
  BY TypeStep, HonestyStep, LedgerStep
<1>3. QED BY <1>1, <1>2, LedgerEarned, PTL DEF Spec

-----------------------------------------------------------------------------
(* CleanRecord.  A request that was not overtaken holds the answer of its  *)
(* handler to the row as it is now, so its UPDATE makes the row exactly    *)
(* this answer; and a game that was deleted comes back only by a save that *)
(* the deletion has overtaken.                                             *)

\* q.entity is the answer of q's handler to the row room.
Answers(q, room) ==
  \/ /\ q.kind \in {"right", "apply"}
     /\ \E c \in Cell : q.cells = {c} /\ q.entity = AfterRight(room, c)
  \/ q.kind = "wrong" /\ q.entity = AfterWrong(room)
  \/ q.kind = "hint" /\ q.entity = AfterHint(room)
  \/ q.kind = "abandon" /\ q.entity = Abandoned(room)

Current(q, room) ==
  q.pc \in Working /\ ~q.overtaken =>
    /\ room # NoRow /\ q.pc # "inserting"
    /\ Answers(q, room)
    /\ q.pc = "updating" => q.cols = Changed(q.entity, room)

Exact(room, s, w, h, d) ==
  /\ room.currBoard = Cell \ s /\ room.health = Lives - w /\ room.hintsUsed = h
  /\ room.status = "finished" <=> s = Cell \/ w >= Lives \/ d

CurrentInv == \A r \in Request : Current(req[r], row)

\* An UPDATE of all the columns that differ writes the entity.
LEMMA UpdatedAll ==
  ASSUME NEW room \in Room, NEW entity \in Room
  PROVE  Updated(room, entity, Changed(entity, room)) = entity
  BY DEF Updated, Changed, Room

\* An exact row that is answered becomes the exact row of one more save.
LEMMA AnswerIsExact ==
  ASSUME NEW room \in Room, NEW q \in RequestState, Answers(q, room),
         NEW s \in SUBSET Cell, NEW w \in Nat, NEW h \in Nat, NEW d \in BOOLEAN,
         Exact(room, s, w, h, d)
  PROVE  Exact(q.entity, s \union NewCells(q), w + NewWrong(q),
               IF q.kind = "hint" THEN h + 1 ELSE h, d \/ q.kind = "abandon")
<1>1. CASE q.kind \in {"right", "apply"}
  <2>1. PICK c \in Cell : q.cells = {c} /\ q.entity = AfterRight(room, c)
    BY <1>1 DEF Answers
  <2>2. /\ q.entity.currBoard = room.currBoard \ {c} /\ q.entity.health = room.health
        /\ q.entity.hintsUsed = room.hintsUsed
        /\ q.entity.status = IF room.currBoard \ {c} = {} THEN "finished" ELSE room.status
    BY <2>1 DEF AfterRight, IsWin, Room
  <2>3. NewCells(q) = {c} /\ NewWrong(q) = 0
    BY <1>1, <2>1 DEF NewCells, NewWrong
  <2>4. Cell \ (s \union {c}) = {} <=> s \union {c} = Cell
    OBVIOUS
  <2>5. /\ q.entity.currBoard = Cell \ (s \union {c}) /\ q.entity.health = Lives - w
        /\ q.entity.hintsUsed = h
        /\ q.entity.status = "finished" <=> s \union {c} = Cell \/ w >= Lives \/ d
    BY <2>2, <2>4 DEF Exact
  <2>6. QED BY <1>1, <2>3, <2>5 DEF Exact
<1>2. CASE q.kind = "wrong"
  <2>1. q.entity = AfterWrong(room)
    BY <1>2 DEF Answers
  <2>2. /\ q.entity.currBoard = room.currBoard /\ q.entity.health = room.health - 1
        /\ q.entity.hintsUsed = room.hintsUsed
        /\ q.entity.status = IF room.health - 1 = 0 THEN "finished" ELSE room.status
    BY <2>1 DEF AfterWrong, Room
  <2>3. NewCells(q) = {} /\ NewWrong(q) = 1
    BY <1>2 DEF NewCells, NewWrong
  <2>4. /\ q.entity.health = Lives - (w + 1)
        /\ q.entity.status = "finished" <=> s = Cell \/ w + 1 >= Lives \/ d
    BY <2>2, GameAssumption DEF Exact
  <2>5. QED BY <1>2, <2>2, <2>3, <2>4 DEF Exact
<1>3. CASE q.kind \in {"hint", "abandon"}
  <2>1. /\ q.entity.currBoard = room.currBoard /\ q.entity.health = room.health
        /\ q.entity.hintsUsed = IF q.kind = "hint" THEN room.hintsUsed + 1 ELSE room.hintsUsed
        /\ q.entity.status = IF q.kind = "hint" THEN room.status ELSE "finished"
    BY <1>3 DEF Answers, AfterHint, Abandoned, Room
  <2>2. NewCells(q) = {} /\ NewWrong(q) = 0
    BY <1>3 DEF NewCells, NewWrong
  <2>3. QED BY <1>3, <2>1, <2>2 DEF Exact
<1>4. QED BY <1>1, <1>2, <1>3 DEF Answers

\* The handlers answer the row that they have found.
LEMMA FoundIsCurrent ==
  ASSUME row # NoRow
  PROVE  /\ \A c \in Cell : /\ Current(Found("right", {c}, AfterRight(row, c)), row)
                            /\ Current(Found("apply", {c}, AfterRight(row, c)), row)
         /\ Current(Found("wrong", {}, AfterWrong(row)), row)
         /\ Current(Found("hint", {}, AfterHint(row)), row)
         /\ Current(Found("abandon", {}, Abandoned(row)), row)
  BY DEF Current, Found, Answers

\* Nothing is expected of an idle slot, nor of a request that was overtaken.
LEMMA CurrentOthers ==
  ASSUME TypeOK, NEW x \in Request, Current(req[x], row)
  PROVE  /\ \A room : Current(Idle, room)
         /\ \A newRow : Current(Overtaken(newRow)[x], newRow)
         /\ \A kinds : Current(Unheard(kinds)[x], row)
<1>1. \A room : Current(Idle, room)
  BY DEF Current, Idle, Working
<1>2. ASSUME NEW newRow PROVE Current(Overtaken(newRow)[x], newRow)
  <2> DEFINE q == Overtaken(newRow)[x]
  <2>1. CASE req[x].pc \notin Working
    BY <2>1 DEF Overtaken, Current, Working
  <2>2. CASE req[x].pc \in Working /\ newRow # row
    <3>1. q.overtaken = TRUE
      BY <2>2 DEF Overtaken, Working, TypeOK, RequestState
    <3>2. QED BY <3>1 DEF Current
  <2>3. CASE req[x].pc \in Working /\ newRow = row
    <3>1. q = req[x]
      BY <2>3 DEF Overtaken, Working, TypeOK, RequestState
    <3>2. QED BY <2>3, <3>1
  <2>4. QED BY <2>1, <2>2, <2>3
<1>3. ASSUME NEW kinds PROVE Current(Unheard(kinds)[x], row)
  <2> DEFINE q == Unheard(kinds)[x]
  <2>1. CASE req[x].kind \notin kinds
    BY <2>1 DEF Unheard
  <2>2. CASE req[x].kind \in kinds /\ req[x].pc \in {"asking", "answered"}
    BY <2>2, <1>1 DEF Unheard
  <2>3. CASE req[x].kind \in kinds /\ req[x].pc \notin {"asking", "answered"}
    <3>1. /\ q.pc = req[x].pc /\ q.kind = req[x].kind /\ q.cells = req[x].cells
          /\ q.entity = req[x].entity /\ q.cols = req[x].cols /\ q.overtaken = req[x].overtaken
      BY <2>3 DEF Unheard, TypeOK, RequestState
    <3>2. QED BY <3>1 DEF Current, Answers
  <2>4. QED BY <2>1, <2>2, <2>3
<1>4. QED BY <1>1, <1>2, <1>3

\* A save keeps the exact row exact, or was overtaken.
LEMMA SavedIsExact ==
  ASSUME TypeOK, TypeOK', CurrentInv, CleanRecord, NEW r \in Request, NEW newRow,
         Saved(r, newRow), req[r].pc \in Working,
         clean' /\ newRow # NoRow => row # NoRow /\ newRow = req[r].entity /\ Answers(req[r], row)
  PROVE  CurrentInv' /\ CleanRecord'
<1> DEFINE q == req[r]
<1>1. row' = newRow
  BY DEF Saved
<1>2. ASSUME NEW x \in Request PROVE Current(req'[x], row')
  <2>1. Current(Overtaken(newRow)[x], newRow) /\ Current(Idle, newRow)
    BY CurrentOthers DEF CurrentInv
  <2>2. Current([q EXCEPT !.pc = "answered", !.cols = {}, !.overtaken = FALSE], newRow)
    <3>1. [q EXCEPT !.pc = "answered", !.cols = {}, !.overtaken = FALSE].pc = "answered"
      BY DEF TypeOK, RequestState
    <3>2. QED BY <3>1 DEF Current, Working
  <2>3. QED BY <1>1, <2>1, <2>2 DEF Saved, Overtaken
<1>3. ASSUME clean', row' # NoRow PROVE Exact(row', solved', wrong', hinted', dropped')
  <2>1. row # NoRow /\ row' = q.entity /\ Answers(q, row) /\ clean
    BY <1>1, <1>3 DEF Saved
  <2>2. /\ row \in Room /\ q \in RequestState /\ solved \in SUBSET Cell /\ wrong \in Nat
        /\ hinted \in Nat /\ dropped \in BOOLEAN
    BY <2>1 DEF TypeOK
  <2>3. Exact(row, solved, wrong, hinted, dropped)
    BY <2>1 DEF CleanRecord, Exact
  <2>4. /\ solved' = solved \union NewCells(q) /\ wrong' = wrong + NewWrong(q)
        /\ hinted' = (IF q.kind = "hint" THEN hinted + 1 ELSE hinted)
        /\ dropped' = (dropped \/ q.kind = "abandon")
    BY <2>2 DEF Saved, NewCells, NewWrong
  <2>5. QED BY <2>1, <2>2, <2>3, <2>4, AnswerIsExact
<1>4. QED BY <1>2, <1>3 DEF CurrentInv, CleanRecord, Exact

\* Every step keeps the record exact until one is overtaken or lost.
LEMMA CleanStep == TypeOK /\ TypeOK' /\ CurrentInv /\ CleanRecord /\ [Next]_vars
                     => (CurrentInv /\ CleanRecord)'
<1> SUFFICES ASSUME TypeOK, TypeOK', CurrentInv, CleanRecord, [Next]_vars
             PROVE  (CurrentInv /\ CleanRecord)'
  OBVIOUS
<1> USE DEF history
<1>found. row # NoRow =>
            /\ \A c \in Cell : /\ Current(Found("right", {c}, AfterRight(row, c)), row)
                               /\ Current(Found("apply", {c}, AfterRight(row, c)), row)
            /\ Current(Found("wrong", {}, AfterWrong(row)), row)
            /\ Current(Found("hint", {}, AfterHint(row)), row)
            /\ Current(Found("abandon", {}, Abandoned(row)), row)
  BY FoundIsCurrent
<1>others. \A r, x \in Request : /\ Current(Idle, row)
                                 /\ Current([req EXCEPT ![r] = Idle][x], row)
                                 /\ \A kinds : Current(Unheard(kinds)[x], row)
                                 /\ \A kinds : Current([Unheard(kinds) EXCEPT ![r] = Idle][x], row)
  BY CurrentOthers DEF CurrentInv, TypeOK, Unheard
<1>quiet. ASSUME UNCHANGED <<row, solved, wrong, hinted, dropped>>, clean' => clean,
                 \A x \in Request : Current(req'[x], row)
          PROVE  (CurrentInv /\ CleanRecord)'
  BY <1>quiet DEF CurrentInv, CleanRecord
<1>send. ASSUME NEW r \in Request, NEW request, Send(r, request),
                row # NoRow => Current(request, row)
         PROVE  \A x \in Request : Current(req'[x], row)
  BY <1>send DEF Send, CurrentInv, TypeOK
<1>1. ASSUME NEW r \in Request, NEW c \in Cell, TypeRight(r, c) PROVE (CurrentInv /\ CleanRecord)'
  BY <1>1, <1>found, <1>send, <1>quiet DEF TypeRight
<1>2. ASSUME NEW r \in Request, TypeWrong(r) PROVE (CurrentInv /\ CleanRecord)'
  BY <1>2, <1>found, <1>send, <1>quiet DEF TypeWrong
<1>3. ASSUME NEW r \in Request, NEW c \in Cell, AskHint(r, c) PROVE (CurrentInv /\ CleanRecord)'
  <2>1. Current([Idle EXCEPT !.pc = "asking", !.cells = {c}, !.heard = TRUE], row)
    BY DEF Current, Idle, Working
  <2>2. \A x \in Request : Current(req'[x], row)
    BY <1>3, <2>1 DEF AskHint, CurrentInv, TypeOK
  <2>3. QED BY <1>3, <2>2, <1>quiet DEF AskHint
<1>4. ASSUME NEW r \in Request, ApplyHint(r) PROVE (CurrentInv /\ CleanRecord)'
  <2>1. PICK c \in page.hint :
          /\ Send(r, Found("apply", {c}, AfterRight(row, c)))
          /\ UNCHANGED <<row, reported, quits, loads, history>>
    BY <1>4 DEF ApplyHint
  <2>2. c \in Cell
    BY DEF TypeOK, Page
  <2>3. QED BY <2>1, <2>2, <1>found, <1>send, <1>quiet
<1>5. ASSUME NEW r \in Request, ConfirmExit(r) PROVE (CurrentInv /\ CleanRecord)'
  <2>1. CASE row = NoRow
    BY <1>5, <2>1, <1>others, <1>quiet DEF ConfirmExit, ReportExit
  <2>2. CASE row # NoRow
    <3>1. req' = [req EXCEPT ![r] = Found("abandon", {}, Abandoned(row))]
      BY <1>5, <2>2 DEF ConfirmExit
    <3>2. \A x \in Request : Current(req'[x], row)
      BY <2>2, <3>1, <1>found DEF CurrentInv, TypeOK
    <3>3. QED BY <1>5, <3>2, <1>quiet DEF ConfirmExit
  <2>3. QED BY <2>1, <2>2
<1>6. ASSUME NEW r \in Request, SaveSelect(r) PROVE (CurrentInv /\ CleanRecord)'
  <2> DEFINE q == req[r]
  <2>1. Current(q, row) /\ q.pc = "saving"
    BY <1>6 DEF CurrentInv, SaveSelect
  <2>2. /\ req'[r].pc = IF row = NoRow THEN "inserting" ELSE "updating"
        /\ req'[r].cols = IF row = NoRow THEN {} ELSE Changed(q.entity, row)
        /\ req'[r].kind = q.kind /\ req'[r].cells = q.cells /\ req'[r].entity = q.entity
        /\ req'[r].overtaken = q.overtaken
        /\ \A x \in Request : x # r => req'[x] = req[x]
    BY <1>6 DEF SaveSelect, TypeOK, RequestState
  <2>3. Current(req'[r], row)
    BY <2>1, <2>2 DEF Current, Answers, Working
  <2>4. \A x \in Request : Current(req'[x], row)
    BY <2>2, <2>3 DEF CurrentInv
  <2>5. QED BY <1>6, <2>4, <1>quiet DEF SaveSelect
<1>7. ASSUME NEW r \in Request, SaveUpdate(r) PROVE (CurrentInv /\ CleanRecord)'
  <2> DEFINE q == req[r]
             newRow == IF row = NoRow THEN NoRow ELSE Updated(row, q.entity, q.cols)
  <2>1. q.pc = "updating" /\ q.pc \in Working /\ Saved(r, newRow) /\ Current(q, row)
    BY <1>7 DEF SaveUpdate, Working, CurrentInv
  <2>2. ASSUME clean', newRow # NoRow
        PROVE  row # NoRow /\ newRow = q.entity /\ Answers(q, row)
    <3>1. ~q.overtaken /\ row # NoRow
      BY <2>1, <2>2 DEF Saved
    <3>2. Answers(q, row) /\ q.cols = Changed(q.entity, row)
      BY <2>1, <3>1 DEF Current
    <3>3. row \in Room /\ q.entity \in Room
      BY <3>1 DEF TypeOK, RequestState
    <3>4. QED BY <3>1, <3>2, <3>3, UpdatedAll
  <2> HIDE DEF newRow
  <2>3. QED BY <2>1, <2>2, SavedIsExact
<1>8. ASSUME NEW r \in Request, SaveInsert(r) PROVE (CurrentInv /\ CleanRecord)'
  <2>1. /\ req[r].pc = "inserting" /\ req[r].pc \in Working /\ Saved(r, req[r].entity)
        /\ Current(req[r], row)
    BY <1>8 DEF SaveInsert, Working, CurrentInv
  <2>2. ~clean'
    BY <2>1 DEF Saved, Current
  <2>3. QED BY <2>1, <2>2, SavedIsExact
<1>9. ASSUME NEW r \in Request, ShowHint(r) PROVE (CurrentInv /\ CleanRecord)'
  <2>1. \A x \in Request : Current(req'[x], row)
    BY <1>9, <1>found, <1>others DEF ShowHint, CurrentInv, TypeOK
  <2>2. QED BY <1>9, <2>1, <1>quiet DEF ShowHint
<1>10. ASSUME NEW r \in Request, AnswerMove(r) PROVE (CurrentInv /\ CleanRecord)'
  BY <1>10, <1>others, <1>quiet DEF AnswerMove
<1>11. ASSUME NEW r \in Request, MissHint(r) PROVE (CurrentInv /\ CleanRecord)'
  BY <1>11, <1>others, <1>quiet DEF MissHint
<1>12. ASSUME NEW r \in Request, AnswerExit(r) PROVE (CurrentInv /\ CleanRecord)'
  BY <1>12, <1>others, <1>quiet DEF AnswerExit, ReportExit
<1>13. ASSUME NEW r \in Request, Lose(r) PROVE (CurrentInv /\ CleanRecord)'
  <2>1. \/ req' = [Unheard(Moves) EXCEPT ![r] = Idle]
        \/ req' = [req EXCEPT ![r] = Idle]
    BY <1>13 DEF Lose, ReportExit
  <2>2. QED BY <1>13, <2>1, <1>others, <1>quiet DEF Lose
<1>14. ASSUME NEW c \in Cell, Erase(c) PROVE (CurrentInv /\ CleanRecord)'
  BY <1>14, <1>quiet DEF Erase, CurrentInv
<1>15. CASE StartOther
  <2>1. row' = NoRow /\ \A x \in Request : Current(req'[x], NoRow)
    BY <1>15, CurrentOthers DEF StartOther, CurrentInv
  <2>2. QED BY <2>1 DEF CurrentInv, CleanRecord
<1>16. CASE Back
  <2>1. req' = req \/ req' = Unheard(Moves)
    BY <1>16 DEF Back
  <2>2. \A x \in Request : Current(req'[x], row)
    BY <2>1, <1>others DEF CurrentInv
  <2>3. QED BY <1>16, <2>2, <1>quiet DEF Back
<1>17. CASE CancelExit
  BY <1>17, <1>quiet DEF CancelExit, CurrentInv
<1>18. CASE Load
  BY <1>18, <1>others, <1>quiet DEF Load
<1>19. CASE UNCHANGED vars
  BY <1>19, <1>quiet DEF vars, CurrentInv
<1>20. QED
  BY <1>1, <1>2, <1>3, <1>4, <1>5, <1>6, <1>7, <1>8, <1>9, <1>10, <1>11, <1>12, <1>13, <1>14,
     <1>15, <1>16, <1>17, <1>18, <1>19 DEF Next, Serve, Answer

\* Until a request is lost or overtaken the row is the exact record of the
\* moves, the hints and the abandonment of the game.
THEOREM RecordIsClean == Spec => []CleanRecord
<1>1. Init => TypeOK /\ CurrentInv /\ CleanRecord
  <2> SUFFICES ASSUME Init PROVE TypeOK /\ CurrentInv /\ CleanRecord
    OBVIOUS
  <2>1. TypeOK
    BY InitTypes
  <2>2. CurrentInv
    BY DEF Init, CurrentInv, Current, Idle, Working
  <2>3. CleanRecord
    BY GameAssumption DEF Init, CleanRecord, NewRoom
  <2>4. QED BY <2>1, <2>2, <2>3
<1>2. TypeOK /\ CurrentInv /\ CleanRecord /\ [Next]_vars => (TypeOK /\ CurrentInv /\ CleanRecord)'
  BY TypeStep, CleanStep
<1>3. QED BY <1>1, <1>2, PTL DEF Spec
-----------------------------------------------------------------------------
(* ShownIsSaved.  The lives that a page shows are those of a row or of an  *)
(* answer, both of which are explained by what was saved; a cell that it   *)
(* shows as filled was filled on the row that it has loaded, or by a right *)
(* move that was answered, or by a hint whose move is on its way.          *)

\* The move of a hint is never answered, and the answer to a right move comes
\* after its save.
Sound(q, s) ==
  /\ q.kind = "apply" => q.pc \in Working /\ ~q.heard
  /\ q.kind = "right" /\ q.pc = "answered" => q.cells \subseteq s

\* The cell was saved, or a request on its way fills it.
Covered(c) == c \in solved \/ \E r \in Request : req[r].kind = "apply" /\ c \in req[r].cells

ShownInv ==
  /\ page.lives >= Lives - wrong
  /\ \A r \in Request : Sound(req[r], solved)
  /\ clean /\ row # NoRow => \A c \in Cell \ page.holes : Covered(c)

LEMMA CoveredIsShown == Honesty /\ CleanRecord /\ ShownInv => ShownIsSaved
<1> SUFFICES ASSUME Honesty, CleanRecord, ShownInv, clean, row # NoRow
             PROVE  /\ Cell \ page.holes \subseteq solved \union Applying
                    /\ page.lives >= row.health
  BY DEF ShownIsSaved
<1>1. page.lives >= row.health
  BY DEF CleanRecord, ShownInv
<1>2. \A c \in Cell \ page.holes : c \in solved \union Applying
  BY DEF ShownInv, Covered, Applying
<1>3. QED BY <1>1, <1>2

\* An idle slot and the requests that are sent are sound; saves of others and
\* leaving the page leave a request sound.
LEMMA SoundOthers ==
  ASSUME TypeOK, NEW x \in Request, Sound(req[x], solved)
  PROVE  /\ \A s : Sound(Idle, s)
         /\ \A s, cells, entity, kind : Sound(Found(kind, cells, entity), s)
         /\ \A newRow, s : solved \subseteq s => Sound(Overtaken(newRow)[x], s)
         /\ \A kinds : Sound(Unheard(kinds)[x], solved)
<1>1. \A s : Sound(Idle, s)
  BY DEF Sound, Idle
<1>2. \A s, cells, entity, kind : Sound(Found(kind, cells, entity), s)
  BY DEF Sound, Found, Working
<1>3. ASSUME NEW newRow, NEW s, solved \subseteq s PROVE Sound(Overtaken(newRow)[x], s)
  <2> DEFINE q == Overtaken(newRow)[x]
  <2>1. /\ q.pc = req[x].pc /\ q.kind = req[x].kind /\ q.cells = req[x].cells
        /\ q.heard = req[x].heard
    BY DEF Overtaken, TypeOK, RequestState
  <2> HIDE DEF q
  <2>2. Sound(q, s)
    BY <1>3, <2>1 DEF Sound
  <2>3. QED BY <2>2 DEF q
<1>4. ASSUME NEW kinds PROVE Sound(Unheard(kinds)[x], solved)
  <2> DEFINE q == Unheard(kinds)[x]
  <2>1. \/ q = Idle
        \/ /\ q.pc = req[x].pc /\ q.kind = req[x].kind /\ q.cells = req[x].cells
           /\ q.heard = req[x].heard \/ ~q.heard
    BY DEF Unheard, TypeOK, RequestState
  <2> HIDE DEF q
  <2>2. Sound(q, solved)
    BY <1>1, <2>1 DEF Sound
  <2>3. QED BY <2>2 DEF q
<1>5. QED BY <1>1, <1>2, <1>3, <1>4

\* A cell stays covered if the hints that are applied stay on their way.
LEMMA StaysCovered ==
  ASSUME solved \subseteq solved',
         \A x \in Request : req[x].kind = "apply" =>
           \/ req'[x].kind = "apply" /\ req'[x].cells = req[x].cells
           \/ req[x].cells \subseteq solved'
  PROVE  \A c : Covered(c) => Covered(c)'
BY DEF Covered

\* The requests of a page that is left: the move of a hint goes on.
LEMMA ApplyGoesOn ==
  ASSUME TypeOK, NEW x \in Request, Sound(req[x], solved), req[x].kind = "apply"
  PROVE  /\ \A newRow : Overtaken(newRow)[x].kind = "apply" /\ Overtaken(newRow)[x].cells = req[x].cells
         /\ \A kinds : Unheard(kinds)[x].kind = "apply" /\ Unheard(kinds)[x].cells = req[x].cells
<1>1. req[x].pc \in Working /\ req[x] \in RequestState
  BY DEF Sound, TypeOK
<1>2. \A newRow : Overtaken(newRow)[x].kind = "apply" /\ Overtaken(newRow)[x].cells = req[x].cells
  BY <1>1 DEF Overtaken, RequestState
<1>3. \A kinds : Unheard(kinds)[x].kind = "apply" /\ Unheard(kinds)[x].cells = req[x].cells
  BY <1>1 DEF Unheard, RequestState, Working
<1>4. QED BY <1>2, <1>3

\* What a save leaves: its move is in solved, and a game comes back only by one
\* that was overtaken.
LEMMA SavedIsShown ==
  ASSUME TypeOK, ShownInv, NEW r \in Request, NEW newRow, Saved(r, newRow), req[r].pc \in Working,
         clean' /\ newRow # NoRow => row # NoRow
  PROVE  ShownInv'
<1> DEFINE q == req[r]
<1>1. page' = page /\ row' = newRow /\ (clean' => clean)
  BY DEF Saved
<1>2. solved' = solved \union NewCells(q) /\ wrong' = wrong + NewWrong(q)
  BY DEF Saved, NewCells, NewWrong, TypeOK
<1>3. page'.lives >= Lives - wrong'
  <2>1. page.lives \in Int /\ wrong \in Nat /\ NewWrong(q) \in Nat
    BY DEF TypeOK, Page, NewWrong
  <2>2. QED BY <1>1, <1>2, <2>1, GameAssumption DEF ShownInv
<1>4. ASSUME NEW x \in Request PROVE Sound(req'[x], solved')
  <2>1. Sound(Overtaken(newRow)[x], solved') /\ Sound(Idle, solved')
    BY <1>2, SoundOthers DEF ShownInv
  <2>2. CASE x # r \/ ~q.heard
    <3>1. req'[x] \in {Overtaken(newRow)[x], Idle}
      BY <2>2 DEF Saved, Overtaken
    <3>2. QED BY <2>1, <3>1
  <2>3. CASE x = r /\ q.heard
    <3>1. req'[r] = [q EXCEPT !.pc = "answered", !.cols = {}, !.overtaken = FALSE]
      BY <2>3 DEF Saved, Overtaken
    <3>2. req'[r].kind = q.kind /\ req'[r].cells = q.cells
      BY <3>1 DEF TypeOK, RequestState
    <3>3. q.kind # "apply"
      BY <2>3 DEF ShownInv, Sound
    <3>4. QED BY <1>2, <2>3, <3>2, <3>3 DEF Sound, NewCells
  <2>4. QED BY <2>2, <2>3
<1>5. ASSUME clean', row' # NoRow, NEW c \in Cell \ page'.holes PROVE Covered(c)'
  <2>1. Covered(c)
    BY <1>1, <1>5 DEF ShownInv
  <2>2. ASSUME NEW x \in Request, req[x].kind = "apply"
        PROVE  \/ req'[x].kind = "apply" /\ req'[x].cells = req[x].cells
               \/ req[x].cells \subseteq solved'
    <3>1. CASE x = r
      BY <1>2, <2>2, <3>1 DEF NewCells
    <3>2. CASE x # r
      <4>1. req'[x] = Overtaken(newRow)[x]
        BY <3>2 DEF Saved, Overtaken
      <4>2. QED BY <2>2, <4>1, ApplyGoesOn DEF ShownInv
    <3>3. QED BY <3>1, <3>2
  <2>3. QED BY <1>2, <2>1, <2>2, StaysCovered
<1>6. QED BY <1>3, <1>4, <1>5 DEF ShownInv

\* The pages that are shown anew: what they show as filled is filled on the row.
LEMMA LoadedIsShown ==
  ASSUME TypeOK, Honesty
  PROVE  /\ Gone.holes = Cell /\ Gone.lives >= Lives - wrong
         /\ LET blank == [Loaded(NewRoom) EXCEPT !.holes = Cell, !.fixed = {}]
            IN  blank.holes = Cell /\ blank.lives >= Lives - wrong
         /\ row # NoRow => /\ Cell \ Loaded(row).holes \subseteq solved
                           /\ Loaded(row).lives >= Lives - wrong
<1>1. Gone.holes = Cell /\ Gone.lives = Lives
  BY DEF Gone, Loaded, NewRoom
<1>2. LET blank == [Loaded(NewRoom) EXCEPT !.holes = Cell, !.fixed = {}]
      IN  blank.holes = Cell /\ blank.lives = Lives
  BY DEF Loaded, NewRoom
<1>3. ASSUME row # NoRow
      PROVE  Cell \ Loaded(row).holes \subseteq solved /\ Loaded(row).lives >= Lives - wrong
  BY <1>3 DEF Loaded, Honesty, Backed
<1>4. QED BY <1>1, <1>2, <1>3, GameAssumption DEF TypeOK

\* Every step keeps what the page shows backed.
LEMMA ShownStep == TypeOK /\ Honesty /\ CurrentInv /\ ShownInv /\ [Next]_vars => ShownInv'
<1> SUFFICES ASSUME TypeOK, Honesty, CurrentInv, ShownInv, [Next]_vars PROVE ShownInv'
  OBVIOUS
<1> USE DEF history
<1> DEFINE Kept == \A x \in Request :
             /\ Sound(req'[x], solved)
             /\ req[x].kind = "apply" => req'[x].kind = "apply" /\ req'[x].cells = req[x].cells
<1>quiet. ASSUME UNCHANGED <<solved, wrong>>, clean' /\ row' # NoRow => clean /\ row # NoRow,
                 clean' => page.holes \subseteq page'.holes \/ page'.holes = Cell,
                 page'.lives >= Lives - wrong, Kept
          PROVE  ShownInv'
  <2>1. \A c : Covered(c) => Covered(c)'
    BY <1>quiet, StaysCovered
  <2>2. clean' /\ row' # NoRow => \A c \in Cell \ page'.holes : Covered(c)'
    BY <1>quiet, <2>1 DEF ShownInv
  <2>3. QED BY <1>quiet, <2>2 DEF ShownInv
<1>same. ASSUME UNCHANGED <<page, solved, wrong>>, clean' /\ row' # NoRow => clean /\ row # NoRow, Kept
         PROVE  ShownInv'
  BY <1>same, <1>quiet DEF ShownInv
<1>idle. \A s : Sound(Idle, s)
  BY DEF Sound, Idle
<1>req. req \in [Request -> RequestState] /\ (\A x \in Request : Sound(req[x], solved))
  BY DEF TypeOK, ShownInv
<1>send. ASSUME NEW r \in Request, NEW request, Send(r, request), row # NoRow => Sound(request, solved)
         PROVE  Kept
  <2>1. req[r].kind # "apply"
    BY <1>send, <1>req DEF Send, Sound, Working
  <2>2. QED BY <1>send, <1>req, <2>1 DEF Send
<1>found. \A kind, cells, entity : Sound(Found(kind, cells, entity), solved)
  BY DEF Sound, Found, Working
<1>clear. ASSUME NEW r \in Request, req[r].kind # "apply", NEW q, Sound(q, solved), req' = [req EXCEPT ![r] = q]
          PROVE  Kept
  BY <1>clear, <1>req
<1>left. ASSUME NEW r \in Request, NEW kinds, NEW requests,
                \/ requests = Unheard(kinds)
                \/ requests = [Unheard(kinds) EXCEPT ![r] = Idle] /\ req[r].kind # "apply",
                req' = requests
         PROVE  Kept
  <2>1. \A x \in Request : /\ Sound(Unheard(kinds)[x], solved)
                           /\ req[x].kind = "apply" => /\ Unheard(kinds)[x].kind = "apply"
                                                       /\ Unheard(kinds)[x].cells = req[x].cells
    BY <1>req, SoundOthers, ApplyGoesOn
  <2>2. QED BY <1>left, <2>1, <1>idle DEF Unheard
<1> HIDE DEF Kept
<1>loaded. /\ Gone.holes = Cell /\ Gone.lives >= Lives - wrong
           /\ LET blank == [Loaded(NewRoom) EXCEPT !.holes = Cell, !.fixed = {}]
              IN  blank.holes = Cell /\ blank.lives >= Lives - wrong
           /\ row # NoRow => /\ Cell \ Loaded(row).holes \subseteq solved
                             /\ Loaded(row).lives >= Lives - wrong
  BY LoadedIsShown
<1>1. ASSUME NEW r \in Request, NEW c \in Cell, TypeRight(r, c) PROVE ShownInv'
  BY <1>1, <1>found, <1>send, <1>same DEF TypeRight
<1>2. ASSUME NEW r \in Request, TypeWrong(r) PROVE ShownInv'
  BY <1>2, <1>found, <1>send, <1>same DEF TypeWrong
<1>3. ASSUME NEW r \in Request, NEW c \in Cell, AskHint(r, c) PROVE ShownInv'
  <2> DEFINE q == [Idle EXCEPT !.pc = "asking", !.cells = {c}, !.heard = TRUE]
  <2>1. Sound(q, solved) /\ req' = [req EXCEPT ![r] = q]
    BY <1>3 DEF AskHint, Sound, Idle
  <2>2. req[r].kind # "apply"
    BY <1>3, <1>req DEF AskHint, Sound, Working
  <2>3. QED BY <1>3, <2>1, <2>2, <1>clear, <1>same DEF AskHint
<1>4. ASSUME NEW r \in Request, ApplyHint(r) PROVE ShownInv'
  <2>1. PICK c \in page.hint :
          /\ page' = [page EXCEPT !.holes = @ \ {c}, !.fixed = @ \ {c}, !.hint = {}]
          /\ Send(r, Found("apply", {c}, AfterRight(row, c)))
          /\ UNCHANGED <<row, reported, quits, loads, history>>
    BY <1>4 DEF ApplyHint
  <2>2. Kept
    BY <2>1, <1>found, <1>send
  <2>3. page'.holes = page.holes \ {c} /\ page'.lives = page.lives
    BY <2>1 DEF TypeOK, Page
  <2>4. ASSUME clean', row' # NoRow, NEW d \in Cell \ page'.holes PROVE Covered(d)'
    <3>1. CASE d = c
      <4>1. req'[r].kind = "apply" /\ c \in req'[r].cells
        BY <2>1, <2>4, <1>req DEF Send, Found
      <4>2. QED BY <3>1, <4>1 DEF Covered
    <3>2. CASE d # c
      <4>1. Covered(d)
        BY <2>1, <2>3, <2>4, <3>2 DEF ShownInv
      <4>2. QED BY <2>1, <2>2, <4>1, StaysCovered DEF Kept
    <3>3. QED BY <3>1, <3>2
  <2>5. QED BY <2>1, <2>2, <2>3, <2>4 DEF ShownInv, Kept
<1>5. ASSUME NEW r \in Request, ConfirmExit(r) PROVE ShownInv'
  <2>1. req[r].kind # "apply"
    BY <1>5, <1>req DEF ConfirmExit, Sound, Working
  <2>2. CASE row = NoRow
    <3>1. req' = Unheard(Moves) /\ page' = Gone /\ UNCHANGED <<row, history>>
      BY <1>5, <2>2 DEF ConfirmExit, ReportExit
    <3>2. Kept
      BY <3>1, <1>left
    <3>3. QED BY <3>1, <3>2, <1>quiet, <1>loaded
  <2>3. CASE row # NoRow
    <3>1. /\ req' = [req EXCEPT ![r] = Found("abandon", {}, Abandoned(row))]
          /\ page' = [page EXCEPT !.exit = FALSE] /\ UNCHANGED <<row, history>>
      BY <1>5, <2>3 DEF ConfirmExit
    <3>2. page'.holes = page.holes /\ page'.lives = page.lives
      BY <3>1 DEF TypeOK, Page
    <3>3. Kept
      BY <2>1, <3>1, <1>found, <1>clear
    <3>4. QED BY <3>1, <3>2, <3>3, <1>quiet DEF ShownInv
  <2>4. QED BY <2>2, <2>3
<1>6. ASSUME NEW r \in Request, SaveSelect(r) PROVE ShownInv'
  <2>1. /\ req'[r].pc \in Working /\ req'[r].kind = req[r].kind /\ req'[r].cells = req[r].cells
        /\ req'[r].heard = req[r].heard
        /\ \A x \in Request : x # r => req'[x] = req[x]
    BY <1>6 DEF SaveSelect, TypeOK, RequestState, Working
  <2>2. Sound(req'[r], solved)
    BY <2>1, <1>req DEF Sound, Working
  <2>3. Kept
    BY <2>1, <2>2, <1>req DEF Kept
  <2>4. QED BY <1>6, <2>3, <1>same DEF SaveSelect
<1>7. ASSUME NEW r \in Request, SaveUpdate(r) PROVE ShownInv'
  <2> DEFINE newRow == IF row = NoRow THEN NoRow ELSE Updated(row, req[r].entity, req[r].cols)
  <2>1. req[r].pc \in Working /\ Saved(r, newRow) /\ (newRow # NoRow => row # NoRow)
    BY <1>7 DEF SaveUpdate, Working
  <2> HIDE DEF newRow
  <2>2. QED BY <2>1, SavedIsShown
<1>8. ASSUME NEW r \in Request, SaveInsert(r) PROVE ShownInv'
  <2>1. req[r].pc = "inserting" /\ req[r].pc \in Working /\ Saved(r, req[r].entity)
    BY <1>8 DEF SaveInsert, Working
  <2>2. req[r].overtaken
    BY <2>1 DEF CurrentInv, Current
  <2>3. ~clean'
    BY <2>1, <2>2 DEF Saved
  <2>4. QED BY <2>1, <2>3, SavedIsShown
<1>9. ASSUME NEW r \in Request, ShowHint(r) PROVE ShownInv'
  <2>1. req[r].kind # "apply"
    BY <1>9, <1>req DEF ShowHint, Sound, Working
  <2>2. Kept
    BY <1>9, <2>1, <1>clear, <1>idle, <1>found DEF ShowHint
  <2>3. page'.holes = page.holes /\ page'.lives = page.lives
    BY <1>9 DEF ShowHint, TypeOK, Page
  <2>4. QED BY <1>9, <2>2, <2>3, <1>quiet DEF ShowHint, ShownInv
<1>10. ASSUME NEW r \in Request, AnswerMove(r) PROVE ShownInv'
  <2> DEFINE q == req[r]
             shown == IF q.kind = "right" THEN [page EXCEPT !.holes = @ \ q.cells]
                      ELSE [page EXCEPT !.lives = q.entity.health]
  <2>1. /\ q.pc = "answered" /\ q.kind \in {"right", "wrong"}
        /\ req' = [req EXCEPT ![r] = Idle] /\ UNCHANGED <<row, history>>
    BY <1>10 DEF AnswerMove
  <2>2. Kept
    BY <2>1, <1>clear, <1>idle
  <2>3. page' = shown \/ \E result : page' = [shown EXCEPT !.result = result]
    BY <1>10 DEF AnswerMove, Ends
  <2>4. page'.holes = shown.holes /\ page'.lives = shown.lives
    BY <2>3 DEF TypeOK, Page
  <2>5. /\ q.kind = "right" => page'.holes = page.holes \ q.cells /\ page'.lives = page.lives
        /\ q.kind = "wrong" => page'.holes = page.holes /\ page'.lives = q.entity.health
    BY <2>4 DEF TypeOK, Page
  <2>6. q.kind = "right" => q.cells \subseteq solved
    BY <2>1, <1>req DEF Sound
  <2>7. q.entity.health >= Lives - wrong
    BY <2>1 DEF Honesty, Honest, Backed
  <2>8. \A c : Covered(c) => Covered(c)'
    BY <2>1, <2>2, StaysCovered DEF Kept
  <2>9. ASSUME clean', row' # NoRow, NEW c \in Cell \ page'.holes PROVE Covered(c)'
    <3>1. Covered(c)
      BY <2>1, <2>5, <2>6, <2>9 DEF ShownInv, Covered
    <3>2. QED BY <2>8, <3>1
  <2>10. page'.lives >= Lives - wrong'
    BY <2>1, <2>5, <2>7 DEF ShownInv
  <2>11. QED BY <2>1, <2>2, <2>9, <2>10 DEF ShownInv, Kept
<1>11. ASSUME NEW r \in Request, MissHint(r) PROVE ShownInv'
  <2>1. req[r].kind # "apply"
    BY <1>11, <1>req DEF MissHint, Sound, Working
  <2>2. QED BY <1>11, <2>1, <1>clear, <1>idle, <1>same DEF MissHint
<1>12. ASSUME NEW r \in Request, AnswerExit(r) PROVE ShownInv'
  <2>1. /\ req' = [Unheard(Moves) EXCEPT ![r] = Idle] /\ req[r].kind # "apply"
        /\ page' = Gone /\ UNCHANGED <<row, history>>
    BY <1>12 DEF AnswerExit, ReportExit
  <2>2. Kept
    BY <2>1, <1>left
  <2>3. QED BY <2>1, <2>2, <1>quiet, <1>loaded
<1>13. ASSUME NEW r \in Request, Lose(r) PROVE ShownInv'
  <2>1. ~clean' /\ UNCHANGED <<row, solved, wrong>>
    BY <1>13 DEF Lose
  <2>2. page' = Gone \/ page' = page
    BY <1>13 DEF Lose, ReportExit
  <2>3. req' = [Unheard(Moves) EXCEPT ![r] = Idle] \/ req' = [req EXCEPT ![r] = Idle]
    BY <1>13 DEF Lose, ReportExit
  <2>4. \A x \in Request : Sound(Unheard(Moves)[x], solved)
    BY <1>req, SoundOthers
  <2>5. \A x \in Request : Sound(req'[x], solved)
    BY <2>3, <2>4, <1>req, <1>idle DEF Unheard
  <2>6. QED BY <2>1, <2>2, <2>5, <1>loaded DEF ShownInv
<1>14. ASSUME NEW c \in Cell, Erase(c) PROVE ShownInv'
  <2>1. page.holes \subseteq page'.holes /\ page'.lives = page.lives
    BY <1>14 DEF Erase, TypeOK, Page
  <2>2. Kept
    BY <1>14, <1>req DEF Erase, Kept
  <2>3. QED BY <1>14, <2>1, <2>2, <1>quiet DEF Erase, ShownInv
<1>15. CASE StartOther
  <2>1. row' = NoRow /\ req' = Overtaken(NoRow) /\ UNCHANGED <<page, solved, wrong>>
    BY <1>15 DEF StartOther
  <2>2. \A x \in Request : Sound(req'[x], solved)
    BY <2>1, <1>req, SoundOthers
  <2>3. QED BY <2>1, <2>2 DEF ShownInv
<1>16. CASE Back
  <2>1. CASE Playing
    <3>1. page'.holes = page.holes /\ page'.lives = page.lives /\ req' = req
      BY <1>16, <2>1 DEF Back, TypeOK, Page
    <3>2. Kept
      BY <3>1, <1>req DEF Kept
    <3>3. QED BY <1>16, <3>1, <3>2, <1>quiet DEF Back, ShownInv
  <2>2. CASE ~Playing
    <3>1. page' = Gone /\ req' = Unheard(Moves) /\ UNCHANGED <<row, history>>
      BY <1>16, <2>2 DEF Back
    <3>2. ASSUME NEW r \in Request PROVE Kept
      BY <3>1, <1>left
    <3>3. Kept
      BY <3>2 DEF Kept
    <3>4. QED BY <3>1, <3>3, <1>quiet, <1>loaded
  <2>3. QED BY <2>1, <2>2
<1>17. CASE CancelExit
  <2>1. page'.holes = page.holes /\ page'.lives = page.lives
    BY <1>17 DEF CancelExit, TypeOK, Page
  <2>2. Kept
    BY <1>17, <1>req DEF CancelExit, Kept
  <2>3. QED BY <1>17, <2>1, <2>2, <1>quiet DEF CancelExit, ShownInv
<1>18. CASE Load
  <2>1. /\ UNCHANGED <<row, history>>
        /\ \/ row # NoRow /\ page' = Loaded(row)
           \/ page' = [Loaded(NewRoom) EXCEPT !.holes = Cell, !.fixed = {}]
    BY <1>18 DEF Load
  <2>2. ASSUME NEW r \in Request PROVE Kept
    BY <1>18, <1>left DEF Load
  <2>3. Kept
    BY <2>2 DEF Kept
  <2>4. CASE row # NoRow /\ page' = Loaded(row)
    BY <2>1, <2>3, <2>4, <1>loaded DEF ShownInv, Kept, Covered
  <2>5. CASE page' = [Loaded(NewRoom) EXCEPT !.holes = Cell, !.fixed = {}]
    BY <2>1, <2>3, <2>5, <1>quiet, <1>loaded
  <2>6. QED BY <2>1, <2>4, <2>5
<1>19. CASE UNCHANGED vars
  <2>1. Kept
    BY <1>19, <1>req DEF vars, Kept
  <2>2. QED BY <1>19, <2>1, <1>same DEF vars
<1>20. QED
  BY <1>1, <1>2, <1>3, <1>4, <1>5, <1>6, <1>7, <1>8, <1>9, <1>10, <1>11, <1>12, <1>13, <1>14,
     <1>15, <1>16, <1>17, <1>18, <1>19 DEF Next, Serve, Answer

\* Until a request is lost or overtaken, a page is never ahead of the row: it
\* shows no cell as filled that was not saved or is not on its way to be, and no
\* life as lost that the row still has, in whatever order the answers arrive.
THEOREM ShownWasSaved == Spec => []ShownIsSaved
<1>1. Init => TypeOK /\ Honesty /\ CurrentInv /\ ShownInv
  <2> SUFFICES ASSUME Init PROVE TypeOK /\ Honesty /\ CurrentInv /\ ShownInv
    OBVIOUS
  <2>1. TypeOK
    BY InitTypes
  <2>2. Honesty
    BY GameAssumption DEF Init, Honesty, Honest, Backed, NewRoom, Idle, Working
  <2>3. CurrentInv
    BY DEF Init, CurrentInv, Current, Idle, Working
  <2>4. page.lives = Lives /\ page.holes = Cell
    BY DEF Init, Loaded, NewRoom
  <2>5. ShownInv
    BY <2>4, GameAssumption DEF Init, ShownInv, Sound, Idle
  <2>6. QED BY <2>1, <2>2, <2>3, <2>5
<1>2. TypeOK /\ Honesty /\ CurrentInv /\ CleanRecord /\ ShownInv /\ [Next]_vars
        => (TypeOK /\ Honesty /\ CurrentInv /\ ShownInv)'
  BY TypeStep, HonestyStep, CleanStep, ShownStep
<1>3. QED BY <1>1, <1>2, RecordIsClean, CoveredIsShown, PTL DEF Spec
=============================================================================
