------------------------------ MODULE RoomMatch ------------------------------
(***************************************************************************)
(* One online match: the Room row of a game being played, and the          *)
(* validate-move and surrender requests of combat_service that work on it. *)
(*                                                                         *)
(* Node runs the handlers on one thread, but each awaits PostgreSQL three  *)
(* times (findOne; the SELECT and the UPDATE inside save), and requests of *)
(* both players, or several of one player, interleave at every await.  A   *)
(* request holds in its entity the row as findOne read it, with the        *)
(* handler's changes.                                                      *)
(*                                                                         *)
(* Data is abstracted to what the outcome depends on: solvedBoard never    *)
(* changes and only its values are ever written to currBoard, so currBoard *)
(* is the set of cells that are still 0, and the value of a move is right  *)
(* or wrong.                                                               *)
(***************************************************************************)
EXTENDS Integers, RoomRow

CONSTANTS
  Cell,       \* the cells that are 0 on the board of a new room
  Request,    \* the requests that can be in flight at the same time
  Lives,      \* the health a player starts with ([3, 3] in startOnline)
  MaxMoves,   \* bound: moves a player sends in one match
  NoWinner    \* the null of the winner column

ASSUME LivesAssumption == Lives \in Nat \ {0}
ASSUME MaxMovesAssumption == MaxMoves \in Nat
ASSUME NoWinnerAssumption == NoWinner \notin {"owner", "guest"}

Role == {"owner", "guest"}
Other(p) == IF p = "owner" THEN "guest" ELSE "owner"

Room == [currBoard : SUBSET Cell, health : [Role -> Int],
         ownerMoves : Nat, guestMoves : Nat,
         status : {"playing", "finished"}, winner : Role \union {NoWinner}]

NewRoom == [currBoard |-> Cell, health |-> [p \in Role |-> Lives],
            ownerMoves |-> 0, guestMoves |-> 0,
            status |-> "playing", winner |-> NoWinner]

Moves(room, p) == IF p = "owner" THEN room.ownerMoves ELSE room.guestMoves

VARIABLES
  row,      \* the room's row in PostgreSQL
  req,      \* the requests in flight
  valid,    \* history: committed moves of each player found valid
  invalid,  \* history: committed moves of each player found invalid
  solved,   \* history: cells for which a valid move was committed
  quit,     \* history: players whose surrender was committed
  clean     \* history: no committed request had been overtaken (see SaveUpdate)

history == <<valid, invalid, solved, quit, clean>>
vars == <<row, req, valid, invalid, solved, quit, clean>>

(***************************************************************************)
(* A request: who sent it, what it asks ("right" and "wrong" are the two   *)
(* verdicts of validate-move), the entity it will save, the columns its    *)
(* save will write, and whether the row has changed since it was found.    *)
(***************************************************************************)
RequestState ==
  [pc : {"idle", "saving", "updating"}, by : Role,
   kind : {"right", "wrong", "quit"}, cells : SUBSET Cell,
   entity : Room, cols : SUBSET DOMAIN NewRoom, overtaken : BOOLEAN]

Idle == [pc |-> "idle", by |-> "owner", kind |-> "quit", cells |-> {},
         entity |-> NewRoom, cols |-> {}, overtaken |-> FALSE]

Init ==
  /\ row = NewRoom
  /\ req = [r \in Request |-> Idle]
  /\ valid = [p \in Role |-> 0]
  /\ invalid = [p \in Role |-> 0]
  /\ solved = {}
  /\ quit = {}
  /\ clean = TRUE

-----------------------------------------------------------------------------
(* The rules of the game, as the handlers compute them on their entity.    *)

\* Mutant: the winner is written into the status column.
MutFinished(room, w) == [room EXCEPT !.status = w, !.winner = w]

Finished(room, w) == [room EXCEPT !.status = "finished", !.winner = w]

\* A full board is won by the player with more moves, a tie by the last mover.
BoardWinner(room, mover) ==
  IF room.ownerMoves > room.guestMoves THEN "owner"
  ELSE IF room.guestMoves > room.ownerMoves THEN "guest"
  ELSE mover

\* Mutant: a move into a cell that is filled already is not counted.
MutWithOpenCell(room, p, c) ==
  [room EXCEPT !.currBoard = @ \ {c},
               !.ownerMoves = IF p = "owner" /\ c \in room.currBoard THEN @ + 1 ELSE @,
               !.guestMoves = IF p = "guest" /\ c \in room.currBoard THEN @ + 1 ELSE @]

\* The cell is written and the move counted whether or not the cell was still 0.
WithCell(room, p, c) ==
  [room EXCEPT !.currBoard = @ \ {c},
               !.ownerMoves = IF p = "owner" THEN @ + 1 ELSE @,
               !.guestMoves = IF p = "guest" THEN @ + 1 ELSE @]

AfterRight(room, p, c) ==
  LET filled == WithCell(room, p, c) IN
  IF filled.currBoard = {} THEN Finished(filled, BoardWinner(filled, p)) ELSE filled

\* Mutant: the opponent pays for the mistake.
MutAfterWrong(room, p) ==
  LET hurt == [room EXCEPT !.health[Other(p)] = @ - 1] IN
  IF hurt.health[p] = 0 THEN Finished(hurt, Other(p)) ELSE hurt

\* Mutant: the player without lives is made the winner.
MutLoserWins(room, p) ==
  LET hurt == [room EXCEPT !.health[p] = @ - 1] IN
  IF hurt.health[p] = 0 THEN Finished(hurt, p) ELSE hurt

(***************************************************************************)
(* TypeORM reads a simple-array back as strings, and the string "0" is     *)
(* true: the test !room.health[i] only holds for the component that this   *)
(* very request has just decremented (to the number 0).  Below 0 it does   *)
(* not hold either.                                                        *)
(***************************************************************************)
AfterWrong(room, p) ==
  LET hurt == [room EXCEPT !.health[p] = @ - 1] IN
  IF hurt.health[p] = 0 THEN Finished(hurt, Other(p)) ELSE hurt

-----------------------------------------------------------------------------
(* The handlers.  Find is findOne with the synchronous code after it, up   *)
(* to the call of save.  A room that is not playing is answered with       *)
(* ROOM_NOT_PLAYING and nothing changes.                                   *)

\* Mutant: a finished room is still played.
MutFind(r, p, kind, cells, entity) ==
  /\ req[r].pc = "idle"
  /\ req' = [req EXCEPT ![r] =
               [pc |-> "saving", by |-> p, kind |-> kind, cells |-> cells,
                entity |-> entity, cols |-> {}, overtaken |-> FALSE]]
  /\ UNCHANGED <<row, history>>

Find(r, p, kind, cells, entity) ==
  /\ req[r].pc = "idle"
  /\ row.status = "playing"
  /\ req' = [req EXCEPT ![r] =
               [pc |-> "saving", by |-> p, kind |-> kind, cells |-> cells,
                entity |-> entity, cols |-> {}, overtaken |-> FALSE]]
  /\ UNCHANGED <<row, history>>

MayMove(p) == valid[p] + invalid[p] < MaxMoves

ValidateRightMove(r, p, c) ==
  /\ MayMove(p)
  /\ Find(r, p, "right", {c}, AfterRight(row, p, c))

ValidateWrongMove(r, p) ==
  /\ MayMove(p)
  /\ Find(r, p, "wrong", {}, AfterWrong(row, p))

\* Mutant: the status stays playing.
MutSurrender(r, p) == Find(r, p, "quit", {}, [row EXCEPT !.winner = Other(p)])

Surrender(r, p) == Find(r, p, "quit", {}, Finished(row, Other(p)))

\* The SELECT inside save: which columns does the entity change?
SaveSelect(r) ==
  /\ req[r].pc = "saving"
  /\ req' = [req EXCEPT ![r].pc = "updating",
                        ![r].cols = Changed(req[r].entity, row)]
  /\ UNCHANGED <<row, history>>

\* What a committed request adds to the history.
Counted(count, q, kind) ==
  IF q.kind = kind THEN [count EXCEPT ![q.by] = @ + 1] ELSE count
Leaving(q) == IF q.kind = "quit" THEN {q.by} ELSE {}

(***************************************************************************)
(* The UPDATE inside save (none when no column differs) and the answer to  *)
(* the client.  An UPDATE that changes the row overtakes every request that *)
(* has found the row already.                                              *)
(***************************************************************************)
SaveUpdate(r) ==
  LET q == req[r] IN
  /\ q.pc = "updating"
  /\ row' = Updated(row, q.entity, q.cols)
  /\ req' = [s \in Request |->
               IF s = r THEN Idle
               ELSE IF req[s].pc = "idle" THEN Idle
               ELSE [req[s] EXCEPT !.overtaken = @ \/ row' # row]]
  /\ valid' = Counted(valid, q, "right")
  /\ invalid' = Counted(invalid, q, "wrong")
  /\ solved' = solved \union q.cells
  /\ quit' = quit \union Leaving(q)
  /\ clean' = (clean /\ ~q.overtaken)

\* combat_service stops and is restarted by Docker: every request in flight is lost.
Restart ==
  /\ \E r \in Request : req[r].pc # "idle"
  /\ req' = [r \in Request |-> Idle]
  /\ UNCHANGED <<row, history>>

Handle(r) ==
  \/ \E p \in Role :
       \/ \E c \in Cell : ValidateRightMove(r, p, c)
       \/ ValidateWrongMove(r, p)
       \/ Surrender(r, p)
  \/ SaveSelect(r)
  \/ SaveUpdate(r)

Next == (\E r \in Request : Handle(r)) \/ Restart

Spec == Init /\ [][Next]_vars
-----------------------------------------------------------------------------
(* Properties.                                                             *)

\* The row, the requests and the history are well typed.
TypeOK ==
  /\ row \in Room
  /\ req \in [Request -> RequestState]
  /\ valid \in [Role -> Nat] /\ invalid \in [Role -> Nat]
  /\ solved \subseteq Cell
  /\ quit \subseteq Role
  /\ clean \in BOOLEAN

Backed(room, right, wrong, cells) ==
  /\ \A p \in Role : Moves(room, p) <= right[p]
  /\ \A p \in Role : Lives - room.health[p] <= wrong[p]
  /\ Cell \ room.currBoard \subseteq cells

(***************************************************************************)
(* However the saves of validate-move and surrender overwrite each other,  *)
(* the row credits nobody with a move, charges nobody with a mistake and   *)
(* shows no cell as filled for which there was no committed answer.        *)
(***************************************************************************)
NothingInvented == Backed(row, valid, invalid, solved)

Deserved(room, wrong, cells, gone) ==
  room.winner # NoWinner =>
    LET loser == Other(room.winner) IN
    loser \in gone \/ wrong[loser] >= Lives \/ cells = Cell

(***************************************************************************)
(* A race never convicts the innocent: the loser the row names gave up or  *)
(* made Lives mistakes, or the board was solved, by answers that were      *)
(* really given, also when saves overwrote others.                         *)
(***************************************************************************)
JustWinner == Deserved(row, invalid, solved, quit)

(***************************************************************************)
(* The columns status and winner, compared and written one by one by       *)
(* overlapping saves, tell the same story while at most two requests are   *)
(* in flight at once.  With three, a save can take a decided match back to *)
(* playing while another one is about to write the winner alone.           *)
(***************************************************************************)
StatusAgrees == row.status = "finished" <=> row.winner # NoWinner

(***************************************************************************)
(* ownerMoves and guestMoves are the players' total moves, health their    *)
(* remaining lives, and currBoard has every solved cell filled.            *)
(***************************************************************************)
TrueRecord ==
  /\ \A p \in Role : Moves(row, p) = valid[p]
  /\ \A p \in Role : row.health[p] = Lives - invalid[p]
  /\ row.currBoard = Cell \ solved

\* An inexact row is always the work of a save that was overtaken by another.
CleanRecord == clean => TrueRecord

M == INSTANCE Match WITH
       open <- row.currBoard, lives <- row.health, winner <- row.winner,
       score <- [p \in Role |-> Moves(row, p)]

(***************************************************************************)
(* Until a save is overtaken, the three queries of each request together   *)
(* are one atomic move of the match: no decided match is ever played on or *)
(* decided again, and no move is lost.                                     *)
(***************************************************************************)
CleanStepsAreAtomic == [][clean' => M!Next]_row
=============================================================================
