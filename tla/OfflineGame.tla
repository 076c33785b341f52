----------------------------- MODULE OfflineGame -----------------------------
(***************************************************************************)
(* One offline game of a user who is logged in: its Room row, the handlers *)
(* of combat_service that work on it (combat.controller.ts), and the page  *)
(* that plays it (OfflineGame.jsx with useGameLogic and useGameExit).      *)
(*                                                                         *)
(* The page sends a move or asks for a hint whenever the player wants, not *)
(* one after the other; the handlers interleave at every query, and their  *)
(* answers arrive in any order.  None of the handlers looks at the status. *)
(*                                                                         *)
(* A move is right or wrong, and a board is the set of its holes, as in    *)
(* RoomMatch.  A hint names a hole of the board that it was asked for and  *)
(* is right (SudokuGenerator, HintIsRight): to apply it is a right move.   *)
(***************************************************************************)
EXTENDS Integers, FiniteSets, RoomRow

CONSTANTS
  Cell,      \* the cells that are 0 on the board of the new game
  Request,   \* the requests that can be in flight at the same time
  Lives,     \* health of a new game: 3
  MaxHints,  \* MAX_HINTS: 3
  NoRow,     \* there is no row with the id of the game
  MaxSent,   \* bound: moves, hints and abandonments that are sent
  MaxLoads   \* bound: times that the page is loaded again

ASSUME GameAssumption ==
  /\ Lives \in Nat \ {0} /\ MaxHints \in Nat
  /\ MaxSent \in Nat /\ MaxLoads \in Nat
  /\ Cell # {} /\ IsFiniteSet(Request)

Room == [currBoard : SUBSET Cell, health : Int, status : {"playing", "finished"}, hintsUsed : Nat]

ASSUME NoRowAssumption == NoRow \notin Room

NewRoom == [currBoard |-> Cell, health |-> Lives, status |-> "playing", hintsUsed |-> 0]

VARIABLES
  row,       \* the row, or NoRow
  req,       \* the requests of the page
  page,      \* the page
  reported,  \* the results that stats_service got for this game
  solved,    \* history: cells of the right moves that were saved
  wrong,     \* history: wrong moves that were saved
  hinted,    \* history: hints that were saved
  quits,     \* history: times the player confirmed to give up
  dropped,   \* history: whether an abandonment was saved
  clean,     \* history: no request was lost, and none that ended was overtaken
  sent,      \* how many requests were sent
  loads      \* how often the page was loaded again

history == <<solved, wrong, hinted, dropped, clean>>
vars == <<row, req, page, reported, quits, sent, loads, history>>

(***************************************************************************)
(* A request.  "right" and "wrong" are moves that are typed in, "apply" is *)
(* the move of a hint; "ask" is a POST /hint, which becomes a hint-used.   *)
(* heard: somebody waits for the answer, which the page does with neither  *)
(* the move of a hint nor hint-used, and not when it is gone.              *)
(***************************************************************************)
RequestState ==
  [pc : {"idle", "asking", "saving", "updating", "inserting", "answered"},
   kind : {"right", "wrong", "apply", "ask", "hint", "abandon"}, cells : SUBSET Cell,
   entity : Room, cols : SUBSET DOMAIN NewRoom, heard : BOOLEAN, overtaken : BOOLEAN]

Idle == [pc |-> "idle", kind |-> "ask", cells |-> {}, entity |-> NewRoom, cols |-> {},
         heard |-> FALSE, overtaken |-> FALSE]

(***************************************************************************)
(* The page: whether it is the one on the screen, its board, the cells     *)
(* that cannot be typed into, lives and hintsRemaining, gameResult (set    *)
(* together with isGameOver, and at first with hasReportedStats), whether  *)
(* the exit modal is open, and the cell of the hint modal.                 *)
(***************************************************************************)
Page == [open : BOOLEAN, holes : SUBSET Cell, fixed : SUBSET Cell, lives : Int, hints : Int,
         result : {"none", "win", "lose"}, exit : BOOLEAN, hint : SUBSET Cell]

\* A page that has fetched the state of the game.  There is no board for a
\* game that is not playing, and the cells of the empty board can be typed into.
Loaded(state) ==
  [open |-> TRUE, lives |-> state.health,
   holes |-> IF state.status = "playing" THEN state.currBoard ELSE Cell,
   fixed |-> IF state.status = "playing" THEN Cell \ state.currBoard ELSE {},
   hints |-> IF state.hintsUsed < MaxHints THEN MaxHints - state.hintsUsed ELSE 0,
   result |-> "none", exit |-> FALSE, hint |-> {}]

\* Another page is on the screen.
Gone == [Loaded(NewRoom) EXCEPT !.open = FALSE]

Init ==
  /\ row = NewRoom
  /\ req = [r \in Request |-> Idle]
  /\ page = Loaded(NewRoom)
  /\ reported = [win |-> 0, lose |-> 0]
  /\ solved = {} /\ wrong = 0 /\ hinted = 0 /\ dropped = FALSE /\ clean = TRUE
  /\ quits = 0 /\ sent = 0 /\ loads = 0

-----------------------------------------------------------------------------
(* The handlers, as they change the entity they have found.                *)

\* Mutant: the last hole but one wins.
MutIsWin(board) == Cardinality(board) <= 1
IsWin(board) == board = {}

AfterRight(room, c) ==
  LET filled == [room EXCEPT !.currBoard = @ \ {c}]
  IN  IF IsWin(filled.currBoard) THEN [filled EXCEPT !.status = "finished"] ELSE filled

\* Mutant: a game without lives goes on.
MutAfterWrong(room) == [room EXCEPT !.health = @ - 1]
AfterWrong(room) ==
  LET hurt == [room EXCEPT !.health = @ - 1]
  IN  IF hurt.health = 0 THEN [hurt EXCEPT !.status = "finished"] ELSE hurt

AfterHint(room) == [room EXCEPT !.hintsUsed = @ + 1]

\* Mutant: an abandoned game has a status of its own.
MutAbandoned(room) == [room EXCEPT !.status = "abandoned"]
Abandoned(room) == [room EXCEPT !.status = "finished"]

\* findOne and the code up to the call of save.
Found(kind, cells, entity) ==
  [pc |-> "saving", kind |-> kind, cells |-> cells, entity |-> entity, cols |-> {},
   heard |-> kind \in {"right", "wrong", "abandon"}, overtaken |-> FALSE]

-----------------------------------------------------------------------------
(* Saving.                                                                 *)

SaveSelect(r) ==
  /\ req[r].pc = "saving"
  /\ req' = [req EXCEPT
       ![r].pc = IF row = NoRow THEN "inserting" ELSE "updating",
       ![r].cols = IF row = NoRow THEN {} ELSE Changed(req[r].entity, row)]
  /\ UNCHANGED <<row, page, reported, quits, sent, loads, history>>

\* Requests that have found the row before it became newRow.
Overtaken(newRow) ==
  [r \in Request |-> IF req[r].pc \in {"saving", "updating", "inserting"}
                     THEN [req[r] EXCEPT !.overtaken = @ \/ newRow # row] ELSE req[r]]

\* The save of r leaves newRow, and its answer is sent, if anybody waits for it.
Saved(r, newRow) ==
  /\ row' = newRow
  /\ req' = [Overtaken(newRow) EXCEPT ![r] =
       IF req[r].heard THEN [req[r] EXCEPT !.pc = "answered", !.cols = {}, !.overtaken = FALSE]
       ELSE Idle]
  /\ solved' = IF req[r].kind \in {"right", "apply"} THEN solved \union req[r].cells ELSE solved
  /\ wrong' = IF req[r].kind = "wrong" THEN wrong + 1 ELSE wrong
  /\ hinted' = IF req[r].kind = "hint" THEN hinted + 1 ELSE hinted
  /\ dropped' = (dropped \/ req[r].kind = "abandon")
  /\ clean' = (clean /\ ~req[r].overtaken)
  /\ UNCHANGED <<page, reported, quits, sent, loads>>

\* It touches no row when the game has been deleted.
SaveUpdate(r) ==
  /\ req[r].pc = "updating"
  /\ Saved(r, IF row = NoRow THEN NoRow ELSE Updated(row, req[r].entity, req[r].cols))

\* A deleted game is there again.
SaveInsert(r) ==
  /\ req[r].pc = "inserting" /\ row = NoRow
  /\ Saved(r, req[r].entity)

\* startOffline of the same user: the games that are playing are deleted.
StartOther ==
  /\ row # NoRow /\ row.status = "playing"
  /\ row' = NoRow /\ req' = Overtaken(NoRow)
  /\ UNCHANGED <<page, reported, quits, sent, loads, history>>

-----------------------------------------------------------------------------
(* The page.                                                               *)

Playing == page.open /\ page.result = "none"

\* The request r is sent: it finds the row, or is answered "Room not found".
Send(r, request) ==
  /\ req[r].pc = "idle" /\ sent < MaxSent /\ sent' = sent + 1
  /\ req' = IF row = NoRow THEN req ELSE [req EXCEPT ![r] = request]

\* A right number is typed in.
TypeRight(r, c) ==
  /\ Playing /\ c \notin page.fixed
  /\ Send(r, Found("right", {c}, AfterRight(row, c)))
  /\ UNCHANGED <<row, page, reported, quits, loads, history>>

TypeWrong(r) ==
  /\ Playing /\ page.fixed # Cell
  /\ Send(r, Found("wrong", {}, AfterWrong(row)))
  /\ UNCHANGED <<row, page, reported, quits, loads, history>>

\* handleInput(0): the cell is emptied on the page only.
Erase(c) ==
  /\ Playing /\ c \notin page.fixed
  /\ page' = [page EXCEPT !.holes = @ \union {c}]
  /\ UNCHANGED <<row, req, reported, quits, sent, loads, history>>

\* handleHint: game_service finds a hint for one of the holes (or none) ...
AskHint(r, c) ==
  /\ Playing /\ page.hints > 0 /\ c \in page.holes
  /\ req[r].pc = "idle" /\ sent < MaxSent /\ sent' = sent + 1
  /\ req' = [req EXCEPT ![r] = [Idle EXCEPT !.pc = "asking", !.cells = {c}, !.heard = TRUE]]
  /\ UNCHANGED <<row, page, reported, quits, loads, history>>

\* ... which is shown when it arrives, and counted on both sides.
ShowHint(r) ==
  /\ req[r].pc = "asking"
  /\ page' = [page EXCEPT !.hint = req[r].cells, !.hints = @ - 1]
  /\ req' = [req EXCEPT ![r] = IF row = NoRow THEN Idle ELSE Found("hint", {}, AfterHint(row))]
  /\ UNCHANGED <<row, reported, quits, sent, loads, history>>

\* applyHint: the cell is filled at once, and the answer to the move is not used.
\* Mutant: the move is not sent.
MutApplyHint(r) ==
  \E c \in page.hint :
    /\ page.open
    /\ page' = [page EXCEPT !.holes = @ \ {c}, !.fixed = @ \ {c}, !.hint = {}]
    /\ UNCHANGED <<row, req, reported, quits, sent, loads, history>>
ApplyHint(r) ==
  \E c \in page.hint :
    /\ page.open
    /\ page' = [page EXCEPT !.holes = @ \ {c}, !.fixed = @ \ {c}, !.hint = {}]
    /\ Send(r, Found("apply", {c}, AfterRight(row, c)))
    /\ UNCHANGED <<row, reported, quits, loads, history>>

\* setGameResult, and the effect that reports the first result of the page.
Ends(shown, result) ==
  /\ page' = [shown EXCEPT !.result = result]
  /\ reported' = IF page.result # "none" THEN reported ELSE [reported EXCEPT ![result] = @ + 1]

\* The answer to a move that was typed in.
AnswerMove(r) ==
  LET q == req[r]
      lives == q.entity.health
  IN  /\ q.pc = "answered" /\ q.kind \in {"right", "wrong"}
      /\ req' = [req EXCEPT ![r] = Idle]
      /\ LET shown == IF q.kind = "right" THEN [page EXCEPT !.holes = @ \ q.cells]
                      ELSE [page EXCEPT !.lives = lives]
         IN  IF q.kind = "right" /\ IsWin(q.entity.currBoard) THEN Ends(shown, "win")
             ELSE IF q.kind = "wrong" /\ lives <= 0 THEN Ends(shown, "lose")
             ELSE page' = shown /\ UNCHANGED reported
      /\ UNCHANGED <<row, quits, sent, loads, history>>

\* There is no hint, or game_service failed.
MissHint(r) ==
  /\ req[r].pc = "asking"
  /\ req' = [req EXCEPT ![r] = Idle]
  /\ UNCHANGED <<row, page, reported, quits, sent, loads, history>>

-----------------------------------------------------------------------------
(* Giving up, leaving and loading the page.                                *)

\* The page is gone; what the handlers have begun goes on, but nobody hears of it.
Unheard(kinds) ==
  [r \in Request |-> IF req[r].kind \notin kinds THEN req[r]
                     ELSE IF req[r].pc \in {"asking", "answered"} THEN Idle
                     ELSE [req[r] EXCEPT !.heard = FALSE]]
Moves == {"right", "wrong", "apply", "ask", "hint"}

\* handleBackClick: a game that is over is left, another one asks first.
Back ==
  /\ page.open
  /\ IF Playing THEN page' = [page EXCEPT !.exit = TRUE] /\ UNCHANGED req
     ELSE page' = Gone /\ req' = Unheard(Moves)
  /\ UNCHANGED <<row, reported, quits, sent, loads, history>>

CancelExit ==
  /\ page.open /\ page.exit
  /\ page' = [page EXCEPT !.exit = FALSE]
  /\ UNCHANGED <<row, req, reported, quits, sent, loads, history>>

\* The end of confirmExitGame: a defeat is reported and the page is left.
ReportExit(requests) ==
  /\ req' = requests
  /\ page' = Gone
  /\ reported' = [reported EXCEPT !.lose = @ + 1]

\* confirmExitGame, also when the game has ended since the modal was opened.
ConfirmExit(r) ==
  /\ page.open /\ page.exit
  /\ quits' = quits + 1
  /\ req[r].pc = "idle" /\ sent < MaxSent /\ sent' = sent + 1
  /\ IF row = NoRow THEN ReportExit(Unheard(Moves))
     ELSE /\ req' = [req EXCEPT ![r] = Found("abandon", {}, Abandoned(row))]
          /\ page' = [page EXCEPT !.exit = FALSE] /\ UNCHANGED reported
  /\ UNCHANGED <<row, loads, history>>

AnswerExit(r) ==
  /\ req[r].kind = "abandon" /\ req[r].pc = "answered"
  /\ ReportExit([Unheard(Moves) EXCEPT ![r] = Idle])
  /\ UNCHANGED <<row, quits, sent, loads, history>>

\* A request or its answer is lost, or its handler fails.  An abandonment is
\* taken for done.
Lose(r) ==
  /\ req[r].pc # "idle"
  /\ clean' = FALSE
  /\ IF req[r].kind = "abandon" /\ req[r].heard THEN ReportExit([Unheard(Moves) EXCEPT ![r] = Idle])
     ELSE req' = [req EXCEPT ![r] = Idle] /\ UNCHANGED <<page, reported>>
  /\ UNCHANGED <<row, quits, sent, loads, solved, wrong, hinted, dropped>>

\* The page is loaded again, or entered again after it was left.  A game that
\* cannot be fetched leaves the empty board.
Load ==
  /\ loads < MaxLoads /\ loads' = loads + 1
  /\ req' = Unheard(IF page.open THEN Moves \union {"abandon"} ELSE Moves)
  /\ \/ row # NoRow /\ page' = Loaded(row)
     \/ page' = [Loaded(NewRoom) EXCEPT !.holes = Cell, !.fixed = {}]
  /\ UNCHANGED <<row, reported, quits, sent, history>>

Serve(r) == SaveSelect(r) \/ SaveUpdate(r) \/ SaveInsert(r)

Answer(r) == ShowHint(r) \/ AnswerMove(r) \/ MissHint(r) \/ AnswerExit(r)

Next ==
  \/ \E r \in Request :
       \/ \E c \in Cell : TypeRight(r, c) \/ AskHint(r, c)
       \/ TypeWrong(r) \/ ApplyHint(r) \/ ConfirmExit(r)
       \/ Serve(r) \/ Answer(r) \/ Lose(r)
  \/ \E c \in Cell : Erase(c)
  \/ StartOther \/ Back \/ CancelExit \/ Load

Spec == Init /\ [][Next]_vars
-----------------------------------------------------------------------------
(* Properties                                                              *)

\* The row, the requests, the page and the history are well typed.
TypeOK ==
  /\ row \in Room \union {NoRow}
  /\ req \in [Request -> RequestState]
  /\ page \in Page
  /\ reported \in [win : Nat, lose : Nat]
  /\ solved \subseteq Cell /\ wrong \in Nat /\ hinted \in Nat
  /\ dropped \in BOOLEAN /\ clean \in BOOLEAN
  /\ quits \in Nat /\ sent \in Nat /\ loads \in Nat

(***************************************************************************)
(* Whatever saves overwrite each other, whatever is lost or answered late, *)
(* and although a finished game goes on taking moves: a victory is shown   *)
(* and reported only of a board that was solved, a defeat only of a player *)
(* who made Lives mistakes or, when it is reported, gave up.  A page       *)
(* reports its result once, and giving up is reported once.                *)
(***************************************************************************)
ResultIsEarned ==
  /\ page.result = "win" \/ reported.win > 0 => solved = Cell
  /\ page.result = "lose" \/ reported.lose > quits => wrong >= Lives
  /\ reported.win + reported.lose <= quits + loads + 1

(***************************************************************************)
(* As long as no request was lost and none was overtaken by the save of    *)
(* another one, the row is the exact record of what was saved, and the     *)
(* game stays finished from the move or the abandonment that finished it.  *)
(***************************************************************************)
CleanRecord ==
  clean /\ row # NoRow =>
    /\ row.currBoard = Cell \ solved
    /\ row.health = Lives - wrong
    /\ row.hintsUsed = hinted
    /\ row.status = "finished" <=> solved = Cell \/ wrong >= Lives \/ dropped

\* The cells of the hints that are being applied.
Applying == UNION {req[r].cells : r \in {s \in Request : req[s].kind = "apply"}}

(***************************************************************************)
(* Under the same condition the page is behind the row and never ahead of  *)
(* it, in whatever order the answers arrive: a cell that it shows as       *)
(* filled was saved, or is that of a hint on its way, and a life that it   *)
(* shows as lost is lost in the row.  It may be behind for good: an answer *)
(* that arrives after a later one shows lives that are lost by now.        *)
(***************************************************************************)
ShownIsSaved ==
  clean /\ row # NoRow =>
    /\ Cell \ page.holes \subseteq solved \union Applying
    /\ page.lives >= row.health

\* "The goal of the game is to fill the empty cells with numbers from 1 to 9."
\* (HowToPlayModal.jsx:258): a page that shows no empty cell any more, after
\* everything it sent was answered, shows the victory.
FullBoardWins ==
  page.open /\ page.holes = {} /\ row # NoRow /\ clean /\ (\A r \in Request : req[r] = Idle) => page.result = "win"
=============================================================================
