---------------------------- MODULE OnlineSession ----------------------------
(***************************************************************************)
(* How the players of one online match stay connected and learn its end:   *)
(* the socket rooms and handlers of AppGateway, and the OnlineGame page of *)
(* each browser tab.                                                       *)
(*                                                                         *)
(* RoomMatch has the match itself; here it is only its winner, decided in  *)
(* one step by a move or a surrender.  A sync_game that carries no end of  *)
(* the match changes nothing that is modelled and is not sent.  Node runs  *)
(* the gateway on one thread; its handlers interleave where they await the *)
(* room service.  A connection delivers in order until it breaks, and the  *)
(* server may notice the break much later than the browser (nginx keeps a  *)
(* silent connection for a day).                                           *)
(***************************************************************************)
EXTENDS Integers, Sequences

CONSTANTS
  Owner, Guest, \* the two roles
  Tab,          \* the browser tabs that show the match
  Player,       \* the player each tab is logged in as
  MaxConnects,  \* bound: connections each tab opens
  Roaming,      \* bound: the tabs whose player leaves or reloads the page
  NoWinner      \* the null of the winner column

Role == {Owner, Guest}

ASSUME RoleAssumption == Owner # Guest
ASSUME PlayerAssumption == Player \in [Tab -> Role]
ASSUME MaxConnectsAssumption == MaxConnects \in [Tab -> Nat \ {0}]
ASSUME RoamingAssumption == Roaming \subseteq Tab
ASSUME NoWinnerAssumption == NoWinner \notin Role

Other(p) == IF p = Owner THEN Guest ELSE Owner

Socket == UNION {{t} \X (1 .. MaxConnects[t]) : t \in Tab}
User(s) == Player[s[1]]

\* What the gateway sends: sync_game with a winner is the winner's name,
\* sync_game of a finished match without one is "over".
Event == {"over", "opponent_disconnected", "opponent_reconnected", "duplicate_session"}
Message == Role \union Event

ASSUME MessageAssumption == Role \intersect Event = {}

VARIABLES
  winner,   \* the winner column of the room
  rooms,    \* the sockets in the Set that the gateway's Map has for this room
  sock,     \* the server's side of each socket
  asked,    \* the tabs whose surrender is on its way to the room service
  ending,   \* handleMove of the move or the surrender that ended the match
  tab,      \* the page in each tab
  inbox     \* what is on its way to each tab

vars == <<winner, rooms, sock, asked, ending, tab, inbox>>

(***************************************************************************)
(* step: how far handleJoinRoom is with the socket, "none" if it has not   *)
(* seen or has refused it; "playing" and "finished" are the answers of     *)
(* game-state.  held: is the Set that it     *)
(* looked up still the one in the Map?  (An empty Set is dropped.)         *)
(***************************************************************************)
SocketState ==
  [open : BOOLEAN, held : BOOLEAN,
   step : {"none", "arriving", "reading", "playing", "finished", "done"}]

\* How far the broadcast of the end is.  held: as in SocketState.
Ending ==
  [pc : {"none", "moved", "fetching", "surrendered", "told"}, held : BOOLEAN]

(***************************************************************************)
(* A page: its connection (the n-th of the tab, and is it up), whether     *)
(* fetchNames has been answered or can no longer matter, gameResult and    *)
(* opponentOnline.                                                         *)
(***************************************************************************)
TabState ==
  [page : {"game", "home"}, n : Nat, up : BOOLEAN,
   names : BOOLEAN, result : {"none", "win", "lose"}, opponentOnline : BOOLEAN]

Page(page, n) == [page |-> page, n |-> n, up |-> FALSE, names |-> FALSE,
                  result |-> "none", opponentOnline |-> TRUE]
NoSocket == [open |-> FALSE, held |-> FALSE, step |-> "none"]
EndingAt(pc, held) == [pc |-> pc, held |-> held]

Init ==
  /\ winner = NoWinner
  /\ rooms = {}
  /\ sock = [s \in Socket |-> NoSocket]
  /\ asked = {}
  /\ ending = EndingAt("none", FALSE)
  /\ tab = [t \in Tab |-> Page("game", 0)]
  /\ inbox = [t \in Tab |-> <<>>]

Current(t) == <<t, tab[t].n>>
MayConnect(t) == tab[t].n < MaxConnects[t]

\* broadcast: msg is on its way to the tabs behind the given sockets.
Broadcast(sockets, msg, boxes) ==
  [t \in Tab |-> IF tab[t].up /\ Current(t) \in sockets THEN Append(boxes[t], msg) ELSE boxes[t]]

-----------------------------------------------------------------------------
(* The gateway.                                                            *)

\* A bug: no look at the user's other sockets.
MutJoin(s) ==
  /\ sock[s].open /\ sock[s].step = "arriving"
  /\ sock' = [sock EXCEPT ![s].step = "reading", ![s].held = TRUE]
  /\ rooms' = rooms \union {s}
  /\ UNCHANGED <<winner, asked, ending, tab, inbox>>

\* handleJoinRoom up to its await: refuse a second socket of a user, or register.
Join(s) ==
  /\ sock[s].open /\ sock[s].step = "arriving"
  /\ IF \E x \in rooms : User(x) = User(s)
       THEN /\ sock' = [sock EXCEPT ![s] = NoSocket]
            /\ inbox' = Broadcast({s}, "duplicate_session", inbox)
            /\ UNCHANGED rooms
       ELSE /\ sock' = [sock EXCEPT ![s].step = "reading", ![s].held = TRUE]
            /\ rooms' = rooms \union {s}
            /\ UNCHANGED inbox
  /\ UNCHANGED <<winner, asked, ending, tab>>

\* game-state reads the room for handleJoinRoom.
ReadState(s) ==
  /\ sock[s].step = "reading"
  /\ sock' = [sock EXCEPT ![s].step = IF winner = NoWinner THEN "playing" ELSE "finished"]
  /\ UNCHANGED <<winner, rooms, asked, ending, tab, inbox>>

\* The members of the Set a handler has looked up: one that was dropped is empty.
Members(held) == IF held THEN rooms ELSE {}

\* A bug: only the one who came back is told that the opponent is there.
MutSync(s) ==
  LET synced == IF sock[s].open /\ sock[s].step = "finished"
                  THEN Broadcast({s}, "over", inbox) ELSE inbox
  IN
  /\ sock[s].step \in {"playing", "finished"}
  /\ sock' = [sock EXCEPT ![s].step = "done", ![s].held = FALSE]
  /\ inbox' = IF \E x, y \in Members(sock[s].held) : x # y
                THEN Broadcast({s}, "opponent_reconnected", synced) ELSE synced
  /\ UNCHANGED <<winner, rooms, asked, ending, tab>>

\* A bug: the answer to join_room has no status.
MutSyncStatus(s) ==
  /\ sock[s].step \in {"playing", "finished"}
  /\ sock' = [sock EXCEPT ![s].step = "done", ![s].held = FALSE]
  /\ inbox' = IF \E x, y \in Members(sock[s].held) : x # y
                THEN Broadcast(Members(sock[s].held), "opponent_reconnected", inbox) ELSE inbox
  /\ UNCHANGED <<winner, rooms, asked, ending, tab>>

\* The rest of handleJoinRoom.  The answer has the status but no winner.
Sync(s) ==
  LET members == Members(sock[s].held)
      synced == IF sock[s].open /\ sock[s].step = "finished"
                  THEN Broadcast({s}, "over", inbox) ELSE inbox
  IN
  /\ sock[s].step \in {"playing", "finished"}
  /\ sock' = [sock EXCEPT ![s].step = "done", ![s].held = FALSE]
  /\ inbox' = IF \E x, y \in members : x # y
                THEN Broadcast(members, "opponent_reconnected", synced) ELSE synced
  /\ UNCHANGED <<winner, rooms, asked, ending, tab>>

\* A bug: a refused socket also counts as a player who left.
MutDisconnect(s) ==
  /\ tab[s[1]].n >= s[2]
  /\ ~tab[s[1]].up \/ Current(s[1]) # s
  /\ rooms' = rooms \ {s}
  /\ inbox' = Broadcast(rooms', "opponent_disconnected", inbox)
  /\ sock' = [sock EXCEPT ![s].open = FALSE]
  /\ UNCHANGED <<winner, asked, ending, tab>>

\* A bug: the user is taken out of the room, not the socket.
MutDisconnectUser(s) ==
  LET left == {x \in rooms : User(x) = User(s)}
      dropped == rooms = left /\ left # {}
  IN
  /\ sock[s].open
  /\ ~tab[s[1]].up \/ Current(s[1]) # s
  /\ rooms' = rooms \ left
  /\ inbox' = IF left # {} THEN Broadcast(rooms', "opponent_disconnected", inbox) ELSE inbox
  /\ sock' = [x \in Socket |-> [sock[x] EXCEPT !.open = @ /\ x # s, !.held = @ /\ ~dropped]]
  /\ ending' = [ending EXCEPT !.held = @ /\ ~dropped]
  /\ UNCHANGED <<winner, asked, tab>>

\* handleDisconnect, when the server notices that a socket is gone.
Disconnect(s) ==
  LET dropped == rooms = {s} IN
  /\ sock[s].open
  /\ ~tab[s[1]].up \/ Current(s[1]) # s
  /\ rooms' = rooms \ {s}
  /\ inbox' = IF s \in rooms THEN Broadcast(rooms', "opponent_disconnected", inbox) ELSE inbox
  /\ sock' = [x \in Socket |-> [sock[x] EXCEPT !.open = @ /\ x # s, !.held = @ /\ ~dropped]]
  /\ ending' = [ending EXCEPT !.held = @ /\ ~dropped]
  /\ UNCHANGED <<winner, asked, tab>>

(***************************************************************************)
(* validate-move of a move that ends the match, which can make either      *)
(* player win.  The move arrived over a connection that may have broken    *)
(* since, and its role check passed.                                       *)
(***************************************************************************)
Move ==
  /\ winner = NoWinner
  /\ \E s \in Socket : sock[s].step \notin {"none", "arriving"}
  /\ winner' \in Role
  /\ ending' = EndingAt("moved", FALSE)
  /\ UNCHANGED <<rooms, sock, asked, tab, inbox>>

\* handleMove looks up the Set and reads the state again before it broadcasts.
LookUp ==
  /\ ending.pc = "moved"
  /\ ending' = EndingAt("fetching", rooms # {})
  /\ UNCHANGED <<winner, rooms, sock, asked, tab, inbox>>

\* surrender of a room that is playing; another is answered with an error.
Surrender(t) ==
  /\ t \in asked
  /\ asked' = asked \ {t}
  /\ IF winner = NoWinner
       THEN winner' = Other(Player[t]) /\ ending' = EndingAt("surrendered", FALSE)
       ELSE UNCHANGED <<winner, ending>>
  /\ UNCHANGED <<rooms, sock, tab, inbox>>

\* The broadcast of the end: to the Set as a surrender finds it now, or as LookUp found it.
TellEnd ==
  /\ ending.pc \in {"fetching", "surrendered"}
  /\ inbox' = Broadcast(Members(ending.held \/ ending.pc = "surrendered"), winner, inbox)
  /\ ending' = EndingAt("told", FALSE)
  /\ UNCHANGED <<winner, rooms, sock, asked, tab>>

-----------------------------------------------------------------------------
(* The page.                                                               *)

\* connect, with the join_room that onopen sends.
Connect(t) ==
  LET s == <<t, tab[t].n + 1>> IN
  /\ tab[t].page = "game" /\ ~tab[t].up /\ MayConnect(t)
  /\ tab' = [tab EXCEPT ![t].n = @ + 1, ![t].up = TRUE]
  /\ sock' = [sock EXCEPT ![s].open = TRUE, ![s].step = "arriving"]
  /\ UNCHANGED <<winner, rooms, asked, ending, inbox>>

\* Tab t shows page, without a connection.
Show(t, page) ==
  /\ tab' = [tab EXCEPT ![t] = page]
  /\ inbox' = [inbox EXCEPT ![t] = <<>>]

\* setGameResult(prev => prev ? prev : result).
Told(page, result) ==
  IF page.result = "none" THEN [page EXCEPT !.result = result, !.names = TRUE] ELSE page

\* A bug: a match without a winner has a result that the page does not know.
MutResultOver(t, w) ==
  IF w = "over" THEN "over" ELSE IF w = Player[t] THEN "win" ELSE "lose"

\* A bug: without a winner, the loser that is not there is not me.
MutResultOf(t, w) == IF w \in {Player[t], "over"} THEN "win" ELSE "lose"

ResultOf(t, w) == IF w = Player[t] THEN "win" ELSE "lose"

\* sync_game of a finished match without a winner counts as lost.
ReceiveEnd(t) ==
  /\ Head(inbox[t]) \in Role \union {"over"}
  /\ tab' = [tab EXCEPT ![t] = Told(@, ResultOf(t, Head(inbox[t])))]
  /\ inbox' = [inbox EXCEPT ![t] = Tail(@)]

ReceivePresence(t) ==
  /\ Head(inbox[t]) \in {"opponent_disconnected", "opponent_reconnected"}
  /\ tab' = [tab EXCEPT ![t].opponentOnline = Head(inbox[t]) = "opponent_reconnected"]
  /\ inbox' = [inbox EXCEPT ![t] = Tail(@)]

ReceiveDuplicate(t) ==
  /\ Head(inbox[t]) = "duplicate_session"
  /\ Show(t, Page("home", tab[t].n))

\* onmessage.
Deliver(t) ==
  /\ inbox[t] # <<>>
  /\ ReceiveEnd(t) \/ ReceivePresence(t) \/ ReceiveDuplicate(t)
  /\ UNCHANGED <<winner, rooms, sock, asked, ending>>

\* fetchNames, once per page: only here is the winner read from the room.
FetchNames(t) ==
  /\ tab[t].page = "game" /\ ~tab[t].names
  /\ tab' = [tab EXCEPT ![t] =
       LET named == [@ EXCEPT !.names = TRUE] IN
       IF winner = NoWinner THEN named ELSE Told(named, ResultOf(t, winner))]
  /\ UNCHANGED <<winner, rooms, sock, asked, ending, inbox>>

\* The connection breaks; the browser notices first.
Break(t) ==
  /\ tab[t].up /\ MayConnect(t)
  /\ Show(t, [tab[t] EXCEPT !.up = FALSE])
  /\ UNCHANGED <<winner, rooms, sock, asked, ending>>

(***************************************************************************)
(* The player leaves the page.  confirmExitGame of a match that has not    *)
(* ended here sends a surrender if the connection is up, which may be lost *)
(* with the connection.                                                    *)
(***************************************************************************)
Exit(t) ==
  /\ tab[t].page = "game" /\ t \in Roaming
  /\ Show(t, Page("home", tab[t].n))
  /\ \/ /\ tab[t].result = "none" /\ tab[t].up
        /\ sock[Current(t)].open /\ sock[Current(t)].step # "arriving"
        /\ asked' = asked \union {t}
     \/ UNCHANGED asked
  /\ UNCHANGED <<winner, rooms, sock, ending>>

Reload(t) ==
  /\ tab[t].page = "game" /\ t \in Roaming /\ MayConnect(t)
  /\ Show(t, Page("game", tab[t].n))
  /\ UNCHANGED <<winner, rooms, sock, asked, ending>>

\* Home finds the active room of a match that is still playing.
Resume(t) ==
  /\ tab[t].page = "home" /\ MayConnect(t)
  /\ winner = NoWinner
  /\ Show(t, Page("game", tab[t].n))
  /\ UNCHANGED <<winner, rooms, sock, asked, ending>>

\* combat_service is restarted by Docker: the Map, the sockets and the running handlers are gone.
Restart ==
  /\ \A t \in Tab : tab[t].up => MayConnect(t)
  /\ rooms' = {}
  /\ sock' = [s \in Socket |-> NoSocket]
  /\ asked' = {}
  /\ ending' = EndingAt(IF winner = NoWinner THEN "none" ELSE "told", FALSE)
  /\ tab' = [t \in Tab |-> [tab[t] EXCEPT !.up = FALSE]]
  /\ inbox' = [t \in Tab |-> <<>>]
  /\ UNCHANGED winner

Serve(s) == Join(s) \/ ReadState(s) \/ Sync(s) \/ Disconnect(s)
Answer == LookUp \/ TellEnd \/ \E t \in Tab : Surrender(t)

Next ==
  \/ \E s \in Socket : Serve(s)
  \/ \E t \in Tab :
       \/ Connect(t) \/ Deliver(t) \/ FetchNames(t)
       \/ Break(t) \/ Exit(t) \/ Reload(t) \/ Resume(t)
  \/ Move \/ Answer \/ Restart

(***************************************************************************)
(* The gateway and the pages do what they have started, a dead connection  *)
(* is noticed in the end, and a page reconnects.  Nobody has to move, to   *)
(* leave or to come back.                                                  *)
(***************************************************************************)
Fairness ==
  /\ \A s \in Socket : WF_vars(Serve(s))
  /\ \A t \in Tab : WF_vars(Connect(t)) /\ WF_vars(Deliver(t))
  /\ WF_vars(Answer)

Spec == Init /\ [][Next]_vars /\ Fairness
-----------------------------------------------------------------------------
(* Properties.                                                             *)

\* Sockets, pages, messages and the broadcast are well typed.
TypeOK ==
  /\ winner \in Role \union {NoWinner}
  /\ rooms \subseteq Socket
  /\ sock \in [Socket -> SocketState]
  /\ asked \subseteq Tab
  /\ ending \in Ending
  /\ tab \in [Tab -> TabState]
  /\ inbox \in [Tab -> Seq(Message)]

(***************************************************************************)
(* handleJoinRoom: a user has at most one socket in a room, whatever tabs, *)
(* breaks and reconnections there are, and it is one the server believes   *)
(* to be open.                                                             *)
(***************************************************************************)
OneSession ==
  /\ \A x, y \in rooms : User(x) = User(y) => x = y
  /\ \A x \in rooms : sock[x].open

\* Victory is shown to nobody but the winner of the room.
VictoryIsTrue == \A t \in Tab : tab[t].result = "win" => winner = Player[t]

\* Nothing about the connections is going on.
Quiet ==
  /\ \A s \in rooms : sock[s].step = "done" /\ tab[s[1]].up /\ Current(s[1]) = s
  /\ \A t \in Tab : inbox[t] = <<>>

(***************************************************************************)
(* The banner "Opponent disconnected" does not stay once both players are  *)
(* connected, in whatever order they left and came back.                   *)
(***************************************************************************)
NoFalseAlarm ==
  Quiet /\ (\E x, y \in rooms : x # y) => \A s \in rooms : tab[s[1]].opponentOnline

(***************************************************************************)
(* A page that stays open is told the end of the match: the broadcast, or  *)
(* the answer to its next join_room, or the restart of the service before  *)
(* it could broadcast, none of them falls between two stools.              *)
(***************************************************************************)
EndIsTold ==
  \A t \in Tab :
    winner # NoWinner /\ tab[t].page = "game" ~> tab[t].result # "none" \/ tab[t].page # "game"

(***************************************************************************)
(* No page sits in the match outside the room's Set, where it would miss   *)
(* every broadcast: while its connection is up it is in the Set, or its    *)
(* join_room is on its way, or it is about to be told that it was refused. *)
(* Late disconnects, other tabs, dropped Sets and restarts take nobody     *)
(* else's socket away.                                                     *)
(***************************************************************************)
NoneLeftOut ==
  \A t \in Tab : tab[t].up =>
    \/ Current(t) \in rooms
    \/ sock[Current(t)].step = "arriving"
    \/ \E i \in DOMAIN inbox[t] : inbox[t][i] = "duplicate_session"

\* README: "Handle connection & disconnection with smooth UX": the winner sees a victory.
WinnerIsTold ==
  \A t \in Tab : tab[t].result = "lose" => winner # Player[t]
=============================================================================
