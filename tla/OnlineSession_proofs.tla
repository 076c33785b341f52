------------------------ MODULE OnlineSession_proofs ------------------------
(***************************************************************************)
(* Proofs about the sockets of a match: types, one session per user, true  *)
(* victories, no page left out of the room, and a banner that goes when    *)
(* both players are back, for any tabs, players and numbers of connections.*)
(***************************************************************************)
EXTENDS OnlineSession, TLAPS

\* A role is no event, and a role or nobody has won.
LEMMA Constants ==
  /\ Player \in [Tab -> Role] /\ MaxConnects \in [Tab -> Nat \ {0}]
  /\ NoWinner \notin Role /\ Role \intersect Event = {}
BY PlayerAssumption, MaxConnectsAssumption, NoWinnerAssumption, MessageAssumption

\* A socket is a tab and the number of one of its connections.
LEMMA SocketIsPair ==
  /\ \A s \in Socket : s = <<s[1], s[2]>> /\ s[1] \in Tab /\ s[2] \in 1 .. MaxConnects[s[1]]
  /\ \A t \in Tab : \A n \in 1 .. MaxConnects[t] : <<t, n>> \in Socket
BY Constants DEF Socket

\* A broadcast appends its message to some of the boxes.
LEMMA BroadcastType ==
  ASSUME NEW sockets, NEW msg \in Message, NEW boxes \in [Tab -> Seq(Message)]
  PROVE  /\ Broadcast(sockets, msg, boxes) \in [Tab -> Seq(Message)]
         /\ \A t \in Tab : Broadcast(sockets, msg, boxes)[t] \in {boxes[t], Append(boxes[t], msg)}
BY DEF Broadcast

\* What is known when the end of the match is being told: it has a winner.
Decided == ending.pc # "none" => winner \in Role

TypeInv == TypeOK /\ Decided

LEMMA TypeInit == Init => TypeInv
<1> SUFFICES ASSUME Init PROVE TypeInv
  OBVIOUS
<1>1. sock \in [Socket -> SocketState]
  BY DEF Init, SocketState, NoSocket
<1>2. tab \in [Tab -> TabState]
  BY DEF Init, TabState, Page
<1>3. inbox \in [Tab -> Seq(Message)]
  BY DEF Init
<1>4. ending \in Ending /\ Decided
  BY DEF Init, Ending, EndingAt, Decided
<1>5. QED
  BY <1>1, <1>2, <1>3, <1>4 DEF Init, TypeInv, TypeOK

\* The gateway's handlers keep the types.
LEMMA ServeTypes ==
  ASSUME TypeInv, NEW s \in Socket, Serve(s)
  PROVE  TypeInv'
<1> USE Constants DEF TypeInv, TypeOK
<1>1. CASE Join(s)
  <2>1. Broadcast({s}, "duplicate_session", inbox) \in [Tab -> Seq(Message)]
    BY BroadcastType DEF Message, Event
  <2>2. sock' \in [Socket -> SocketState]
    <3>1. CASE \E x \in rooms : User(x) = User(s)
      <4>1. sock' = [sock EXCEPT ![s] = NoSocket]
        BY <1>1, <3>1 DEF Join
      <4>2. NoSocket \in SocketState
        BY DEF NoSocket, SocketState
      <4>3. QED BY <4>1, <4>2
    <3>2. CASE ~\E x \in rooms : User(x) = User(s)
      <4>1. sock' = [sock EXCEPT ![s].step = "reading", ![s].held = TRUE]
        BY <1>1, <3>2 DEF Join
      <4>2. QED BY <4>1 DEF SocketState
    <3>3. QED BY <3>1, <3>2
  <2>3. QED BY <1>1, <2>1, <2>2 DEF Join, Decided
<1>2. CASE ReadState(s)
  <2>1. sock' \in [Socket -> SocketState]
    BY <1>2 DEF ReadState, SocketState
  <2>2. QED BY <1>2, <2>1 DEF ReadState, Decided
<1>3. CASE Sync(s)
  <2> DEFINE synced == IF sock[s].open /\ sock[s].step = "finished"
                         THEN Broadcast({s}, "over", inbox) ELSE inbox
  <2>1. synced \in [Tab -> Seq(Message)]
    BY BroadcastType DEF Message, Event
  <2>2. inbox' \in {synced, Broadcast(Members(sock[s].held), "opponent_reconnected", synced)}
    BY <1>3 DEF Sync
  <2> HIDE DEF synced
  <2>3. Broadcast(Members(sock[s].held), "opponent_reconnected", synced) \in [Tab -> Seq(Message)]
    BY <2>1, BroadcastType DEF Message, Event
  <2>4. sock' \in [Socket -> SocketState]
    BY <1>3 DEF Sync, SocketState
  <2>5. QED BY <1>3, <2>1, <2>2, <2>3, <2>4 DEF Sync, Decided
<1>4. CASE Disconnect(s)
  <2>1. Broadcast(rooms', "opponent_disconnected", inbox) \in [Tab -> Seq(Message)]
    BY BroadcastType DEF Message, Event
  <2>2. inbox' \in [Tab -> Seq(Message)]
    BY <1>4, <2>1 DEF Disconnect
  <2>3. \A x \in Socket, a, b \in BOOLEAN :
          [sock[x] EXCEPT !.open = @ /\ a, !.held = @ /\ b] \in SocketState
    BY DEF SocketState
  <2>4. sock' \in [Socket -> SocketState]
    BY <1>4, <2>3, Zenon DEF Disconnect
  <2>5. ending' \in Ending /\ ending'.pc = ending.pc
    BY <1>4 DEF Disconnect, Ending
  <2>6. QED BY <1>4, <2>2, <2>4, <2>5 DEF Disconnect, Decided
<1>5. QED
  BY <1>1, <1>2, <1>3, <1>4 DEF Serve

\* The end of the match and its broadcast keep the types.
LEMMA EndTypes ==
  ASSUME TypeInv, Move \/ Answer
  PROVE  TypeInv'
<1> USE Constants DEF TypeInv, TypeOK
<1>1. CASE Move
  BY <1>1 DEF Move, EndingAt, Ending, Decided
<1>2. CASE LookUp
  BY <1>2 DEF LookUp, EndingAt, Ending, Decided
<1>3. CASE TellEnd
  <2>1. winner \in Message
    BY <1>3 DEF TellEnd, Decided, Message
  <2>2. inbox' \in [Tab -> Seq(Message)]
    BY <1>3, <2>1, BroadcastType DEF TellEnd
  <2>3. QED BY <1>3, <2>2 DEF TellEnd, EndingAt, Ending, Decided
<1>4. CASE \E t \in Tab : Surrender(t)
  <2>1. PICK t \in Tab : Surrender(t)
    BY <1>4
  <2>2. Other(Player[t]) \in Role
    BY DEF Other, Role
  <2>3. CASE winner = NoWinner
    <3>1. winner' = Other(Player[t]) /\ ending' = EndingAt("surrendered", FALSE)
      BY <2>1, <2>3 DEF Surrender
    <3>2. asked' \subseteq Tab /\ UNCHANGED <<rooms, sock, tab, inbox>>
      BY <2>1 DEF Surrender
    <3>3. QED BY <2>2, <3>1, <3>2 DEF EndingAt, Ending, Decided
  <2>4. CASE winner # NoWinner
    BY <2>1, <2>4 DEF Surrender, Decided
  <2>5. QED BY <2>3, <2>4
<1>5. QED
  BY <1>1, <1>2, <1>3, <1>4 DEF Answer

\* The page and the restart keep the types.
LEMMA PageTypes ==
  ASSUME TypeInv, NEW t \in Tab,
         Connect(t) \/ Deliver(t) \/ FetchNames(t) \/ Break(t) \/ Exit(t) \/ Reload(t) \/ Resume(t)
  PROVE  TypeInv'
<1> USE Constants DEF TypeInv, TypeOK
<1>1. \A page \in TabState, n \in Nat :
        /\ Page("home", n) \in TabState /\ Page("game", n) \in TabState
        /\ \A r \in {"win", "lose"} : Told(page, r) \in TabState
        /\ [page EXCEPT !.names = TRUE] \in TabState
        /\ [page EXCEPT !.up = FALSE] \in TabState
        /\ \A b \in BOOLEAN : [page EXCEPT !.opponentOnline = b] \in TabState
        /\ [page EXCEPT !.n = @ + 1, !.up = TRUE] \in TabState
  <2> SUFFICES ASSUME NEW page \in TabState, NEW n \in Nat
               PROVE  /\ Page("home", n) \in TabState /\ Page("game", n) \in TabState
                      /\ \A r \in {"win", "lose"} : Told(page, r) \in TabState
                      /\ [page EXCEPT !.names = TRUE] \in TabState
                      /\ [page EXCEPT !.up = FALSE] \in TabState
                      /\ \A b \in BOOLEAN : [page EXCEPT !.opponentOnline = b] \in TabState
                      /\ [page EXCEPT !.n = @ + 1, !.up = TRUE] \in TabState
    OBVIOUS
  <2>1. Page("home", n) \in TabState /\ Page("game", n) \in TabState
    BY DEF TabState, Page
  <2>2. \A r \in {"win", "lose"} : Told(page, r) \in TabState
    <3>1. TAKE r \in {"win", "lose"}
    <3>2. [page EXCEPT !.result = r, !.names = TRUE] \in TabState
      BY DEF TabState
    <3>3. QED BY <3>2 DEF Told
  <2>3. [page EXCEPT !.names = TRUE] \in TabState /\ [page EXCEPT !.up = FALSE] \in TabState
    BY DEF TabState
  <2>4. ASSUME NEW b \in BOOLEAN PROVE [page EXCEPT !.opponentOnline = b] \in TabState
    BY DEF TabState
  <2>5. [page EXCEPT !.n = @ + 1, !.up = TRUE] \in TabState
    <3>1. \A m \in Nat : [page EXCEPT !.n = m, !.up = TRUE] \in TabState
      BY DEF TabState
    <3>2. page.n + 1 \in Nat
      BY DEF TabState
    <3>3. QED BY <3>1, <3>2
  <2>6. QED BY <2>1, <2>2, <2>3, <2>4, <2>5
<1>2. tab[t] \in TabState /\ tab[t].n \in Nat
  BY DEF TabState
<1>3. ASSUME NEW page \in TabState, Show(t, page)
      PROVE  tab' \in [Tab -> TabState] /\ inbox' \in [Tab -> Seq(Message)]
  BY <1>3 DEF Show
<1>4. CASE Connect(t)
  <2>1. tab' = [tab EXCEPT ![t] = [tab[t] EXCEPT !.n = @ + 1, !.up = TRUE]]
    BY <1>4 DEF Connect
  <2>2. tab' \in [Tab -> TabState]
    BY <2>1, <1>1, <1>2
  <2>3. sock' \in [Socket -> SocketState]
    BY <1>4 DEF Connect, SocketState
  <2>4. QED BY <1>4, <2>2, <2>3 DEF Connect, Decided
<1>5. CASE Deliver(t)
  <2>1. Tail(inbox[t]) \in Seq(Message)
    BY <1>5 DEF Deliver
  <2>2. CASE ReceiveEnd(t)
    <3>1. tab' = [tab EXCEPT ![t] = Told(tab[t], ResultOf(t, Head(inbox[t])))]
      BY <2>2 DEF ReceiveEnd
    <3>2. ResultOf(t, Head(inbox[t])) \in {"win", "lose"}
      BY DEF ResultOf
    <3>3. tab' \in [Tab -> TabState]
      BY <1>1, <1>2, <3>1, <3>2
    <3>4. QED BY <1>5, <2>1, <2>2, <3>3 DEF Deliver, ReceiveEnd, Decided
  <2>3. CASE ReceivePresence(t)
    <3> DEFINE online == Head(inbox[t]) = "opponent_reconnected"
    <3>1. tab' = [tab EXCEPT ![t] = [tab[t] EXCEPT !.opponentOnline = online]]
      BY <2>3 DEF ReceivePresence
    <3>2. online \in BOOLEAN
      OBVIOUS
    <3> HIDE DEF online
    <3>3. tab' \in [Tab -> TabState]
      BY <1>1, <1>2, <3>1, <3>2
    <3>4. QED BY <1>5, <2>1, <2>3, <3>3 DEF Deliver, ReceivePresence, Decided
  <2>4. CASE ReceiveDuplicate(t)
    BY <1>1, <1>2, <1>3, <1>5, <2>4 DEF Deliver, ReceiveDuplicate, Decided
  <2>5. QED BY <1>5, <2>2, <2>3, <2>4 DEF Deliver
<1>6. CASE FetchNames(t)
  <2>1. ResultOf(t, winner) \in {"win", "lose"}
    BY DEF ResultOf
  <2>2. tab' \in [Tab -> TabState]
    BY <1>1, <1>2, <1>6, <2>1 DEF FetchNames
  <2>3. QED BY <1>6, <2>2 DEF FetchNames, Decided
<1>7. CASE Break(t)
  <2>1. [tab[t] EXCEPT !.up = FALSE] \in TabState
    BY <1>1, <1>2
  <2>2. tab' \in [Tab -> TabState] /\ inbox' \in [Tab -> Seq(Message)]
    BY <1>3, <1>7, <2>1 DEF Break
  <2>3. QED BY <1>7, <2>2 DEF Break, Decided
<1>8. CASE Exit(t)
  <2>1. Page("home", tab[t].n) \in TabState
    BY <1>1, <1>2
  <2>2. tab' \in [Tab -> TabState] /\ inbox' \in [Tab -> Seq(Message)]
    BY <1>3, <1>8, <2>1 DEF Exit
  <2>3. QED BY <1>8, <2>2 DEF Exit, Decided
<1>9. CASE Reload(t)
  <2>1. Page("game", tab[t].n) \in TabState
    BY <1>1, <1>2
  <2>2. tab' \in [Tab -> TabState] /\ inbox' \in [Tab -> Seq(Message)]
    BY <1>3, <1>9, <2>1 DEF Reload
  <2>3. QED BY <1>9, <2>2 DEF Reload, Decided
<1>10. CASE Resume(t)
  <2>1. Page("game", tab[t].n) \in TabState
    BY <1>1, <1>2
  <2>2. tab' \in [Tab -> TabState] /\ inbox' \in [Tab -> Seq(Message)]
    BY <1>3, <1>10, <2>1 DEF Resume
  <2>3. QED BY <1>10, <2>2 DEF Resume, Decided
<1>11. QED
  BY <1>4, <1>5, <1>6, <1>7, <1>8, <1>9, <1>10

LEMMA RestartTypes == TypeInv /\ Restart => TypeInv'
<1> SUFFICES ASSUME TypeInv, Restart PROVE TypeInv'
  OBVIOUS
<1>1. sock' \in [Socket -> SocketState]
  BY DEF Restart, SocketState, NoSocket
<1>2. tab' \in [Tab -> TabState] /\ inbox' \in [Tab -> Seq(Message)]
  <2>1. \A page \in TabState : [page EXCEPT !.up = FALSE] \in TabState
    BY DEF TabState
  <2>2. \A t \in Tab : tab[t] \in TabState
    BY DEF TypeInv, TypeOK
  <2>3. tab' = [t \in Tab |-> [tab[t] EXCEPT !.up = FALSE]] /\ inbox' = [t \in Tab |-> <<>>]
    BY DEF Restart
  <2>4. QED BY <2>1, <2>2, <2>3
<1>3. ending' \in Ending /\ Decided'
  BY DEF Restart, TypeInv, TypeOK, Decided, EndingAt, Ending
<1>4. QED
  BY <1>1, <1>2, <1>3 DEF Restart, TypeInv, TypeOK

LEMMA TypeStep == TypeInv /\ [Next]_vars => TypeInv'
<1> SUFFICES ASSUME TypeInv, [Next]_vars PROVE TypeInv'
  OBVIOUS
<1>1. CASE UNCHANGED vars
  BY <1>1 DEF vars, TypeInv, TypeOK, Decided
<1>2. CASE Next
  BY <1>2, ServeTypes, EndTypes, PageTypes, RestartTypes DEF Next
<1>3. QED
  BY <1>1, <1>2

(***************************************************************************)
(* The socket rooms, the connections and the pages are what they are       *)
(* declared to be, whatever breaks, reloads and restarts there are.        *)
(***************************************************************************)
THEOREM SessionTypes == Spec => []TypeOK
<1>1. TypeInv => TypeOK
  BY DEF TypeInv
<1>2. QED
  BY <1>1, TypeInit, TypeStep, PTL DEF Spec

-----------------------------------------------------------------------------
(***************************************************************************)
(* One session.  A socket the server has heard of was opened by its tab    *)
(* already, so a new connection is not in the Set; and the Set only holds  *)
(* sockets whose join_room was accepted.                                   *)
(***************************************************************************)
Opened(x) == sock[x].step # "none" => x[2] <= tab[x[1]].n
Joined(x) == sock[x].open /\ sock[x].step \notin {"none", "arriving"}

SessionInv ==
  /\ \A x, y \in rooms : User(x) = User(y) => x = y
  /\ \A x \in rooms : Joined(x)
  /\ \A x \in Socket : Opened(x)

LEMMA SessionInit == Init => SessionInv
BY DEF Init, SessionInv, Opened, NoSocket

LEMMA SessionServe ==
  ASSUME TypeInv, SessionInv, NEW s \in Socket, Serve(s)
  PROVE  SessionInv'
<1> USE DEF TypeInv, TypeOK
<1>1. CASE Join(s)
  <2>1. s \notin rooms
    BY <1>1 DEF Join, SessionInv, Joined
  <2>2. CASE \E x \in rooms : User(x) = User(s)
    <3>1. rooms' = rooms /\ tab' = tab /\ \A x \in Socket \ {s} : sock'[x] = sock[x]
      BY <1>1, <2>2 DEF Join
    <3>2. sock'[s].step = "none"
      BY <1>1, <2>2 DEF Join, NoSocket
    <3>3. QED BY <2>1, <3>1, <3>2 DEF SessionInv, Joined, Opened, User
  <2>3. CASE ~\E x \in rooms : User(x) = User(s)
    <3>1. rooms' = rooms \union {s} /\ tab' = tab /\ \A x \in Socket \ {s} : sock'[x] = sock[x]
      BY <1>1, <2>3 DEF Join
    <3>2. sock'[s].open /\ sock'[s].step = "reading" /\ sock[s].step = "arriving"
      BY <1>1, <2>3 DEF Join, SocketState
    <3>3. QED BY <2>1, <2>3, <3>1, <3>2 DEF SessionInv, Joined, Opened, User
  <2>4. QED BY <2>2, <2>3
<1>2. CASE ReadState(s) \/ Sync(s)
  <2>1. rooms' = rooms /\ tab' = tab /\ \A x \in Socket \ {s} : sock'[x] = sock[x]
    BY <1>2 DEF ReadState, Sync
  <2>2. sock'[s].open = sock[s].open
    BY <1>2 DEF ReadState, Sync, SocketState
  <2>3. sock[s].step # "none" /\ sock'[s].step \in {"playing", "finished", "done"}
    <3>1. CASE ReadState(s)
      <4>1. sock'[s].step = IF winner = NoWinner THEN "playing" ELSE "finished"
        BY <3>1 DEF ReadState, SocketState
      <4>2. QED BY <3>1, <4>1 DEF ReadState
    <3>2. CASE Sync(s)
      BY <3>2 DEF Sync, SocketState
    <3>3. QED BY <1>2, <3>1, <3>2
  <2>4. QED BY <2>1, <2>2, <2>3 DEF SessionInv, Joined, Opened, User
<1>3. CASE Disconnect(s)
  <2>1. rooms' = rooms \ {s} /\ tab' = tab
    BY <1>3 DEF Disconnect
  <2>2. \A x \in Socket : sock'[x].step = sock[x].step /\ (x # s => sock'[x].open = sock[x].open)
    BY <1>3 DEF Disconnect, SocketState
  <2>3. QED BY <2>1, <2>2 DEF SessionInv, Joined, Opened, User
<1>4. QED
  BY <1>1, <1>2, <1>3 DEF Serve

LEMMA SessionPage ==
  ASSUME TypeInv, SessionInv, NEW t \in Tab,
         Connect(t) \/ Deliver(t) \/ FetchNames(t) \/ Break(t) \/ Exit(t) \/ Reload(t) \/ Resume(t)
  PROVE  SessionInv'
<1> USE DEF TypeInv, TypeOK
<1>1. CASE Connect(t)
  <2> DEFINE n == tab[t].n + 1
             s == <<t, n>>
  <2>1. tab[t].n \in Nat /\ \A u \in Tab : tab[u].n \in Nat
    BY DEF TabState
  <2>2. n \in 1 .. MaxConnects[t]
    <3>1. tab[t].n < MaxConnects[t] /\ MaxConnects[t] \in Nat
      BY <1>1, Constants DEF Connect, MayConnect
    <3>2. QED BY <2>1, <3>1
  <2>3. s \in Socket
    BY <2>2, SocketIsPair
  <2>4. rooms' = rooms /\ \A x \in Socket \ {s} : sock'[x] = sock[x]
    BY <1>1 DEF Connect
  <2>5. tab'[t].n = n /\ \A u \in Tab \ {t} : tab'[u].n = tab[u].n
    BY <1>1, <2>1 DEF Connect, TabState
  <2>6. sock[s].step = "none"
    BY <2>1, <2>3 DEF SessionInv, Opened
  <2>7. s \notin rooms
    BY <2>6 DEF SessionInv, Joined
  <2>8. \A x \in Socket : x[1] \in Tab /\ x[2] \in Nat
    BY SocketIsPair, Constants
  <2> HIDE DEF n
  <2>9. \A x \in Socket : Opened(x)'
    <3>1. ASSUME NEW x \in Socket, x # s, sock'[x].step # "none" PROVE x[2] <= tab'[x[1]].n
      <4>1. x[2] <= tab[x[1]].n
        BY <2>4, <3>1 DEF SessionInv, Opened
      <4>2. tab[x[1]].n <= tab'[x[1]].n
        BY <2>1, <2>5, <2>8 DEF n
      <4>3. tab'[x[1]].n \in Nat
        <5>1. n \in Nat /\ x[1] \in Tab
          BY <2>1, <2>8 DEF n
        <5>2. CASE x[1] = t
          BY <2>5, <5>1, <5>2
        <5>3. CASE x[1] # t
          BY <2>1, <2>5, <5>1, <5>3
        <5>4. QED BY <5>2, <5>3
      <4>4. QED BY <2>1, <2>8, <4>1, <4>2, <4>3
    <3>2. s[2] <= tab'[s[1]].n
      BY <2>1, <2>5 DEF n
    <3>3. QED BY <3>1, <3>2 DEF Opened
  <2>10. QED BY <2>4, <2>7, <2>9 DEF SessionInv, Joined, User
<1>2. CASE ~Connect(t)
  <2>1. rooms' = rooms /\ sock' = sock
    BY <1>2 DEF Deliver, FetchNames, Break, Exit, Reload, Resume
  <2>2. \A u \in Tab : tab'[u].n = tab[u].n
    <3>1. ASSUME NEW page, page.n = tab[t].n, tab' = [tab EXCEPT ![t] = page]
          PROVE  \A u \in Tab : tab'[u].n = tab[u].n
      BY <3>1
    <3>2. tab[t] \in TabState
      OBVIOUS
    <3>3. \A r : Told(tab[t], r).n = tab[t].n
      BY <3>2 DEF Told, TabState
    <3>4. CASE Deliver(t)
      <4>1. CASE ReceiveEnd(t)
        BY <3>1, <3>3, <4>1 DEF ReceiveEnd
      <4>2. CASE ReceivePresence(t)
        BY <3>2, <4>2 DEF ReceivePresence, TabState
      <4>3. CASE ReceiveDuplicate(t)
        BY <4>3 DEF ReceiveDuplicate, Show, Page
      <4>4. QED BY <3>4, <4>1, <4>2, <4>3 DEF Deliver
    <3>5. CASE FetchNames(t)
      <4>1. \A r : Told([tab[t] EXCEPT !.names = TRUE], r).n = tab[t].n
        BY <3>2 DEF Told, TabState
      <4>2. [tab[t] EXCEPT !.names = TRUE].n = tab[t].n
        BY <3>2 DEF TabState
      <4>3. QED BY <3>1, <3>5, <4>1, <4>2 DEF FetchNames
    <3>6. CASE Break(t)
      BY <3>2, <3>6 DEF Break, Show, TabState
    <3>7. CASE Exit(t) \/ Reload(t) \/ Resume(t)
      BY <3>7 DEF Exit, Reload, Resume, Show, Page
    <3>8. QED BY <1>2, <3>4, <3>5, <3>6, <3>7
  <2>3. QED BY <2>1, <2>2, SocketIsPair DEF SessionInv, Joined, Opened, User
<1>3. QED
  BY <1>1, <1>2

LEMMA SessionStep == TypeInv /\ SessionInv /\ [Next]_vars => SessionInv'
<1> SUFFICES ASSUME TypeInv, SessionInv, [Next]_vars PROVE SessionInv'
  OBVIOUS
<1>1. CASE UNCHANGED <<rooms, sock, tab>>
  BY <1>1 DEF SessionInv, Joined, Opened, User
<1>2. CASE Move \/ Answer
  BY <1>1, <1>2 DEF Move, Answer, LookUp, TellEnd, Surrender
<1>3. CASE Restart
  BY <1>3 DEF Restart, SessionInv, Joined, Opened, NoSocket
<1>4. CASE UNCHANGED vars
  BY <1>1, <1>4 DEF vars
<1>5. QED
  BY <1>2, <1>3, <1>4, SessionServe, SessionPage DEF Next

(***************************************************************************)
(* handleJoinRoom: whatever tabs, breaks, reconnections and restarts there *)
(* are, a user has at most one socket in the room, and it is open.         *)
(***************************************************************************)
THEOREM SessionIsOne == Spec => []OneSession
<1>1. SessionInv => OneSession
  BY DEF SessionInv, Joined, OneSession
<1>2. QED
  BY <1>1, TypeInit, TypeStep, SessionInit, SessionStep, PTL DEF Spec

-----------------------------------------------------------------------------
(***************************************************************************)
(* True victories.  Every winner that is on its way to a page is the       *)
(* room's winner, which never changes once there is one.                   *)
(***************************************************************************)
Honest(box) == \A i \in 1 .. Len(box) : box[i] \in Role => box[i] = winner

VictoryInv ==
  /\ \A t \in Tab : Honest(inbox[t])
  /\ VictoryIsTrue

\* A message that names no wrong winner keeps all boxes honest.
LEMMA HonestBroadcast ==
  ASSUME NEW sockets, NEW msg \in Message, msg \in Role => msg = winner,
         NEW boxes \in [Tab -> Seq(Message)], \A t \in Tab : Honest(boxes[t])
  PROVE  \A t \in Tab : Honest(Broadcast(sockets, msg, boxes)[t])
<1> SUFFICES ASSUME NEW t \in Tab PROVE Honest(Broadcast(sockets, msg, boxes)[t])
  OBVIOUS
<1>1. Honest(Append(boxes[t], msg))
  <2>1. boxes[t] \in Seq(Message) /\ Honest(boxes[t])
    OBVIOUS
  <2>2. QED BY <2>1 DEF Honest
<1>2. QED
  BY <1>1, BroadcastType

LEMMA VictoryInit == Init => VictoryInv
BY DEF Init, VictoryInv, Honest, VictoryIsTrue, Page

LEMMA VictoryServe ==
  ASSUME TypeInv, VictoryInv, NEW s \in Socket, Serve(s)
  PROVE  VictoryInv'
<1> USE Constants DEF TypeInv, TypeOK, VictoryInv
<1>1. winner' = winner /\ tab' = tab
  BY DEF Serve, Join, ReadState, Sync, Disconnect
<1>2. \A e \in Event : e \in Message /\ e \notin Role
  BY DEF Message
<1>3. \A t \in Tab : Honest(inbox'[t])
  <2>1. CASE Join(s)
    <3>1. \A t \in Tab : Honest(Broadcast({s}, "duplicate_session", inbox)[t])
      BY <1>2, HonestBroadcast DEF Event
    <3>2. inbox' \in {inbox, Broadcast({s}, "duplicate_session", inbox)}
      BY <2>1 DEF Join
    <3>3. QED BY <3>1, <3>2
  <2>2. CASE ReadState(s)
    BY <2>2 DEF ReadState
  <2>3. CASE Sync(s)
    <3> DEFINE synced == IF sock[s].open /\ sock[s].step = "finished"
                           THEN Broadcast({s}, "over", inbox) ELSE inbox
               again == Broadcast(Members(sock[s].held), "opponent_reconnected", synced)
    <3>1. inbox' \in {synced, again}
      BY <2>3 DEF Sync
    <3>2. synced \in [Tab -> Seq(Message)] /\ \A t \in Tab : Honest(synced[t])
      <4>1. \A t \in Tab : Honest(Broadcast({s}, "over", inbox)[t])
        BY <1>2, HonestBroadcast DEF Event
      <4>2. Broadcast({s}, "over", inbox) \in [Tab -> Seq(Message)]
        BY BroadcastType DEF Message, Event
      <4>3. QED BY <4>1, <4>2
    <3> HIDE DEF synced
    <3>3. \A t \in Tab : Honest(again[t])
      BY <1>2, <3>2, HonestBroadcast DEF Event
    <3>4. QED BY <3>1, <3>2, <3>3
  <2>4. CASE Disconnect(s)
    <3>1. \A t \in Tab : Honest(Broadcast(rooms', "opponent_disconnected", inbox)[t])
      BY <1>2, HonestBroadcast DEF Event
    <3>2. inbox' \in {inbox, Broadcast(rooms', "opponent_disconnected", inbox)}
      BY <2>4 DEF Disconnect
    <3>3. QED BY <3>1, <3>2
  <2>5. QED BY <2>1, <2>2, <2>3, <2>4 DEF Serve
<1>4. QED
  BY <1>1, <1>3 DEF Honest, VictoryIsTrue

LEMMA VictoryEnd ==
  ASSUME TypeInv, VictoryInv, Move \/ Answer
  PROVE  VictoryInv'
<1> USE Constants DEF TypeInv, TypeOK, VictoryInv
<1>1. ASSUME winner = NoWinner, UNCHANGED <<inbox, tab>> PROVE VictoryInv'
  <2>1. \A t \in Tab : \A i \in 1 .. Len(inbox[t]) : inbox[t][i] \notin Role
    BY <1>1 DEF Honest
  <2>2. \A t \in Tab : tab[t].result # "win"
    BY <1>1 DEF VictoryIsTrue
  <2>3. QED BY <1>1, <2>1, <2>2 DEF Honest, VictoryIsTrue
<1>2. ASSUME UNCHANGED <<winner, inbox, tab>> PROVE VictoryInv'
  BY <1>2 DEF Honest, VictoryIsTrue
<1>3. CASE TellEnd
  <2>1. winner' = winner /\ tab' = tab /\ winner \in Message
    BY <1>3 DEF TellEnd, Decided, Message
  <2>2. \A t \in Tab : Honest(inbox'[t])
    BY <1>3, <2>1, HonestBroadcast DEF TellEnd
  <2>3. QED BY <2>1, <2>2 DEF Honest, VictoryIsTrue
<1>4. CASE Move \/ LookUp \/ \E t \in Tab : Surrender(t)
  BY <1>1, <1>2, <1>4 DEF Move, LookUp, Surrender
<1>5. QED
  BY <1>3, <1>4 DEF Answer

LEMMA VictoryPage ==
  ASSUME TypeInv, VictoryInv, NEW t \in Tab,
         Connect(t) \/ Deliver(t) \/ FetchNames(t) \/ Break(t) \/ Exit(t) \/ Reload(t) \/ Resume(t)
  PROVE  VictoryInv'
<1> USE Constants DEF TypeInv, TypeOK, VictoryInv
<1>1. tab[t] \in TabState /\ winner' = winner
  BY DEF Connect, Deliver, FetchNames, Break, Exit, Reload, Resume
<1>2. ASSUME NEW page, page.result = "win" => winner = Player[t], tab' = [tab EXCEPT ![t] = page],
             NEW box, inbox' = [inbox EXCEPT ![t] = box], Honest(box)
      PROVE  VictoryInv'
  BY <1>1, <1>2 DEF Honest, VictoryIsTrue
<1>3. Honest(<<>>) /\ Honest(inbox[t]) /\ inbox = [inbox EXCEPT ![t] = inbox[t]]
  BY DEF Honest
<1>4. CASE Connect(t)
  <2>1. tab' = [tab EXCEPT ![t] = [tab[t] EXCEPT !.n = @ + 1, !.up = TRUE]] /\ inbox' = inbox
    BY <1>4 DEF Connect
  <2>2. [tab[t] EXCEPT !.n = @ + 1, !.up = TRUE].result = tab[t].result
    BY <1>1 DEF TabState
  <2>3. QED BY <1>2, <1>3, <2>1, <2>2 DEF VictoryIsTrue
<1>5. CASE Deliver(t)
  <2>1. inbox[t] \in Seq(Message) /\ inbox[t] # <<>>
    BY <1>5 DEF Deliver
  <2>2. Honest(Tail(inbox[t])) /\ (Head(inbox[t]) \in Role => Head(inbox[t]) = winner)
    BY <1>3, <2>1 DEF Honest
  <2>3. CASE ReceiveEnd(t)
    <3> DEFINE r == ResultOf(t, Head(inbox[t]))
    <3>1. tab' = [tab EXCEPT ![t] = Told(tab[t], r)]
      BY <2>3 DEF ReceiveEnd
    <3>2. r = "win" => winner = Player[t]
      BY <2>2 DEF ResultOf
    <3> HIDE DEF r
    <3>3. Told(tab[t], r).result \in {tab[t].result, r}
      BY <1>1 DEF Told, TabState
    <3>4. QED BY <1>2, <2>2, <2>3, <3>1, <3>2, <3>3 DEF ReceiveEnd, VictoryIsTrue
  <2>4. CASE ReceivePresence(t)
    <3>1. \A b : [tab[t] EXCEPT !.opponentOnline = b].result = tab[t].result
      BY <1>1 DEF TabState
    <3>2. QED BY <1>2, <2>2, <2>4, <3>1 DEF ReceivePresence, VictoryIsTrue
  <2>5. CASE ReceiveDuplicate(t)
    BY <1>2, <1>3, <2>5 DEF ReceiveDuplicate, Show, Page
  <2>6. QED BY <1>5, <2>3, <2>4, <2>5 DEF Deliver
<1>6. CASE FetchNames(t)
  <2> DEFINE named == [tab[t] EXCEPT !.names = TRUE]
             r == ResultOf(t, winner)
  <2>1. named.result = tab[t].result
    BY <1>1 DEF TabState
  <2>2. Told(named, r).result \in {tab[t].result, r}
    BY <1>1 DEF Told, TabState
  <2>3. r = "win" => winner = Player[t]
    BY DEF ResultOf
  <2>4. inbox' = inbox /\ \E page \in {named, Told(named, r)} : tab' = [tab EXCEPT ![t] = page]
    BY <1>6 DEF FetchNames
  <2> HIDE DEF named, r
  <2>5. QED BY <1>2, <1>3, <2>1, <2>2, <2>3, <2>4 DEF VictoryIsTrue
<1>7. CASE Break(t)
  <2>1. [tab[t] EXCEPT !.up = FALSE].result = tab[t].result
    BY <1>1 DEF TabState
  <2>2. QED BY <1>2, <1>3, <1>7, <2>1 DEF Break, Show, VictoryIsTrue
<1>8. CASE Exit(t) \/ Reload(t) \/ Resume(t)
  BY <1>2, <1>3, <1>8 DEF Exit, Reload, Resume, Show, Page
<1>9. QED
  BY <1>4, <1>5, <1>6, <1>7, <1>8

LEMMA VictoryStep == TypeInv /\ VictoryInv /\ [Next]_vars => VictoryInv'
<1> SUFFICES ASSUME TypeInv, VictoryInv, [Next]_vars PROVE VictoryInv'
  OBVIOUS
<1>1. CASE Restart
  <2>1. winner' = winner /\ \A t \in Tab : inbox'[t] = <<>>
    BY <1>1 DEF Restart
  <2>2. \A t \in Tab : tab'[t].result = tab[t].result
    BY <1>1 DEF Restart, TypeInv, TypeOK, TabState
  <2>3. QED BY <2>1, <2>2 DEF VictoryInv, Honest, VictoryIsTrue
<1>2. CASE UNCHANGED vars
  BY <1>2 DEF vars, VictoryInv, Honest, VictoryIsTrue
<1>3. QED
  BY <1>1, <1>2, VictoryServe, VictoryEnd, VictoryPage DEF Next

(***************************************************************************)
(* The result of the page: however messages, breaks and reloads interleave *)
(* with the end of the match, a victory is shown to the winner only.       *)
(***************************************************************************)
THEOREM VictoriesAreTrue == Spec => []VictoryIsTrue
<1>1. VictoryInv => VictoryIsTrue
  BY DEF VictoryInv
<1>2. QED
  BY <1>1, TypeInit, TypeStep, VictoryInit, VictoryStep, PTL DEF Spec

-----------------------------------------------------------------------------
(***************************************************************************)
(* No false alarm.  The handler of the second of two players that join     *)
(* ends by telling both that the opponent is there, and from then on       *)
(* neither hears of a disconnection without the room losing a socket.      *)
(***************************************************************************)
Linked(x) == tab[x[1]].up /\ Current(x[1]) = x

\* A page with this opponentOnline and this inbox ends up showing the opponent.
Reassured(online, box) ==
  \/ \E i \in 1 .. Len(box) : /\ box[i] = "opponent_reconnected"
                              /\ \A j \in i + 1 .. Len(box) : box[j] # "opponent_disconnected"
  \/ online /\ \A j \in 1 .. Len(box) : box[j] # "opponent_disconnected"

Calm(x) == Linked(x) => Reassured(tab[x[1]].opponentOnline, inbox[x[1]])

AlarmInv ==
  /\ \A x \in rooms : sock[x].step # "done" => sock[x].held
  /\ \A x, y \in rooms : x # y /\ sock[x].step = "done" /\ sock[y].step = "done" => Calm(x)

\* Anything but a disconnection leaves a box reassuring; a reconnection makes it so.
LEMMA ReassuredAppend ==
  ASSUME NEW box \in Seq(Message), NEW msg \in Message, NEW online
  PROVE  /\ Reassured(online, box) /\ msg # "opponent_disconnected" => Reassured(online, Append(box, msg))
         /\ msg = "opponent_reconnected" => Reassured(online, Append(box, msg))
<1> DEFINE long == Append(box, msg)
<1>1. /\ Len(box) \in Nat /\ Len(long) = Len(box) + 1 /\ long[Len(box) + 1] = msg
      /\ \A i \in 1 .. Len(box) : long[i] = box[i]
  OBVIOUS
<1> HIDE DEF long
<1>2. ASSUME Reassured(online, box), msg # "opponent_disconnected" PROVE Reassured(online, long)
  <2>1. CASE online /\ \A j \in 1 .. Len(box) : box[j] # "opponent_disconnected"
    BY <1>1, <1>2, <2>1 DEF Reassured
  <2>2. ASSUME NEW i \in 1 .. Len(box), box[i] = "opponent_reconnected",
               \A j \in i + 1 .. Len(box) : box[j] # "opponent_disconnected"
        PROVE  Reassured(online, long)
    <3>1. i \in 1 .. Len(long) /\ long[i] = "opponent_reconnected"
      BY <1>1, <2>2
    <3>2. \A j \in i + 1 .. Len(long) : long[j] # "opponent_disconnected"
      BY <1>1, <1>2, <2>2
    <3>3. QED BY <3>1, <3>2 DEF Reassured
  <2>3. QED BY <1>2, <2>1, <2>2 DEF Reassured
<1>3. ASSUME msg = "opponent_reconnected" PROVE Reassured(online, long)
  <2>1. Len(box) + 1 \in 1 .. Len(long) /\ (Len(box) + 1) + 1 .. Len(long) = {}
    BY <1>1
  <2>2. QED BY <1>1, <1>3, <2>1 DEF Reassured
<1>4. QED BY <1>2, <1>3 DEF long

\* What a page makes of the next message does not change where it ends up.
LEMMA ReassuredTail ==
  ASSUME NEW box \in Seq(Message), box # <<>>, NEW online, Reassured(online, box)
  PROVE  /\ Head(box) \in {"opponent_disconnected", "opponent_reconnected"}
              => Reassured(Head(box) = "opponent_reconnected", Tail(box))
         /\ Head(box) \notin {"opponent_disconnected", "opponent_reconnected"}
              => Reassured(online, Tail(box))
<1> DEFINE rest == Tail(box)
           Later == \E i \in 2 .. Len(box) :
                      /\ box[i] = "opponent_reconnected"
                      /\ \A j \in i + 1 .. Len(box) : box[j] # "opponent_disconnected"
           First == /\ \A j \in 2 .. Len(box) : box[j] # "opponent_disconnected"
                    /\ \/ box[1] = "opponent_reconnected"
                       \/ online /\ box[1] # "opponent_disconnected"
<1>1. /\ Len(box) \in Nat \ {0} /\ Len(rest) = Len(box) - 1 /\ Head(box) = box[1]
      /\ \A i \in 1 .. Len(rest) : rest[i] = box[i + 1]
  OBVIOUS
<1> HIDE DEF rest
<1>2. ASSUME NEW i \in 2 .. Len(box), box[i] = "opponent_reconnected",
             \A j \in i + 1 .. Len(box) : box[j] # "opponent_disconnected"
      PROVE  \A b : Reassured(b, rest)
  <2>1. i - 1 \in 1 .. Len(rest) /\ rest[i - 1] = "opponent_reconnected"
    BY <1>1, <1>2
  <2>2. \A j \in (i - 1) + 1 .. Len(rest) : rest[j] # "opponent_disconnected"
    BY <1>1, <1>2
  <2>3. QED BY <2>1, <2>2 DEF Reassured
<1>3. ASSUME \A j \in 2 .. Len(box) : box[j] # "opponent_disconnected"
      PROVE  \A j \in 1 .. Len(rest) : rest[j] # "opponent_disconnected"
  BY <1>1, <1>3
<1>4. CASE Later
  BY <1>2, <1>4 DEF rest
<1>5. CASE First
  <2>1. \A j \in 1 .. Len(rest) : rest[j] # "opponent_disconnected"
    BY <1>3, <1>5
  <2>2. \A b : b => Reassured(b, rest)
    BY <2>1 DEF Reassured
  <2>3. QED BY <1>1, <1>5, <2>2 DEF rest
<1>6. Later \/ First
  <2>1. CASE online /\ \A j \in 1 .. Len(box) : box[j] # "opponent_disconnected"
    <3>1. 1 \in 1 .. Len(box) /\ 2 .. Len(box) \subseteq 1 .. Len(box)
      BY <1>1
    <3>2. QED BY <2>1, <3>1
  <2>2. ASSUME NEW i \in 1 .. Len(box), box[i] = "opponent_reconnected",
               \A j \in i + 1 .. Len(box) : box[j] # "opponent_disconnected"
        PROVE  Later \/ First
    <3>1. CASE i = 1
      BY <2>2, <3>1
    <3>2. CASE i # 1
      <4>1. i \in 2 .. Len(box)
        BY <1>1, <3>2
      <4>2. QED BY <2>2, <4>1
    <3>3. QED BY <3>1, <3>2
  <2>3. QED BY <2>1, <2>2 DEF Reassured
<1>7. QED BY <1>4, <1>5, <1>6

LEMMA AlarmInit == Init => AlarmInv
BY DEF Init, AlarmInv

\* Nothing but the boxes of the pages behind a socket changes by a broadcast.
LEMMA CalmBroadcast ==
  ASSUME TypeInv, NEW sockets, NEW msg \in Message, NEW boxes \in [Tab -> Seq(Message)],
         inbox' = Broadcast(sockets, msg, boxes), tab' = tab, NEW x \in Socket
  PROVE  /\ /\ Linked(x) => Reassured(tab[x[1]].opponentOnline, boxes[x[1]])
            /\ msg # "opponent_disconnected"
            => Calm(x)'
         /\ msg = "opponent_reconnected" /\ x \in sockets => Calm(x)'
<1> DEFINE t == x[1]
<1>1. t \in Tab /\ boxes[t] \in Seq(Message)
  BY SocketIsPair
<1>2. inbox'[t] = IF tab[t].up /\ Current(t) \in sockets THEN Append(boxes[t], msg) ELSE boxes[t]
  BY <1>1 DEF Broadcast
<1>3. Linked(x)' <=> Linked(x)
  BY DEF Linked, Current
<1>4. QED BY <1>1, <1>2, <1>3, ReassuredAppend DEF Calm, Linked

\* A step that does not touch the sockets in the room and keeps them calm.
LEMMA StaysCalm ==
  ASSUME AlarmInv, rooms' \subseteq rooms,
         \A x \in rooms' : /\ sock'[x].step = sock[x].step /\ sock'[x].held = sock[x].held
                           /\ Calm(x) => Calm(x)'
  PROVE  AlarmInv'
BY DEF AlarmInv

\* There are two players, and each has one socket in the room at most.
LEMMA TwoInRoom ==
  ASSUME TypeInv, SessionInv, NEW x \in rooms, NEW y \in rooms, NEW z \in Socket,
         User(z) # User(x), User(z) # User(y)
  PROVE  x = y
<1>1. \A u \in Socket : User(u) \in Role
  BY Constants, SocketIsPair DEF User
<1>2. x \in Socket /\ y \in Socket
  BY DEF TypeInv, TypeOK
<1>3. User(x) = User(y)
  BY <1>1, <1>2 DEF Role
<1>4. QED BY <1>3 DEF SessionInv

LEMMA AlarmServe ==
  ASSUME TypeInv, SessionInv, AlarmInv, NEW s \in Socket, Serve(s)
  PROVE  AlarmInv'
<1> USE DEF TypeInv, TypeOK
<1>1. \A e \in Event : e \in Message
  BY DEF Message
<1>2. CASE Join(s)
  <2>1. s \notin rooms
    BY <1>2 DEF Join, SessionInv, Joined
  <2>2. CASE \E x \in rooms : User(x) = User(s)
    <3>1. /\ rooms' = rooms /\ tab' = tab /\ inbox' = Broadcast({s}, "duplicate_session", inbox)
          /\ \A x \in Socket \ {s} : sock'[x] = sock[x]
      BY <1>2, <2>2 DEF Join
    <3>2. \A x \in rooms : Calm(x) => Calm(x)'
      BY <1>1, <3>1, CalmBroadcast DEF Event, Calm
    <3>3. QED BY <2>1, <3>1, <3>2, StaysCalm
  <2>3. CASE ~\E x \in rooms : User(x) = User(s)
    <3>1. /\ rooms' = rooms \union {s} /\ sock'[s].step = "reading" /\ sock'[s].held
          /\ \A x \in Socket \ {s} : sock'[x] = sock[x]
      BY <1>2, <2>3 DEF Join, SocketState
    <3>2. \A x \in rooms' : sock'[x].step # "done" => sock'[x].held
      BY <2>1, <3>1 DEF AlarmInv
    <3>3. \A x, y \in rooms : x = y
      BY <2>3, TwoInRoom
    <3>4. QED BY <3>1, <3>2, <3>3 DEF AlarmInv
  <2>4. QED BY <2>2, <2>3
<1>3. CASE ReadState(s)
  <2>1. /\ rooms' = rooms /\ inbox' = inbox /\ tab' = tab
        /\ \A x \in Socket \ {s} : sock'[x] = sock[x]
    BY <1>3 DEF ReadState
  <2>2. sock[s].step = "reading" /\ sock'[s].step # "done" /\ sock'[s].held = sock[s].held
    BY <1>3 DEF ReadState, SocketState
  <2>3. \A x : Calm(x)' <=> Calm(x)
    BY <2>1 DEF Calm, Linked, Current
  <2>4. \A x \in rooms' : sock'[x].step # "done" => sock'[x].held
    BY <2>1, <2>2 DEF AlarmInv
  <2>5. \A x \in rooms' : sock'[x].step = "done" => sock[x].step = "done"
    BY <2>1, <2>2
  <2> HIDE DEF Calm
  <2>6. QED BY <2>1, <2>3, <2>4, <2>5 DEF AlarmInv
<1>4. CASE Sync(s)
  <2> DEFINE members == Members(sock[s].held)
             synced == IF sock[s].open /\ sock[s].step = "finished"
                         THEN Broadcast({s}, "over", inbox) ELSE inbox
  <2>1. /\ rooms' = rooms /\ tab' = tab /\ sock[s].step # "done"
        /\ \A x \in Socket \ {s} : sock'[x] = sock[x]
    BY <1>4 DEF Sync
  <2>2. sock'[s].step = "done"
    BY <1>4 DEF Sync, SocketState
  <2>3. \A x \in rooms : sock'[x].step # "done" => sock'[x].held
    BY <2>1, <2>2 DEF AlarmInv
  <2>4. /\ synced \in [Tab -> Seq(Message)]
        /\ \A x \in rooms : Calm(x) => (Linked(x) => Reassured(tab[x[1]].opponentOnline, synced[x[1]]))
    <3> DEFINE over == Broadcast({s}, "over", inbox)
    <3>1. "over" \in Message
      BY <1>1 DEF Event
    <3>2. over \in [Tab -> Seq(Message)] /\ \A t \in Tab : over[t] \in {inbox[t], Append(inbox[t], "over")}
      BY <3>1, BroadcastType
    <3>3. \A x \in rooms : x[1] \in Tab
      BY SocketIsPair
    <3>4. \A t \in Tab : \A b : Reassured(b, inbox[t]) => Reassured(b, over[t])
      BY <3>1, <3>2, ReassuredAppend
    <3>5. QED BY <3>2, <3>3, <3>4 DEF Calm
  <2>5. CASE \E x, y \in members : x # y
    <3>1. inbox' = Broadcast(members, "opponent_reconnected", synced)
      BY <1>4, <2>5 DEF Sync
    <3>2. members = rooms
      BY <2>5 DEF Members
    <3> HIDE DEF members, synced
    <3>3. \A x \in rooms : Calm(x)'
      BY <1>1, <2>1, <2>4, <3>1, <3>2, CalmBroadcast DEF Event
    <3>4. QED BY <2>1, <2>3, <3>3 DEF AlarmInv
  <2>6. CASE ~\E x, y \in members : x # y
    <3>1. inbox' = synced
      BY <1>4, <2>6 DEF Sync
    <3>2. CASE s \in rooms
      <4>1. members = rooms
        BY <2>1, <3>2 DEF AlarmInv, Members
      <4>2. QED BY <2>1, <2>3, <2>6, <4>1 DEF AlarmInv
    <3>3. CASE s \notin rooms
      <4>1. \A x \in rooms : Calm(x) => Calm(x)'
        <5> HIDE DEF synced
        <5>1. \A x : Linked(x)' <=> Linked(x)
          BY <2>1 DEF Linked, Current
        <5>2. QED BY <2>1, <2>4, <3>1, <5>1 DEF Calm
      <4>2. QED BY <2>1, <3>3, <4>1, StaysCalm
    <3>4. QED BY <3>2, <3>3
  <2>7. QED BY <2>5, <2>6
<1>5. CASE Disconnect(s)
  <2>1. rooms' = rooms \ {s} /\ tab' = tab
    BY <1>5 DEF Disconnect
  <2>2. \A x \in rooms' : sock'[x].step = sock[x].step /\ sock'[x].held = sock[x].held
    BY <1>5, <2>1 DEF Disconnect, SocketState
  <2>3. CASE s \in rooms
    <3>1. \A x, y \in rooms' : x = y
      <4>1. \A x \in rooms' : x \in Socket /\ x \in rooms /\ User(x) # User(s)
        BY <2>1, <2>3 DEF SessionInv
      <4>2. QED BY <4>1, TwoInRoom
    <3>2. QED BY <2>1, <2>2, <3>1 DEF AlarmInv
  <2>4. CASE s \notin rooms
    <3>1. inbox' = inbox
      BY <1>5, <2>4 DEF Disconnect
    <3>2. \A x : Calm(x)' <=> Calm(x)
      BY <2>1, <3>1 DEF Calm, Linked, Current
    <3>3. QED BY <2>1, <2>2, <3>2, StaysCalm
  <2>5. QED BY <2>3, <2>4
<1>6. QED BY <1>2, <1>3, <1>4, <1>5 DEF Serve

LEMMA AlarmPage ==
  ASSUME TypeInv, SessionInv, AlarmInv, NEW t \in Tab,
         Connect(t) \/ Deliver(t) \/ FetchNames(t) \/ Break(t) \/ Exit(t) \/ Reload(t) \/ Resume(t)
  PROVE  AlarmInv'
<1> USE DEF TypeInv, TypeOK
<1>1. tab[t] \in TabState /\ rooms' = rooms
  BY DEF Connect, Deliver, FetchNames, Break, Exit, Reload, Resume
<1>2. ASSUME sock' = sock, NEW page, tab' = [tab EXCEPT ![t] = page],
             NEW box, inbox' = [inbox EXCEPT ![t] = box],
             page.up => /\ tab[t].up /\ page.n = tab[t].n
                        /\ Reassured(tab[t].opponentOnline, inbox[t]) => Reassured(page.opponentOnline, box)
      PROVE  AlarmInv'
  <2>1. \A x \in rooms : Calm(x) => Calm(x)'
    <3> SUFFICES ASSUME NEW x \in rooms, Calm(x) PROVE Calm(x)'
      OBVIOUS
    <3>1. CASE x[1] # t
      BY <1>2, <3>1 DEF Calm, Linked, Current
    <3>2. CASE x[1] = t
      <4>1. tab'[t] = page /\ inbox'[t] = box
        BY <1>2
      <4>2. QED BY <1>2, <3>2, <4>1 DEF Calm, Linked, Current
    <3>3. QED BY <3>1, <3>2
  <2>2. QED BY <1>1, <1>2, <2>1, StaysCalm
<1>3. inbox = [inbox EXCEPT ![t] = inbox[t]]
  OBVIOUS
<1>4. CASE Connect(t)
  <2> DEFINE n == tab[t].n + 1
             s == <<t, n>>
  <2>1. tab[t].n \in Nat /\ n \in 1 .. MaxConnects[t]
    <3>1. tab[t].n < MaxConnects[t] /\ MaxConnects[t] \in Nat /\ tab[t].n \in Nat
      BY <1>4, Constants DEF Connect, MayConnect, TabState
    <3>2. QED BY <3>1
  <2>2. s \in Socket
    BY <2>1, SocketIsPair
  <2>3. sock[s].step = "none"
    BY <2>1, <2>2 DEF SessionInv, Opened
  <2>4. s \notin rooms
    BY <2>3 DEF SessionInv, Joined
  <2>5. inbox' = inbox /\ tab'[t].n = n /\ \A u \in Tab \ {t} : tab'[u] = tab[u]
    BY <1>4 DEF Connect, TabState
  <2>6. \A x \in Socket \ {s} : sock'[x] = sock[x]
    BY <1>4 DEF Connect
  <2>7. ASSUME NEW x \in rooms, Calm(x) PROVE Calm(x)'
    <3>1. CASE x[1] # t
      BY <2>5, <2>7, <3>1, SocketIsPair DEF Calm, Linked, Current
    <3>2. CASE x[1] = t
      <4>1. Current(x[1])' = s
        BY <2>5, <3>2 DEF Current
      <4>2. QED BY <2>4, <4>1 DEF Calm, Linked
    <3>3. QED BY <3>1, <3>2
  <2>8. QED BY <1>1, <2>4, <2>6, <2>7, StaysCalm
<1>5. CASE Deliver(t)
  <2>1. inbox[t] \in Seq(Message) /\ inbox[t] # <<>> /\ sock' = sock
    BY <1>5 DEF Deliver
  <2>2. CASE ReceiveEnd(t)
    <3> DEFINE page == Told(tab[t], ResultOf(t, Head(inbox[t])))
    <3>1. page.up = tab[t].up /\ page.n = tab[t].n /\ page.opponentOnline = tab[t].opponentOnline
      BY <1>1 DEF Told, TabState
    <3>2. Head(inbox[t]) \notin {"opponent_disconnected", "opponent_reconnected"}
      BY <2>2, Constants DEF ReceiveEnd, Event
    <3>3. tab' = [tab EXCEPT ![t] = page] /\ inbox' = [inbox EXCEPT ![t] = Tail(inbox[t])]
      BY <2>2 DEF ReceiveEnd
    <3> HIDE DEF page
    <3>4. QED BY <1>2, <2>1, <3>1, <3>2, <3>3, ReassuredTail
  <2>3. CASE ReceivePresence(t)
    <3> DEFINE online == Head(inbox[t]) = "opponent_reconnected"
               page == [tab[t] EXCEPT !.opponentOnline = online]
    <3>1. page.up = tab[t].up /\ page.n = tab[t].n /\ page.opponentOnline = online
      BY <1>1 DEF TabState
    <3>2. tab' = [tab EXCEPT ![t] = page] /\ inbox' = [inbox EXCEPT ![t] = Tail(inbox[t])]
      BY <2>3 DEF ReceivePresence
    <3>3. Reassured(tab[t].opponentOnline, inbox[t]) => Reassured(online, Tail(inbox[t]))
      BY <2>1, <2>3, ReassuredTail DEF ReceivePresence
    <3> HIDE DEF page, online
    <3>4. QED BY <1>2, <2>1, <3>1, <3>2, <3>3
  <2>4. CASE ReceiveDuplicate(t)
    <3> DEFINE home == Page("home", tab[t].n)
    <3>1. ~home.up
      BY DEF Page
    <3>2. tab' = [tab EXCEPT ![t] = home] /\ inbox' = [inbox EXCEPT ![t] = <<>>]
      BY <2>4 DEF ReceiveDuplicate, Show
    <3> HIDE DEF home
    <3>3. QED BY <1>2, <2>1, <3>1, <3>2
  <2>5. QED BY <1>5, <2>2, <2>3, <2>4 DEF Deliver
<1>6. CASE FetchNames(t)
  <2> DEFINE named == [tab[t] EXCEPT !.names = TRUE]
             told == Told(named, ResultOf(t, winner))
  <2>1. \A page \in {named, told} : /\ page.up = tab[t].up /\ page.n = tab[t].n
                                    /\ page.opponentOnline = tab[t].opponentOnline
    BY <1>1 DEF Told, TabState
  <2>2. sock' = sock /\ inbox' = inbox /\ \E page \in {named, told} : tab' = [tab EXCEPT ![t] = page]
    BY <1>6 DEF FetchNames
  <2> HIDE DEF named, told
  <2>3. QED BY <1>2, <1>3, <2>1, <2>2
<1>7. CASE Break(t)
  <2>1. ~[tab[t] EXCEPT !.up = FALSE].up
    BY <1>1 DEF TabState
  <2>2. QED BY <1>2, <1>7, <2>1 DEF Break, Show
<1>8. CASE Exit(t) \/ Reload(t) \/ Resume(t)
  BY <1>2, <1>8 DEF Exit, Reload, Resume, Show, Page
<1>9. QED
  BY <1>4, <1>5, <1>6, <1>7, <1>8

LEMMA AlarmStep == TypeInv /\ SessionInv /\ AlarmInv /\ [Next]_vars => AlarmInv'
<1> SUFFICES ASSUME TypeInv, SessionInv, AlarmInv, [Next]_vars PROVE AlarmInv'
  OBVIOUS
<1>1. CASE TellEnd
  <2>1. /\ UNCHANGED <<rooms, sock, tab>> /\ winner \in Role /\ winner \in Message
        /\ inbox' = Broadcast(Members(ending.held \/ ending.pc = "surrendered"), winner, inbox)
    BY <1>1 DEF TellEnd, TypeInv, Decided, Message
  <2>2. winner # "opponent_disconnected"
    BY <2>1, Constants DEF Event
  <2>3. \A x \in rooms : Calm(x) => Calm(x)'
    BY <2>1, <2>2, CalmBroadcast DEF Calm, TypeInv, TypeOK
  <2>4. QED BY <2>1, <2>3, StaysCalm
<1>2. ASSUME UNCHANGED <<rooms, sock, tab, inbox>> PROVE AlarmInv'
  BY <1>2 DEF AlarmInv, Calm, Linked, Current
<1>3. CASE Move \/ LookUp \/ \E t \in Tab : Surrender(t)
  BY <1>2, <1>3 DEF Move, LookUp, Surrender
<1>4. CASE Restart
  BY <1>4 DEF Restart, AlarmInv
<1>5. CASE UNCHANGED vars
  BY <1>2, <1>5 DEF vars
<1>6. QED
  BY <1>1, <1>3, <1>4, <1>5, AlarmServe, AlarmPage DEF Next, Answer

(***************************************************************************)
(* The banner "Opponent disconnected": in whatever order the players, of   *)
(* any number of tabs and connections, left and came back, it is gone when *)
(* both are connected and every message has arrived.                       *)
(***************************************************************************)
THEOREM BannerGoes == Spec => []NoFalseAlarm
<1>1. TypeInv /\ AlarmInv => NoFalseAlarm
  <2> SUFFICES ASSUME TypeInv, AlarmInv, Quiet, NEW x \in rooms, NEW y \in rooms, x # y, NEW s \in rooms
               PROVE  tab[s[1]].opponentOnline
    BY DEF NoFalseAlarm
  <2>1. sock[s].step = "done" /\ Linked(s) /\ s[1] \in Tab
    BY SocketIsPair DEF Quiet, Linked, TypeInv, TypeOK
  <2>2. PICK z \in rooms : z # s /\ sock[z].step = "done"
    BY DEF Quiet
  <2>3. Reassured(tab[s[1]].opponentOnline, inbox[s[1]]) /\ inbox[s[1]] = <<>>
    BY <2>1, <2>2 DEF AlarmInv, Calm, Quiet
  <2>4. QED BY <2>3 DEF Reassured
<1>2. QED
  BY <1>1, TypeInit, TypeStep, SessionInit, SessionStep, AlarmInit, AlarmStep, PTL DEF Spec

-----------------------------------------------------------------------------
(***************************************************************************)
(* Nobody is left out.  A socket is taken out of the Set only when its     *)
(* page has left it, a refusal puts its message into the inbox, and a page *)
(* reads that message only to go home.                                     *)
(***************************************************************************)
Refused(box) == \E i \in DOMAIN box : box[i] = "duplicate_session"

IsIn(t) ==
  /\ Current(t) \in Socket
  /\ Current(t) \in rooms \/ sock[Current(t)].step = "arriving" \/ Refused(inbox[t])

InInv == \A t \in Tab : tab[t].up => IsIn(t)

\* What is broadcast does not take a refusal away.
LEMMA RefusedStays ==
  ASSUME NEW sockets, NEW msg \in Message, NEW boxes \in [Tab -> Seq(Message)], NEW t \in Tab,
         Refused(boxes[t])
  PROVE  Refused(Broadcast(sockets, msg, boxes)[t])
<1> DEFINE box == boxes[t]
<1>1. box \in Seq(Message)
  OBVIOUS
<1>2. PICK i \in DOMAIN box : box[i] = "duplicate_session"
  BY DEF Refused
<1> HIDE DEF box
<1>3. i \in DOMAIN Append(box, msg) /\ Append(box, msg)[i] = "duplicate_session"
  BY <1>1, <1>2
<1>4. Refused(box) /\ Refused(Append(box, msg))
  BY <1>2, <1>3 DEF Refused
<1>5. QED BY <1>4, BroadcastType DEF box

LEMMA InServe ==
  ASSUME TypeInv, InInv, NEW s \in Socket, Serve(s)
  PROVE  InInv'
<1> USE DEF TypeInv, TypeOK
<1> SUFFICES ASSUME NEW t \in Tab, tab[t].up PROVE IsIn(t)'
  BY DEF InInv, Serve, Join, ReadState, Sync, Disconnect
<1>1. IsIn(t) /\ tab' = tab /\ Current(t)' = Current(t) /\ Current(t) \in Socket
  BY DEF InInv, IsIn, Serve, Join, ReadState, Sync, Disconnect, Current
<1>2. \A sockets : \A msg \in Event : Broadcast(sockets, msg, inbox) \in [Tab -> Seq(Message)]
                                    /\ (Refused(inbox[t]) => Refused(Broadcast(sockets, msg, inbox)[t]))
  BY BroadcastType, RefusedStays DEF Message
<1>3. CASE Join(s)
  <2>1. CASE \E x \in rooms : User(x) = User(s)
    <3>1. /\ rooms' = rooms /\ \A x \in Socket \ {s} : sock'[x] = sock[x]
          /\ inbox' = Broadcast({s}, "duplicate_session", inbox)
      BY <1>3, <2>1 DEF Join
    <3>2. CASE Current(t) = s
      <4>1. inbox'[t] = Append(inbox[t], "duplicate_session")
        BY <3>1, <3>2 DEF Broadcast
      <4>2. inbox[t] \in Seq(Message) /\ "duplicate_session" \in Message
        BY DEF Message, Event
      <4>3. Refused(inbox'[t])
        <5> DEFINE box == inbox[t]
        <5>1. box \in Seq(Message)
          BY <4>2
        <5> HIDE DEF box
        <5>2. /\ Len(box) + 1 \in DOMAIN Append(box, "duplicate_session")
              /\ Append(box, "duplicate_session")[Len(box) + 1] = "duplicate_session"
          BY <4>2, <5>1
        <5>3. QED BY <4>1, <5>2 DEF Refused, box
      <4>4. QED BY <1>1, <4>3 DEF IsIn
    <3>3. CASE Current(t) # s
      <4>1. Refused(inbox[t]) => Refused(inbox'[t])
        BY <1>2, <3>1 DEF Event
      <4>2. sock[Current(t)].step = "arriving" => sock'[Current(t)].step = "arriving"
        BY <1>1, <3>1, <3>3
      <4>3. QED BY <1>1, <3>1, <4>1, <4>2 DEF IsIn
    <3>4. QED BY <3>2, <3>3
  <2>2. CASE ~\E x \in rooms : User(x) = User(s)
    <3>1. /\ rooms' = rooms \union {s} /\ inbox' = inbox
          /\ sock' = [sock EXCEPT ![s].step = "reading", ![s].held = TRUE]
      BY <1>3, <2>2 DEF Join
    <3>2. Current(t) # s => sock'[Current(t)] = sock[Current(t)]
      BY <1>1, <3>1
    <3>3. QED BY <1>1, <3>1, <3>2 DEF IsIn
  <2>3. QED BY <2>1, <2>2
<1>4. CASE ReadState(s) \/ Sync(s)
  <2>1. rooms' = rooms /\ sock[s].step # "arriving"
    BY <1>4 DEF ReadState, Sync
  <2>2. Current(t) # s => sock'[Current(t)] = sock[Current(t)]
    BY <1>1, <1>4 DEF ReadState, Sync
  <2>3. Refused(inbox[t]) => Refused(inbox'[t])
    <3>1. CASE ReadState(s)
      BY <3>1 DEF ReadState
    <3>2. CASE Sync(s)
      <4> DEFINE synced == IF sock[s].open /\ sock[s].step = "finished"
                             THEN Broadcast({s}, "over", inbox) ELSE inbox
      <4>1. synced \in [Tab -> Seq(Message)] /\ (Refused(inbox[t]) => Refused(synced[t]))
        BY <1>2 DEF Event
      <4>2. inbox' \in {synced, Broadcast(Members(sock[s].held), "opponent_reconnected", synced)}
        BY <3>2 DEF Sync
      <4> HIDE DEF synced
      <4>3. QED BY <4>1, <4>2, RefusedStays DEF Message, Event
    <3>3. QED BY <1>4, <3>1, <3>2
  <2>4. QED BY <1>1, <2>1, <2>2, <2>3 DEF IsIn
<1>5. CASE Disconnect(s)
  <2>1. rooms' = rooms \ {s} /\ Current(t) # s
    <3>1. rooms' = rooms \ {s} /\ (~tab[s[1]].up \/ Current(s[1]) # s)
      BY <1>5 DEF Disconnect
    <3>2. Current(t)[1] = t
      BY DEF Current
    <3>3. QED BY <3>1, <3>2
  <2>2. \A x \in Socket : sock'[x].step = sock[x].step
    BY <1>5 DEF Disconnect, SocketState
  <2>3. sock[Current(t)].step = "arriving" => sock'[Current(t)].step = "arriving"
    BY <1>1, <2>2
  <2>4. Refused(inbox[t]) => Refused(inbox'[t])
    BY <1>2, <1>5 DEF Disconnect, Event
  <2>5. QED BY <1>1, <2>1, <2>3, <2>4 DEF IsIn
<1>6. QED BY <1>3, <1>4, <1>5 DEF Serve
LEMMA InPage ==
  ASSUME TypeInv, InInv, NEW u \in Tab,
         Connect(u) \/ Deliver(u) \/ FetchNames(u) \/ Break(u) \/ Exit(u) \/ Reload(u) \/ Resume(u)
  PROVE  InInv'
<1> USE DEF TypeInv, TypeOK
<1>1. CASE Connect(u)
  <2> DEFINE n == tab[u].n + 1
             s == <<u, n>>
  <2>1. tab[u].n \in Nat /\ tab[u].n < MaxConnects[u] /\ MaxConnects[u] \in Nat
    BY <1>1, Constants DEF Connect, MayConnect, TabState
  <2>2. s \in Socket
    BY <2>1, SocketIsPair
  <2>3. /\ tab'[u].n = n /\ \A t \in Tab \ {u} : tab'[t] = tab[t]
        /\ rooms' = rooms /\ inbox' = inbox
        /\ sock'[s].step = "arriving" /\ \A x \in Socket \ {s} : sock'[x] = sock[x]
    BY <1>1, <2>2 DEF Connect, TabState, SocketState
  <2> HIDE DEF n
  <2>4. IsIn(u)'
    BY <2>2, <2>3 DEF IsIn, Current
  <2>5. ASSUME NEW t \in Tab \ {u}, tab'[t].up PROVE IsIn(t)'
    <3>1. IsIn(t) /\ Current(t)' = Current(t)
      BY <2>3, <2>5 DEF InInv, Current
    <3>2. Current(t) # s
      BY <2>5 DEF Current
    <3>3. QED BY <2>3, <3>1, <3>2 DEF IsIn
  <2>6. QED BY <2>4, <2>5 DEF InInv
<1>2. ASSUME ~Connect(u), NEW t \in Tab, tab'[t].up PROVE IsIn(t)'
  <2>1. UNCHANGED <<rooms, sock>>
    BY <1>2 DEF Deliver, FetchNames, Break, Exit, Reload, Resume
  <2>2. CASE t # u
    <3>1. tab'[t] = tab[t] /\ inbox'[t] = inbox[t]
      BY <1>2, <2>2 DEF Deliver, ReceiveEnd, ReceivePresence, ReceiveDuplicate, FetchNames,
                        Break, Exit, Reload, Resume, Show
    <3>2. QED BY <1>2, <2>1, <3>1 DEF InInv, IsIn, Current
  <2>3. CASE t = u
    <3>1. \A r : Told(tab[u], r).n = tab[u].n /\ Told(tab[u], r).up = tab[u].up
      BY DEF Told, TabState
    <3>2. ~Break(u) /\ ~Exit(u) /\ ~Reload(u) /\ ~Resume(u)
      BY <1>2, <2>3 DEF Break, Exit, Reload, Resume, Show, Page, TabState
    <3>3. CASE FetchNames(u)
      <4> DEFINE named == [tab[u] EXCEPT !.names = TRUE]
      <4>1. named.n = tab[u].n /\ named.up = tab[u].up /\ named \in TabState
        BY DEF TabState
      <4>2. tab'[u] = IF winner = NoWinner THEN named ELSE Told(named, ResultOf(u, winner))
        BY <3>3 DEF FetchNames
      <4> HIDE DEF named
      <4>3. tab'[u].n = tab[u].n /\ tab'[u].up = tab[u].up
        BY <4>1, <4>2 DEF Told, TabState
      <4>4. inbox' = inbox
        BY <3>3 DEF FetchNames
      <4>5. QED BY <1>2, <2>1, <2>3, <4>3, <4>4 DEF InInv, IsIn, Current
    <3>4. CASE Deliver(u)
      <4> DEFINE box == inbox[u]
      <4>1. box \in Seq(Message) /\ box # <<>>
        BY <3>4 DEF Deliver
      <4>2. ~ReceiveDuplicate(u)
        BY <1>2, <2>3 DEF ReceiveDuplicate, Show, Page
      <4>3. ReceiveEnd(u) \/ ReceivePresence(u)
        BY <3>4, <4>2 DEF Deliver
      <4>4. /\ Head(box) # "duplicate_session" /\ inbox'[u] = Tail(box)
            /\ tab'[u].n = tab[u].n /\ tab'[u].up = tab[u].up
        BY <3>1, <4>3, Constants DEF ReceiveEnd, ReceivePresence, TabState, Event
      <4> HIDE DEF box
      <4>5. Refused(box) => Refused(Tail(box))
        <5> SUFFICES ASSUME NEW i \in DOMAIN box, box[i] = "duplicate_session"
                     PROVE  Refused(Tail(box))
          BY DEF Refused
        <5>1. i # 1 /\ i \in 1 .. Len(box)
          BY <4>1, <4>4
        <5>2. i - 1 \in DOMAIN Tail(box) /\ Tail(box)[i - 1] = box[i]
          BY <4>1, <5>1
        <5>3. QED BY <5>2 DEF Refused
      <4>6. QED BY <1>2, <2>1, <2>3, <4>4, <4>5 DEF InInv, IsIn, Current, box
    <3>5. QED BY <1>2, <3>2, <3>3, <3>4
  <2>4. QED BY <2>2, <2>3
<1>3. QED BY <1>1, <1>2 DEF InInv

LEMMA InStep == TypeInv /\ InInv /\ [Next]_vars => InInv'
<1> SUFFICES ASSUME TypeInv, InInv, [Next]_vars PROVE InInv'
  OBVIOUS
<1>1. CASE UNCHANGED <<rooms, sock, tab, inbox>>
  BY <1>1 DEF InInv, IsIn, Current
<1>2. CASE Move \/ LookUp \/ (\E t \in Tab : Surrender(t)) \/ UNCHANGED vars
  BY <1>1, <1>2 DEF Move, LookUp, Surrender, vars
<1>3. CASE TellEnd
  <2>1. UNCHANGED <<rooms, sock, tab>> /\ winner \in Message
    BY <1>3 DEF TellEnd, TypeInv, Decided, Message
  <2>2. \A t \in Tab : Refused(inbox[t]) => Refused(inbox'[t])
    BY <1>3, <2>1, RefusedStays DEF TellEnd, TypeInv, TypeOK
  <2>3. QED BY <2>1, <2>2 DEF InInv, IsIn, Current
<1>4. CASE Restart
  <2>1. \A t \in Tab : tab'[t].up = FALSE
    BY <1>4 DEF Restart, TypeInv, TypeOK, TabState
  <2>2. QED BY <2>1 DEF InInv
<1>5. QED BY <1>2, <1>3, <1>4, InServe, InPage DEF Next, Answer

(***************************************************************************)
(* However connections break, late disconnects arrive, tabs compete and    *)
(* the service restarts: a page whose connection is up is in the room, is  *)
(* going to be, or is about to hear that it was refused.                   *)
(***************************************************************************)
THEOREM PagesAreIn == Spec => []NoneLeftOut
<1>1. Init => InInv
  BY DEF Init, InInv, Page
<1>2. InInv => NoneLeftOut
  BY DEF InInv, IsIn, Refused, NoneLeftOut
<1>3. Spec => []TypeInv
  BY TypeInit, TypeStep, PTL DEF Spec
<1>4. QED
  BY <1>1, <1>2, <1>3, InStep, PTL DEF Spec
=============================================================================
